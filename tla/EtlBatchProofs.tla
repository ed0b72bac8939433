---------------------------- MODULE EtlBatchProofs ----------------------------
(***************************************************************************)
(* Proofs about EtlBatch, for any number of partitions, messages and       *)
(* faults, and any batch size, concurrency and number of attempts: nothing *)
(* is committed before it is settled, a broken pipeline dead-letters       *)
(* nothing, and the ETL implements SiteSignals.  The second half is about  *)
(* PageParts: what the saves of a site and the jobs after them leave, and  *)
(* what they deadlock on.                                                  *)
(***************************************************************************)
EXTENDS EtlBatch, PartRows, FiniteSetTheorems, WellFoundedInduction, TLAPS

-----------------------------------------------------------------------------
(* The invariant.                                                          *)

\* What a workflow knows of a site is true of the site.
Truthful ==
  \A b \in Batch, e \in Event :
    /\ site[<<b, e>>] = "done" => e \in finished
    /\ site[<<b, e>>] = "recorded" => e \in deadLetters

\* Past asyncio.gather every site is done or poisoned, in the end its dead letter written.
Ended ==
  \A b \in Batch : \A e \in Sites(b) :
    /\ workflow[b] \in {"recording", "completed"} => site[<<b, e>>] \in {"done", "poisoned", "recorded"}
    /\ workflow[b] = "completed" => site[<<b, e>>] # "poisoned"

\* A workflow that writes dead letters has seen the pipeline work.
RecordsInCompany == \A b \in Batch : workflow[b] = "recording" => finished # {}

\* A batch is a run of each partition that starts at the committed offset.
PolledInOrder ==
  task # "idle" =>
    \A e \in polled :
      /\ committed[e[1]] <= e[2]
      /\ \A d \in Event : d[1] = e[1] /\ committed[d[1]] <= d[2] /\ d[2] < e[2] => d \in polled

\* The commit task has a settled batch.
ReadyToCommit == task = "commit" => \A e \in polled : Settled(e)

WorkInv == TypeOK /\ Truthful /\ Ended /\ RecordsInCompany /\ BrokenPipelineLosesNothing

CommitInv == PolledInOrder /\ ReadyToCommit /\ CommittedIsSettled

-----------------------------------------------------------------------------
(* Lemmas about the steps.                                                 *)

\* Temporal's retry touches one activity: it runs on, or has failed.
LEMMA RetryStep ==
  ASSUME TypeOK, NEW b \in Batch, NEW e \in b, Retry(b, e)
  PROVE  /\ site' \in [Batch \X Event -> SiteStatus]
         /\ attempt' \in [Batch \X Event -> 0 .. MaximumAttempts]
         /\ \A c \in Batch, d \in Event : site'[<<c, d>>] \in {site[<<c, d>>], "failed"}
         /\ \A c \in Batch, d \in Event : <<c, d>> # <<b, e>> => site'[<<c, d>>] = site[<<c, d>>]
<1>1. <<b, e>> \in Batch \X Event /\ MaximumAttempts \in Nat
  BY SizeAssumption DEF Batch
<1>2. CASE attempt[<<b, e>>] < MaximumAttempts
  <2>1. site' = site /\ attempt' = [attempt EXCEPT ![<<b, e>>] = @ + 1]
    BY <1>2 DEF Retry
  <2>2. attempt[<<b, e>>] + 1 \in 0 .. MaximumAttempts
    BY <1>1, <1>2 DEF TypeOK
  <2> QED  BY <1>1, <2>1, <2>2 DEF TypeOK
<1>3. CASE ~(attempt[<<b, e>>] < MaximumAttempts)
  <2>1. attempt' = attempt /\ site' = [site EXCEPT ![<<b, e>>] = "failed"]
    BY <1>3 DEF Retry
  <2> QED  BY <1>1, <2>1 DEF TypeOK, SiteStatus
<1> QED  BY <1>2, <1>3

\* What Airflow does with a failed task.
LEMMA TaskFailsStep ==
  ASSUME TypeOK, NEW again \in {"process", "commit"}, TaskFails(again)
  PROVE  /\ task' \in {"idle", again} /\ tries' \in 0 .. TaskRetries
         /\ polled' \in {polled, {}} /\ (task' # "idle" => polled' = polled)
BY BoundsAssumption DEF TypeOK, TaskFails

-----------------------------------------------------------------------------
(* The types.                                                              *)

LEMMA InitTypes == Init => TypeOK
<1> SUFFICES ASSUME Init PROVE TypeOK
  OBVIOUS
<1> {MaxOffset, TaskRetries, MaxFaults, MaximumAttempts} \subseteq Nat
  BY SizeAssumption, BoundsAssumption
<1>1. malformed \subseteq Event /\ poison \subseteq Event
  BY DEF Init
<1>2. published \in [Partition -> 0 .. MaxOffset] /\ committed \in [Partition -> 0 .. MaxOffset]
  BY DEF Init
<1>3. task = "idle" /\ tries \in 0 .. TaskRetries /\ polled \in Batch
  BY DEF Init, Batch
<1>4. workflow \in [Batch -> {"none", "running", "recording", "completed", "failed"}]
  BY DEF Init
<1>5. site \in [Batch \X Event -> SiteStatus]
  BY DEF Init, SiteStatus
<1>6. attempt \in [Batch \X Event -> 0 .. MaximumAttempts]
  BY DEF Init
<1>7. orphans = {} /\ finished = {} /\ marker = {} /\ deadLetters = {} /\ own = {} /\ faults = 0
  BY DEF Init
<1> QED
  BY <1>1, <1>2, <1>3, <1>4, <1>5, <1>6, <1>7 DEF TypeOK

\* Each action keeps the types.
LEMMA NextTypes == TypeOK /\ [Next]_vars => TypeOK'
<1> SUFFICES ASSUME TypeOK, [Next]_vars PROVE TypeOK'
  OBVIOUS
<1> USE BoundsAssumption, SizeAssumption
<1>0. Batch' = Batch /\ Event' = Event /\ Offset' = Offset
  BY DEF Batch, Event, Offset
<1>1. ASSUME NEW p \in Partition, Publish(p) PROVE TypeOK'
  <2>1. published' \in [Partition -> 0 .. MaxOffset]
    BY <1>1 DEF Publish, TypeOK
  <2> QED
    BY <1>1, <2>1 DEF Publish, TypeOK, inputs, dag, temporal, stored
<1>2. ASSUME NEW b \in Batch, PollBatch(b) PROVE TypeOK'
  <2>1. faults' \in 0 .. MaxFaults
    BY <1>2 DEF PollBatch, Fault, TypeOK
  <2> QED
    BY <1>2, <2>1 DEF PollBatch, TypeOK, inputs, dag, temporal, stored
<1>3. CASE ProcessBatch
  <2>1. workflow' \in [Batch -> {"none", "running", "recording", "completed", "failed"}]
    BY <1>3 DEF ProcessBatch, TypeOK
  <2>2. site' \in [Batch \X Event -> SiteStatus]
    BY <1>3 DEF ProcessBatch, TypeOK, SiteStatus
  <2>3. attempt' \in [Batch \X Event -> 0 .. MaximumAttempts]
    BY <1>3 DEF ProcessBatch, TypeOK
  <2>4. task' \in {"idle", "process", "await", "commit"} /\ tries' \in 0 .. TaskRetries
    BY <1>3 DEF ProcessBatch, TypeOK
  <2> QED
    BY <1>3, <2>1, <2>2, <2>3, <2>4 DEF ProcessBatch, TypeOK, inputs, stored
<1>4. CASE AwaitCompleted
  BY <1>4 DEF AwaitCompleted, TypeOK, inputs, temporal, stored
<1>5. CASE AwaitFailed
  <2>1. TaskFails("process")
    BY <1>5 DEF AwaitFailed
  <2>2. task' \in {"idle", "process"} /\ tries' \in 0 .. TaskRetries /\ polled' \in Batch
    BY <2>1, TaskFailsStep DEF TypeOK, Batch
  <2> QED
    BY <1>5, <2>2 DEF AwaitFailed, TypeOK, inputs, temporal, stored
<1>6. CASE TaskDies
  <2>1. \E again \in {"process", "commit"} : TaskFails(again)
    BY <1>6 DEF TaskDies
  <2>2. task' \in {"idle", "process", "commit"} /\ tries' \in 0 .. TaskRetries /\ polled' \in Batch
    BY <2>1, TaskFailsStep DEF TypeOK, Batch
  <2>3. faults' \in 0 .. MaxFaults
    BY <1>6 DEF TaskDies, Fault, TypeOK
  <2> QED
    BY <1>6, <2>2, <2>3 DEF TaskDies, TypeOK, inputs, temporal, stored
<1>7. CASE CommitOffsets
  BY <1>7 DEF CommitOffsets, TypeOK, Batch, inputs, temporal, stored
<1>8. ASSUME NEW b \in Batch, NEW e \in b, StartSite(b, e) PROVE TypeOK'
  <2>1. <<b, e>> \in Batch \X Event
    BY DEF Batch
  <2>2. site' \in [Batch \X Event -> SiteStatus]
    BY <1>8, <2>1 DEF StartSite, TypeOK, SiteStatus
  <2>3. attempt' \in [Batch \X Event -> 0 .. MaximumAttempts]
    BY <1>8, <2>1 DEF StartSite, TypeOK
  <2> QED
    BY <1>8, <2>2, <2>3 DEF StartSite, TypeOK, inputs, dag, stored
<1>9. ASSUME NEW e \in Event, Processed(e)
      PROVE /\ finished' \subseteq Event /\ marker' \subseteq finished'
            /\ faults' \in 0 .. MaxFaults
  BY <1>9 DEF Processed, Fault, TypeOK
<1>10. ASSUME NEW b \in Batch, NEW e \in b, SiteFinishes(b, e) PROVE TypeOK'
  <2>1. e \in Event /\ <<b, e>> \in Batch \X Event
    BY DEF Batch
  <2>2. site' \in [Batch \X Event -> SiteStatus]
    BY <1>10, <2>1 DEF SiteFinishes, TypeOK, SiteStatus
  <2>3. /\ finished' \subseteq Event /\ marker' \subseteq finished'
        /\ faults' \in 0 .. MaxFaults
    BY <1>9, <1>10, <2>1 DEF SiteFinishes
  <2> QED
    BY <1>10, <2>2, <2>3 DEF SiteFinishes, TypeOK, inputs, dag
<1>11. ASSUME NEW b \in Batch, NEW e \in b, SiteOutage(b, e) PROVE TypeOK'
  <2>1. Retry(b, e) /\ faults' \in 0 .. MaxFaults
    BY <1>11 DEF SiteOutage, Fault, TypeOK
  <2> QED
    BY <1>11, <2>1, RetryStep DEF SiteOutage, TypeOK, inputs, dag, stored
<1>12. ASSUME NEW b \in Batch, NEW e \in b, SiteFails(b, e) PROVE TypeOK'
  <2>1. e \in Event /\ <<b, e>> \in Batch \X Event
    BY DEF Batch
  <2>2. own' \subseteq Event /\ faults' \in 0 .. MaxFaults
    BY <1>12, <2>1 DEF SiteFails, Fault, TypeOK
  <2>3. /\ site' \in [Batch \X Event -> SiteStatus]
        /\ attempt' \in [Batch \X Event -> 0 .. MaximumAttempts]
    <3>1. CASE GivesUp(b, e)
      BY <1>12, <2>1, <3>1 DEF SiteFails, TypeOK, SiteStatus
    <3>2. CASE ~GivesUp(b, e)
      BY <1>12, <3>2, RetryStep DEF SiteFails
    <3> QED  BY <3>1, <3>2
  <2> QED
    BY <1>12, <2>2, <2>3 DEF SiteFails, TypeOK, inputs, dag, stored
<1>13. ASSUME NEW b \in Batch, NEW e \in b, SiteTimesOut(b, e) PROVE TypeOK'
  <2>1. Retry(b, e) /\ faults' \in 0 .. MaxFaults
    BY <1>13 DEF SiteTimesOut, Fault, TypeOK
  <2>2. orphans' \subseteq Event
    BY <1>13 DEF SiteTimesOut, TypeOK, Batch
  <2> QED
    BY <1>13, <2>1, <2>2, RetryStep DEF SiteTimesOut, TypeOK, inputs, dag, stored
<1>14. ASSUME NEW e \in Event, OrphanFinishes(e) PROVE TypeOK'
  <2>1. /\ finished' \subseteq Event /\ marker' \subseteq finished'
        /\ faults' \in 0 .. MaxFaults
    BY <1>9, <1>14 DEF OrphanFinishes
  <2> QED
    BY <1>14, <2>1 DEF OrphanFinishes, TypeOK, inputs, dag
<1>15. ASSUME NEW e \in Event, OrphanEnds(e) PROVE TypeOK'
  BY <1>15 DEF OrphanEnds, TypeOK, inputs, dag, stored
<1>16. ASSUME NEW b \in Batch, EndSites(b) PROVE TypeOK'
  <2>1. workflow' \in [Batch -> {"none", "running", "recording", "completed", "failed"}]
    BY <1>16 DEF EndSites, TypeOK
  <2> QED
    BY <1>16, <2>1 DEF EndSites, TypeOK, inputs, dag, stored
<1>17. ASSUME NEW b \in Batch, NEW e \in b, RecordDeadLetter(b, e) PROVE TypeOK'
  <2>1. e \in Event /\ <<b, e>> \in Batch \X Event
    BY DEF Batch
  <2>2. site' \in [Batch \X Event -> SiteStatus] /\ deadLetters' \subseteq Event
    BY <1>17, <2>1 DEF RecordDeadLetter, TypeOK, SiteStatus
  <2> QED
    BY <1>17, <2>2 DEF RecordDeadLetter, TypeOK, inputs, dag
<1>18. ASSUME NEW b \in Batch, EndBatch(b) PROVE TypeOK'
  <2>1. workflow' \in [Batch -> {"none", "running", "recording", "completed", "failed"}]
    BY <1>18 DEF EndBatch, TypeOK
  <2> QED
    BY <1>18, <2>1 DEF EndBatch, TypeOK, inputs, dag, stored
<1>19. CASE UNCHANGED vars
  BY <1>19 DEF vars, TypeOK
<1> QED
  BY <1>1, <1>2, <1>3, <1>4, <1>5, <1>6, <1>7, <1>8, <1>10, <1>11, <1>12, <1>13, <1>14, <1>15,
     <1>16, <1>17, <1>18, <1>19 DEF Next, Dag, Work, Trouble

-----------------------------------------------------------------------------
(* What the workflows know.                                                *)

\* Nothing that is settled is unsettled again.
LEMMA SettledStays ==
  ASSUME [Next]_vars
  PROVE  malformed' = malformed /\ finished \subseteq finished' /\ deadLetters \subseteq deadLetters'
<1> USE DEF inputs, stored, temporal
<1>1. CASE UNCHANGED vars
  BY <1>1 DEF vars
<1>2. CASE \E p \in Partition : Publish(p)
  BY <1>2 DEF Publish
<1>3. CASE Dag
  BY <1>3 DEF Dag, PollBatch, ProcessBatch, AwaitCompleted, AwaitFailed, CommitOffsets
<1>4. CASE \E b \in Batch : Work(b)
  BY <1>4 DEF Work, StartSite, SiteFinishes, Processed, SiteFails, RecordDeadLetter, EndSites,
              EndBatch
<1>5. CASE Trouble
  BY <1>5 DEF Trouble, TaskDies, SiteOutage, SiteTimesOut, OrphanFinishes, OrphanEnds, Processed
<1> QED
  BY <1>1, <1>2, <1>3, <1>4, <1>5 DEF Next

\* A step that changes the status of the sites of running workflows only, and calls
\* nothing done or recorded that was not, keeps all of it.
LEMMA SitesAtWork ==
  ASSUME WorkInv, [Next]_vars, UNCHANGED <<workflow, deadLetters>>,
         \A b \in Batch, e \in Event :
           \/ site'[<<b, e>>] = site[<<b, e>>]
           \/ /\ workflow[b] = "running"
              /\ site'[<<b, e>>] \in {"running", "poisoned", "failed"}
  PROVE  Truthful' /\ Ended' /\ RecordsInCompany' /\ BrokenPipelineLosesNothing'
<1>1. malformed' = malformed /\ finished \subseteq finished'
  BY SettledStays
<1>2. Batch' = Batch /\ Event' = Event
  BY DEF Batch, Event, Offset
<1>3. Truthful'
  BY <1>1, <1>2 DEF WorkInv, Truthful
<1>4. Ended'
  <2> SUFFICES ASSUME NEW c \in Batch, NEW d \in Sites(c)
               PROVE  /\ workflow'[c] \in {"recording", "completed"} =>
                           site'[<<c, d>>] \in {"done", "poisoned", "recorded"}
                      /\ workflow'[c] = "completed" => site'[<<c, d>>] # "poisoned"
    BY <1>1, <1>2 DEF Ended, Sites
  <2>1. d \in Event
    BY DEF Sites, Batch
  <2> QED
    BY <1>1, <2>1 DEF WorkInv, Ended
<1>5. RecordsInCompany' /\ BrokenPipelineLosesNothing'
  BY <1>1, <1>2 DEF WorkInv, RecordsInCompany, BrokenPipelineLosesNothing
<1> QED
  BY <1>3, <1>4, <1>5

LEMMA RetryKeepsWork ==
  ASSUME WorkInv, [Next]_vars, UNCHANGED <<workflow, deadLetters>>,
         NEW b \in Batch, NEW e \in b, Attempting(b, e), Retry(b, e)
  PROVE  Truthful' /\ Ended' /\ RecordsInCompany' /\ BrokenPipelineLosesNothing'
<1>1. \A c \in Batch, d \in Event :
        \/ site'[<<c, d>>] = site[<<c, d>>]
        \/ workflow[c] = "running" /\ site'[<<c, d>>] \in {"running", "poisoned", "failed"}
  BY RetryStep DEF WorkInv, Attempting
<1> QED
  BY <1>1, SitesAtWork

LEMMA WorkStep == WorkInv /\ [Next]_vars => WorkInv'
<1> SUFFICES ASSUME WorkInv, [Next]_vars
             PROVE  Truthful' /\ Ended' /\ RecordsInCompany' /\ BrokenPipelineLosesNothing'
  BY NextTypes DEF WorkInv
<1> DEFINE Goal == Truthful' /\ Ended' /\ RecordsInCompany' /\ BrokenPipelineLosesNothing'
<1>0. TypeOK /\ Batch' = Batch /\ Event' = Event /\ malformed' = malformed
      /\ finished \subseteq finished' /\ deadLetters \subseteq deadLetters'
  BY SettledStays DEF WorkInv, Batch, Event, Offset
<1>1. CASE UNCHANGED <<workflow, site, deadLetters>>
  BY <1>1, SitesAtWork
<1>2. CASE ProcessBatch
  <2>1. /\ UNCHANGED <<finished, deadLetters>>
        /\ \A b \in Batch : workflow'[b] \in {workflow[b], "running"}
        /\ \A b \in Batch, e \in Event : site'[<<b, e>>] \in {site[<<b, e>>], "waiting"}
        /\ \A b \in Batch : workflow'[b] # "running" =>
             /\ workflow'[b] = workflow[b]
             /\ \A e \in Event : site'[<<b, e>>] = site[<<b, e>>]
    BY <1>0, <1>2 DEF ProcessBatch, TypeOK, stored
  <2>2. Truthful'
    BY <1>0, <2>1 DEF WorkInv, Truthful
  <2>3. Ended'
    <3> SUFFICES ASSUME NEW c \in Batch, NEW d \in Sites(c)
                 PROVE  /\ workflow'[c] \in {"recording", "completed"} =>
                             site'[<<c, d>>] \in {"done", "poisoned", "recorded"}
                        /\ workflow'[c] = "completed" => site'[<<c, d>>] # "poisoned"
      BY <1>0 DEF Ended, Sites
    <3>1. d \in Event
      BY DEF Sites, Batch
    <3> QED
      BY <2>1, <3>1 DEF WorkInv, Ended
  <2>4. RecordsInCompany' /\ BrokenPipelineLosesNothing'
    BY <1>0, <2>1 DEF WorkInv, RecordsInCompany, BrokenPipelineLosesNothing
  <2> QED
    BY <2>2, <2>3, <2>4
<1>3. ASSUME NEW b \in Batch, NEW e \in b, StartSite(b, e) PROVE Goal
  <2>1. e \in Event
    BY DEF Batch
  <2>2. \A c \in Batch, d \in Event :
          \/ site'[<<c, d>>] = site[<<c, d>>]
          \/ workflow[c] = "running" /\ site'[<<c, d>>] \in {"running", "poisoned", "failed"}
    BY <1>0, <1>3, <2>1 DEF StartSite, TypeOK
  <2> QED
    BY <1>3, <2>2, SitesAtWork DEF StartSite, stored
<1>4. ASSUME NEW b \in Batch, NEW e \in b, SiteFinishes(b, e) PROVE Goal
  <2>1. /\ e \in Event /\ workflow' = workflow /\ deadLetters' = deadLetters
        /\ workflow[b] = "running" /\ e \in finished'
    BY <1>4 DEF SiteFinishes, Attempting, Processed, Batch
  <2>2. \A c \in Batch, d \in Event :
          \/ site'[<<c, d>>] = site[<<c, d>>]
          \/ c = b /\ d = e /\ site'[<<c, d>>] = "done"
    BY <1>0, <1>4, <2>1 DEF SiteFinishes, TypeOK
  <2>3. Truthful'
    BY <1>0, <2>1, <2>2 DEF WorkInv, Truthful
  <2>4. Ended'
    BY <1>0, <2>1, <2>2 DEF WorkInv, Ended, Sites, Batch
  <2>5. RecordsInCompany' /\ BrokenPipelineLosesNothing'
    BY <1>0, <2>1 DEF WorkInv, RecordsInCompany, BrokenPipelineLosesNothing
  <2> QED
    BY <2>3, <2>4, <2>5
<1>5. ASSUME NEW b \in Batch, NEW e \in b, SiteOutage(b, e) PROVE Goal
  BY <1>5, RetryKeepsWork DEF SiteOutage, stored
<1>6. ASSUME NEW b \in Batch, NEW e \in b, SiteFails(b, e) PROVE Goal
  <2>1. CASE GivesUp(b, e)
    <3>1. e \in Event
      BY DEF Batch
    <3>2. \A c \in Batch, d \in Event :
            \/ site'[<<c, d>>] = site[<<c, d>>]
            \/ workflow[c] = "running" /\ site'[<<c, d>>] \in {"running", "poisoned", "failed"}
      BY <1>0, <1>6, <2>1, <3>1 DEF SiteFails, Attempting, TypeOK
    <3> QED
      BY <1>6, <3>2, SitesAtWork DEF SiteFails, stored
  <2>2. CASE ~GivesUp(b, e)
    BY <1>6, <2>2, RetryKeepsWork DEF SiteFails, stored
  <2> QED
    BY <2>1, <2>2
<1>7. ASSUME NEW b \in Batch, NEW e \in b, SiteTimesOut(b, e) PROVE Goal
  BY <1>7, RetryKeepsWork DEF SiteTimesOut, stored
<1>8. ASSUME NEW b \in Batch, EndSites(b) PROVE Goal
  <2>1. /\ UNCHANGED <<site, finished, deadLetters>>
        /\ \A c \in Batch : c # b => workflow'[c] = workflow[c]
        /\ workflow'[b] = IF BatchFails(b) THEN "failed" ELSE "recording"
    BY <1>0, <1>8 DEF EndSites, TypeOK, stored
  <2>2. Truthful'
    BY <1>0, <2>1 DEF WorkInv, Truthful
  <2>3. workflow'[b] = "recording" =>
          /\ \A e \in Sites(b) : site[<<b, e>>] \in {"done", "poisoned", "recorded"}
          /\ \E e \in Sites(b) : site[<<b, e>>] \in {"done", "recorded"}
    <3> SUFFICES ASSUME ~BatchFails(b)
                 PROVE  /\ \A e \in Sites(b) : site[<<b, e>>] \in {"done", "poisoned", "recorded"}
                        /\ \E e \in Sites(b) : site[<<b, e>>] \in {"done", "recorded"}
      BY <2>1
    <3>1. \A e \in Sites(b) : site[<<b, e>>] \in SiteStatus
      BY <1>0 DEF TypeOK, Sites, Batch
    <3> QED
      BY <1>8, <3>1 DEF EndSites, BatchFails, SiteStatus
  <2>4. Ended'
    BY <1>0, <2>1, <2>3 DEF WorkInv, Ended, Sites
  <2>5. workflow'[b] = "recording" => finished # {}
    <3>1. \A e \in Sites(b) : e \in Event
      BY DEF Sites, Batch
    <3> QED
      BY <2>3, <3>1 DEF WorkInv, Truthful, BrokenPipelineLosesNothing
  <2>6. RecordsInCompany' /\ BrokenPipelineLosesNothing'
    BY <1>0, <2>1, <2>5 DEF WorkInv, RecordsInCompany, BrokenPipelineLosesNothing
  <2> QED
    BY <2>2, <2>4, <2>6
<1>9. ASSUME NEW b \in Batch, NEW e \in b, RecordDeadLetter(b, e) PROVE Goal
  <2>1. /\ e \in Event /\ e \in deadLetters'
        /\ UNCHANGED <<workflow, finished>> /\ workflow[b] = "recording"
    BY <1>9 DEF RecordDeadLetter, Batch
  <2>2. \A c \in Batch, d \in Event :
          \/ site'[<<c, d>>] = site[<<c, d>>]
          \/ c = b /\ d = e /\ site'[<<c, d>>] = "recorded"
    BY <1>0, <1>9, <2>1 DEF RecordDeadLetter, TypeOK
  <2>3. Truthful'
    BY <1>0, <2>1, <2>2 DEF WorkInv, Truthful
  <2>4. Ended'
    BY <1>0, <2>1, <2>2 DEF WorkInv, Ended, Sites, Batch
  <2>5. RecordsInCompany' /\ BrokenPipelineLosesNothing'
    BY <1>0, <2>1 DEF WorkInv, RecordsInCompany, BrokenPipelineLosesNothing
  <2> QED
    BY <2>3, <2>4, <2>5
<1>10. ASSUME NEW b \in Batch, EndBatch(b) PROVE Goal
  <2>1. /\ UNCHANGED <<site, finished, deadLetters>>
        /\ \A c \in Batch : c # b => workflow'[c] = workflow[c]
        /\ workflow[b] = "recording" /\ workflow'[b] = "completed" /\ AllRecorded(b)
    BY <1>0, <1>10 DEF EndBatch, TypeOK, stored
  <2>2. Truthful'
    BY <1>0, <2>1 DEF WorkInv, Truthful
  <2>3. Ended'
    BY <1>0, <2>1 DEF WorkInv, Ended, Sites, AllRecorded
  <2>4. RecordsInCompany' /\ BrokenPipelineLosesNothing'
    BY <1>0, <2>1 DEF WorkInv, RecordsInCompany, BrokenPipelineLosesNothing
  <2> QED
    BY <2>2, <2>3, <2>4
<1>11. ASSUME NEW p \in Partition, Publish(p) PROVE Goal
  BY <1>1, <1>11 DEF Publish, temporal, stored
<1>12. CASE Dag
  BY <1>1, <1>2, <1>12 DEF Dag, PollBatch, AwaitCompleted, AwaitFailed, CommitOffsets, temporal,
                           stored
<1>13. CASE TaskDies
  BY <1>1, <1>13 DEF TaskDies, temporal, stored
<1>14. ASSUME NEW e \in Event, OrphanFinishes(e) \/ OrphanEnds(e) PROVE Goal
  BY <1>1, <1>14 DEF OrphanFinishes, OrphanEnds, stored
<1>15. CASE UNCHANGED vars
  BY <1>1, <1>15 DEF vars
<1> QED
  BY <1>3, <1>4, <1>5, <1>6, <1>7, <1>8, <1>9, <1>10, <1>11, <1>12, <1>13, <1>14, <1>15
     DEF Next, Work, Trouble

-----------------------------------------------------------------------------
(* What the DAG commits.                                                   *)

LEMMA CommitStep == WorkInv /\ CommitInv /\ [Next]_vars => CommitInv'
<1> SUFFICES ASSUME WorkInv, CommitInv, [Next]_vars PROVE CommitInv'
  OBVIOUS
<1>0. /\ Event' = Event /\ polled \subseteq Event
      /\ \A e \in Event : e[1] \in Partition /\ e[2] \in 0 .. MaxOffset - 1 /\ e = <<e[1], e[2]>>
      /\ \A e : Settled(e) => Settled(e)'
      /\ committed \in [Partition -> 0 .. MaxOffset] /\ MaxOffset \in Nat
  BY SettledStays, BoundsAssumption DEF WorkInv, TypeOK, Batch, Event, Offset, Settled
<1>1. committed' = committed => CommittedIsSettled'
  BY <1>0 DEF CommitInv, CommittedIsSettled
<1>2. committed' = committed /\ (task' # "idle" => task # "idle" /\ polled' = polled)
        => PolledInOrder'
  BY <1>0 DEF CommitInv, PolledInOrder
<1>3. (task' = "commit" => task = "commit" /\ polled' = polled) => ReadyToCommit'
  BY <1>0 DEF CommitInv, ReadyToCommit
<1>4. CASE UNCHANGED <<committed, task, polled>>
  BY <1>1, <1>2, <1>3, <1>4 DEF CommitInv
<1>5. ASSUME NEW b \in Batch, PollBatch(b) PROVE CommitInv'
  <2>1. /\ committed' = committed /\ task' = "process" /\ polled' = b
        /\ published \in [Partition -> 0 .. MaxOffset] /\ IsNext(b)
    BY <1>5 DEF PollBatch, WorkInv, TypeOK
  <2>2. ASSUME NEW e \in b
        PROVE  /\ committed[e[1]] <= e[2]
               /\ \A d \in Event : d[1] = e[1] /\ committed[d[1]] <= d[2] /\ d[2] < e[2] => d \in b
    <3>1. e \in Event /\ e \in Waiting
      BY <2>1 DEF IsNext, Batch
    <3>2. \A d \in Event : d[1] = e[1] /\ committed[d[1]] <= d[2] /\ d[2] < e[2] => d \in Waiting
      BY <1>0, <2>1, <3>1 DEF Waiting
    <3> QED
      BY <2>1, <3>1, <3>2 DEF IsNext, Waiting
  <2>3. PolledInOrder'
    BY <1>0, <2>1, <2>2 DEF PolledInOrder
  <2> QED
    BY <1>1, <1>3, <2>1, <2>3 DEF CommitInv
<1>6. CASE ProcessBatch
  <2>1. committed' = committed /\ polled' = polled /\ task # "idle"
    BY <1>6 DEF ProcessBatch
  <2>2. task' = "commit" => \A e \in polled : Settled(e)
    BY <1>6 DEF ProcessBatch, Sites, Settled
  <2>3. ReadyToCommit'
    BY <1>0, <2>1, <2>2 DEF ReadyToCommit
  <2> QED
    BY <1>1, <1>2, <2>1, <2>3 DEF CommitInv
<1>7. CASE AwaitCompleted
  <2>1. committed' = committed /\ polled' = polled /\ task # "idle"
    BY <1>7 DEF AwaitCompleted
  <2>2. ASSUME NEW e \in polled PROVE Settled(e)
    <3>1. polled \in Batch /\ e \in Event /\ workflow[polled] = "completed"
      BY <1>0, <1>7 DEF AwaitCompleted, WorkInv, TypeOK
    <3>2. CASE e \in malformed
      BY <3>2 DEF Settled
    <3>3. CASE e \in Sites(polled)
      <4>1. site[<<polled, e>>] \in {"done", "recorded"}
        BY <3>1, <3>3 DEF WorkInv, Ended
      <4> QED
        BY <3>1, <4>1 DEF WorkInv, Truthful, Settled
    <3> QED
      BY <3>2, <3>3 DEF Sites
  <2>3. ReadyToCommit'
    BY <1>0, <2>1, <2>2 DEF ReadyToCommit
  <2> QED
    BY <1>1, <1>2, <2>1, <2>3 DEF CommitInv
<1>8. CASE AwaitFailed
  <2>1. committed' = committed /\ task' \in {"idle", "process"} /\ task # "idle"
        /\ (task' # "idle" => polled' = polled)
    BY <1>8, TaskFailsStep DEF AwaitFailed, WorkInv
  <2> QED
    BY <1>1, <1>2, <1>3, <2>1 DEF CommitInv
<1>9. CASE TaskDies
  <2> DEFINE again == IF task = "commit" THEN "commit" ELSE "process"
  <2>1. committed' = committed /\ task # "idle" /\ TaskFails(again)
    BY <1>9 DEF TaskDies
  <2>2. task' \in {"idle", again} /\ (task' # "idle" => polled' = polled)
    BY <2>1, TaskFailsStep DEF WorkInv
  <2> QED
    BY <1>1, <1>2, <1>3, <2>1, <2>2 DEF CommitInv
<1>10. CASE CommitOffsets
  <2>1. /\ task = "commit" /\ task' = "idle"
        /\ committed' \in [Partition -> 0 .. MaxOffset]
        /\ \A p \in Partition :
             IF \E e \in polled : e[1] = p THEN IsEnd(committed'[p], polled, p)
                                           ELSE committed'[p] = committed[p]
    BY <1>10 DEF CommitOffsets
  <2>2. ASSUME NEW e \in Event, e[2] < committed'[e[1]] PROVE Settled(e)
    <3> DEFINE p == e[1]
               last == <<p, committed'[p] - 1>>
    <3>1. p \in Partition /\ e[2] \in Nat /\ committed[p] \in Nat /\ committed'[p] \in Nat
      BY <1>0, <2>1
    <3>2. CASE e[2] < committed[p]
      BY <3>2 DEF CommitInv, CommittedIsSettled
    <3>3. CASE e[2] >= committed[p]
      <4>1. IsEnd(committed'[p], polled, p)
        BY <2>1, <2>2, <3>1, <3>3
      <4>2. last \in polled /\ last[1] = p /\ last[2] = committed'[p] - 1
        BY <4>1 DEF IsEnd
      <4>3. e \in polled
        <5>1. CASE e[2] = last[2]
          BY <1>0, <4>2, <5>1
        <5>2. CASE e[2] < last[2]
          BY <2>1, <3>3, <4>2, <5>2 DEF CommitInv, PolledInOrder
        <5> QED
          BY <2>2, <3>1, <4>2, <5>1, <5>2
      <4> QED
        BY <2>1, <4>3 DEF CommitInv, ReadyToCommit
    <3> QED
      BY <3>1, <3>2, <3>3
  <2>3. CommittedIsSettled'
    BY <1>0, <2>2 DEF CommittedIsSettled
  <2> QED
    BY <1>3, <2>1, <2>3 DEF CommitInv, PolledInOrder
<1>11. ASSUME NEW p \in Partition, Publish(p) PROVE CommitInv'
  BY <1>4, <1>11 DEF Publish, dag
<1>12. ASSUME NEW b \in Batch, Work(b) PROVE CommitInv'
  BY <1>4, <1>12 DEF Work, StartSite, SiteFinishes, SiteFails, RecordDeadLetter, EndSites,
                     EndBatch, dag
<1>13. ASSUME NEW b \in Batch, NEW e \in b, SiteOutage(b, e) \/ SiteTimesOut(b, e)
       PROVE  CommitInv'
  BY <1>4, <1>13 DEF SiteOutage, SiteTimesOut, dag
<1>14. ASSUME NEW e \in Event, OrphanFinishes(e) \/ OrphanEnds(e) PROVE CommitInv'
  BY <1>4, <1>14 DEF OrphanFinishes, OrphanEnds, dag
<1>15. CASE UNCHANGED vars
  BY <1>4, <1>15 DEF vars
<1> QED
  BY <1>5, <1>6, <1>7, <1>8, <1>9, <1>10, <1>11, <1>12, <1>13, <1>14, <1>15
     DEF Next, Dag, Trouble

LEMMA InitInv == Init => WorkInv /\ CommitInv
<1> SUFFICES ASSUME Init PROVE WorkInv /\ CommitInv
  OBVIOUS
<1>1. TypeOK
  BY InitTypes
<1>2. Truthful /\ Ended /\ RecordsInCompany /\ BrokenPipelineLosesNothing
  BY DEF Init, Truthful, Ended, Sites, Batch, RecordsInCompany, BrokenPipelineLosesNothing
<1>3. CommitInv
  BY BoundsAssumption
     DEF Init, CommitInv, PolledInOrder, ReadyToCommit, CommittedIsSettled, Event, Offset
<1> QED
  BY <1>1, <1>2, <1>3 DEF WorkInv

LEMMA Invariant == Spec => [](WorkInv /\ CommitInv)
<1>1. WorkInv /\ CommitInv /\ [Next]_vars => (WorkInv /\ CommitInv)'
  BY WorkStep, CommitStep
<1> QED
  BY InitInv, <1>1, PTL DEF Spec

-----------------------------------------------------------------------------
(* Theorems.                                                               *)

\* Every variable keeps its type (EtlBatch, any sizes).
THEOREM Typed == Spec => []TypeOK
<1>1. WorkInv => TypeOK
  BY DEF WorkInv
<1> QED
  BY Invariant, <1>1, PTL

\* An offset is committed only when all events before it are invalid, processed or
\* dead-lettered (process_batch before commit_offsets, and what the workflow waits for).
THEOREM CommitsSettled == Spec => []CommittedIsSettled
<1>1. CommitInv => CommittedIsSettled
  BY DEF CommitInv
<1> QED
  BY Invariant, <1>1, PTL

\* While no site was ever processed, no site is dead-lettered (etl_workflows.py:105-108).
THEOREM BrokenPipelineIsRetried == Spec => []BrokenPipelineLosesNothing
<1>1. WorkInv => BrokenPipelineLosesNothing
  BY DEF WorkInv
<1> QED
  BY Invariant, <1>1, PTL

\* No event is lost: offsets wait for what they cover, dead letters for a pipeline
\* that works.
THEOREM NoEventIsLost == Spec => []NothingIsLost
<1>1. CommittedIsSettled /\ BrokenPipelineLosesNothing => NothingIsLost
  BY DEF NothingIsLost
<1> QED
  BY <1>1, CommitsSettled, BrokenPipelineIsRetried, PTL

-----------------------------------------------------------------------------
(* The refinement.                                                         *)

settledEvents == {e \in Event : Settled(e)}

\* Every step but the commit leaves the offsets and settles at most one event.
LEMMA StepOfSignals ==
  ASSUME WorkInv, CommitInv, [Next]_vars
  PROVE  [Signals!Next]_<<settledEvents, committed>>
<1> DEFINE Stutter == UNCHANGED <<settledEvents, committed>>
           Settles == \E e \in Event : Signals!Settle(e)
           Commits == \E offsets \in [Partition -> 0 .. MaxOffset] : Signals!Commit(offsets)
<1>1. UNCHANGED <<malformed, finished, deadLetters, committed>> => Stutter
  BY DEF settledEvents, Settled, Event, Offset
<1>2. ASSUME NEW e \in Event, UNCHANGED <<malformed, committed>>,
             \/ finished' = finished \cup {e} /\ deadLetters' = deadLetters
             \/ deadLetters' = deadLetters \cup {e} /\ finished' = finished
      PROVE  Settles
  <2>1. settledEvents' = settledEvents \cup {e}
    BY <1>2 DEF settledEvents, Settled, Event, Offset
  <2> QED
    BY <1>2, <2>1 DEF Signals!Settle, settledEvents
<1>3. ASSUME CommitOffsets PROVE Commits
  <2>1. /\ committed' \in [Partition -> 0 .. MaxOffset]
        /\ committed \in [Partition -> 0 .. MaxOffset]
        /\ task = "commit" /\ MaxOffset \in Nat
        /\ UNCHANGED <<malformed, finished, deadLetters>>
    BY <1>3, BoundsAssumption DEF CommitOffsets, WorkInv, TypeOK, inputs, stored
  <2>2. ASSUME NEW p \in Partition PROVE committed'[p] >= committed[p]
    <3>1. CASE \E e \in polled : e[1] = p
      <4>1. <<p, committed'[p] - 1>> \in polled
        BY <1>3, <3>1 DEF CommitOffsets, IsEnd
      <4>2. committed[p] <= committed'[p] - 1
        BY <2>1, <4>1 DEF CommitInv, PolledInOrder
      <4> QED
        BY <2>1, <4>2
    <3>2. CASE ~ \E e \in polled : e[1] = p
      BY <1>3, <2>1, <3>2 DEF CommitOffsets
    <3> QED
      BY <3>1, <3>2
  <2>3. \A e \in Event : e[2] < committed'[e[1]] => e \in settledEvents
    BY <2>1, CommitStep DEF CommitInv, CommittedIsSettled, Settled, settledEvents, Event, Offset
  <2>4. settledEvents' = settledEvents
    BY <2>1 DEF settledEvents, Settled, Event, Offset
  <2> QED
    BY <2>1, <2>2, <2>3, <2>4 DEF Signals!Commit, Signals!Event, settledEvents, Event, Offset
<1>4. Settles \/ Commits => Signals!Next
  BY DEF Signals!Next, Signals!Event, Event, Offset
<1>5. ASSUME Dag PROVE Commits \/ Stutter
  <2>1. CommitOffsets \/ UNCHANGED <<malformed, finished, deadLetters, committed>>
    BY <1>5 DEF Dag, PollBatch, ProcessBatch, AwaitCompleted, AwaitFailed, inputs, stored
  <2> QED
    BY <1>1, <1>3, <2>1
<1>6. ASSUME NEW b \in Batch, Work(b) PROVE Settles \/ Stutter
  <2>1. ASSUME NEW e \in b, SiteFinishes(b, e) \/ RecordDeadLetter(b, e) PROVE Settles
    BY <1>2, <2>1 DEF SiteFinishes, Processed, RecordDeadLetter, inputs, Batch
  <2>2. ASSUME NEW e \in b, StartSite(b, e) \/ SiteFails(b, e) PROVE Stutter
    BY <1>1, <2>2 DEF StartSite, SiteFails, inputs, stored
  <2>3. ASSUME EndSites(b) \/ EndBatch(b) PROVE Stutter
    BY <1>1, <2>3 DEF EndSites, EndBatch, inputs, stored
  <2> QED
    BY <1>6, <2>1, <2>2, <2>3 DEF Work
<1>7. ASSUME NEW e \in Event, OrphanFinishes(e) PROVE Settles
  BY <1>2, <1>7 DEF OrphanFinishes, Processed, inputs
<1>8. ASSUME \/ \E p \in Partition : Publish(p)
             \/ TaskDies
             \/ \E b \in Batch : \E e \in b : SiteOutage(b, e) \/ SiteTimesOut(b, e)
             \/ \E e \in Event : OrphanEnds(e)
             \/ UNCHANGED vars
      PROVE  Stutter
  BY <1>1, <1>8 DEF Publish, TaskDies, SiteOutage, SiteTimesOut, OrphanEnds, vars, inputs, stored
<1>9. Settles \/ Commits \/ Stutter
  BY <1>5, <1>6, <1>7, <1>8 DEF Next, Trouble
<1> QED
  BY <1>4, <1>9

\* The ETL, with its retries, orphans and batches, implements SiteSignals: steps settle
\* one event, or commit offsets before which everything is settled, and undo neither.
THEOREM ImplementsSignals == Spec => KeepsPromise
<1>1. Init => Signals!Init
  BY DEF Init, Signals!Init, Signals!Event, Event, Offset
<1>2. WorkInv /\ CommitInv /\ [Next]_vars => [Signals!Next]_<<settledEvents, committed>>
  BY StepOfSignals
<1>3. WorkInv /\ CommitInv /\ [Next]_vars
        => [Signals!Next]_<<{e \in Event : Settled(e)}, committed>>
  BY <1>2 DEF settledEvents
<1> QED
  BY <1>1, <1>3, Invariant, PTL DEF Spec, KeepsPromise, Signals!Spec

-----------------------------------------------------------------------------
(***************************************************************************)
(* PageParts, for any pages, payloads, sessions and bounds.  Its state is  *)
(* PartRows', its steps are W's.                                           *)
(***************************************************************************)
W == INSTANCE PageParts

\* What a transaction may hold.
EntityKeys == UNION {W!Keys(Payload[c].entities) : c \in Content}
Transaction ==
  [step : {"idle", "upsert", "work", "next", "delete", "entities", "insert"}, save : BOOLEAN,
   page : Page \cup {Blank}, text : Content \cup {Blank}, hash : Content \cup {Blank},
   source : Bronze \cup {W!NoPage}, todo : SUBSET W!ToSet(W!Optional), done : SUBSET W!ToSet(W!Optional),
   seen : SUBSET W!Row, gone : SUBSET W!Row, new : SUBSET W!Row, names : SUBSET Nat,
   held : SUBSET [key : EntityKeys, names : W!Entity]]
TableOf(S) == W!Optional[W!First({i \in DOMAIN W!Optional : W!Optional[i] \in S})]
In(R, t, p) == {s \in R : s.table = t /\ s.page = p}
Own == {"geo", "contacts"}
Sources == {"crawled", "file"}
InTable == {"delete", "entities", "insert"}

\* Where a transaction is.
Placed(r) ==
  /\ r.step # "idle" => r.page \in Page /\ r.text \in Content
  /\ r.step \notin {"idle", "work"} => r.hash \in Content
  /\ r.step \in {"idle", "upsert", "work"} =>
       r.done = {} /\ r.new = {} /\ r.gone = {} /\ r.held = {}
  /\ r.step = "upsert" => r.save /\ r.source \in Bronze /\ r.source.page = r.page
  /\ r.step = "work" => ~r.save /\ r.todo # {}
  /\ r.step = "next" => r.done \cap r.todo = {}
  /\ r.step \in InTable => r.todo # {} /\ r.done \cap r.todo = {TableOf(r.todo)}
  /\ r.step # "delete" => r.seen = {}
  /\ r.step = "delete" => \A s \in r.seen : s.page = r.page /\ s.table = TableOf(r.todo)
  /\ r.step = "entities" => TableOf(r.todo) = "links" /\ r.names \subseteq W!Mentions(r.text)
\* What it writes is of its page and of tables that are its business.
Writes(r) ==
  \A s \in r.new \cup r.gone :
    s.page = r.page /\ (s.table \in r.done \/ (r.save /\ s.table \in Own \cup Sources))
\* The geo tags and contacts it leaves.
Leaves(r, R) ==
  r.save /\ r.step # "upsert" =>
    /\ r.source \in Bronze
    /\ \A t \in Own : In((R \ r.gone) \cup r.new, t, r.page)
                        = W!RowsOf(t, r.page, r.source.content, r.source.content)
\* A job with rows to commit has a page.
Anchored(r, P) == ~r.save /\ r.new # {} => P[r.page] # W!NoPage
\* Its lists: before, while and after a table is replaced.
Replaces(r, R, X) ==
  \A t \in r.done : <<t, r.page>> \notin X =>
    IF t \in r.todo
    THEN /\ In(R, t, r.page) \subseteq IF r.step = "delete" THEN r.seen ELSE r.gone
         /\ In(r.new, t, r.page) = {}
    ELSE /\ In(R, t, r.page) \subseteq r.gone
         /\ \E c, h \in Content : In(r.new, t, r.page) = W!RowsOf(t, r.page, c, h)
Hashes(r, O) ==
  r.page \notin O =>
    /\ \A s \in r.new : s.table = "vectors" => s.hash = s.text
    /\ r.step \notin {"idle", "work"} /\ "vectors" \in r.todo => r.hash = r.text
Keeps(r, E) == \A e \in r.held : \A n \in W!Language : E[e.key][n] # Blank => e.names[n] = E[e.key][n]

TxIs(r, P, R, E, X, O) ==
  /\ r \in Transaction /\ Placed(r) /\ Writes(r) /\ Leaves(r, R) /\ Anchored(r, P)
  /\ Replaces(r, R, X) /\ Hashes(r, O) /\ Keeps(r, E)

\* Two transactions.
Apart(r, s, X) ==
  /\ r.save /\ r.step # "upsert" /\ s.save /\ s.step # "upsert" => r.page # s.page
  /\ r.page = s.page => \A t \in r.done \cap s.done : <<t, r.page>> \in X
  /\ \A e \in r.held, f \in s.held : e.key # f.key

\* What is committed.
Stored ==
  /\ pages \in [Page -> Bronze \cup {W!NoPage}] /\ rows \subseteq W!Row
  /\ entities \in [EntityKeys -> W!Entity]
  /\ begun \in 0 .. MaxWrites /\ removals \in 0 .. MaxRemovals
  /\ raced \subseteq W!ToSet(W!Optional) \X Page /\ overtaken \subseteq Page
PartsInv ==
  /\ Stored /\ W!PartsAreWhole
  /\ tx \in [Writer -> Transaction]
  /\ \A w \in Writer : TxIs(tx[w], pages, rows, entities, raced, overtaken)
  /\ \A v, w \in Writer : v # w => Apart(tx[v], tx[w], raced)


\* The payloads and bounds are as PageParts takes them.
LEMMA Parts == W!IsParts
BY PartsAssumption DEF IsParts, IsPayload, IsList, Optional, ToSet,
   W!IsParts, W!IsPayload, W!IsList, W!Optional, W!ToSet

-----------------------------------------------------------------------------
(* Rows are rows.                                                          *)

Below == {s \in Nat \X Nat : s[1] < s[2]}
\* Below is < on the naturals, as a set of pairs.
LEMMA BelowIsLess == Below = OpToRel(<, Nat)
BY DEF Below, OpToRel

\* The least of some positions of a list is one of them and below the others.
LEMMA FirstIs ==
  ASSUME NEW I, I \subseteq Nat, I # {}
  PROVE  W!First(I) \in I /\ \A j \in I : W!First(I) <= j
<1>1. IsWellFoundedOn(Below, Nat)
  BY NatLessThanWellFounded, BelowIsLess, Zenon
<1>2. \E x \in I : \A y \in I : <<y, x>> \notin Below
  BY <1>1, WFMin
<1>3. PICK x \in I : \A y \in I : <<y, x>> \notin Below
  BY <1>2
<1>4. ASSUME NEW y \in I PROVE x <= y
  <2>1. x \in Nat /\ y \in Nat
    OBVIOUS
  <2>2. y < x => <<y, x>> \in Below
    BY <2>1 DEF Below
  <2> QED
    BY <1>3, <2>1, <2>2
<1> QED
  BY <1>4 DEF W!First

\* The greatest of some positions of a list is one of them.
LEMMA FinalIs ==
  ASSUME NEW n \in Nat, NEW I, I \subseteq 1 .. n, I # {}
  PROVE  W!Final(I) \in I
<1> DEFINE J == {n - i : i \in I}
<1>1. J \subseteq Nat /\ J # {}
  <2>1. \A i \in I : n - i \in Nat
    OBVIOUS
  <2> QED
    BY <2>1
<1>2. W!First(J) \in J /\ \A j \in J : W!First(J) <= j
  BY <1>1, FirstIs
<1>3. PICK i \in I : W!First(J) = n - i
  BY <1>2
<1>4. \A j \in I : j <= i
  <2> SUFFICES ASSUME NEW j \in I PROVE j <= i
    OBVIOUS
  <2>1. n - j \in J
    OBVIOUS
  <2>2. n - i <= n - j
    BY <1>2, <1>3, <2>1
  <2> QED
    BY <2>2
<1> QED
  BY <1>4 DEF W!Final

\* Where a list has a key: the positions, the first, the last and their number.
LEMMA ListAt ==
  ASSUME NEW s, W!IsList(s), NEW k \in W!Keys(s)
  PROVE  /\ W!At(s, k) \subseteq 1 .. Len(s) /\ W!At(s, k) # {} /\ Len(s) \in Nat
         /\ W!First(W!At(s, k)) \in W!At(s, k) /\ W!First(W!At(s, k)) \in Nat
         /\ W!Final(W!At(s, k)) \in Nat /\ W!Cardinality(W!At(s, k)) \in Nat
<1>1. Len(s) \in Nat /\ DOMAIN s = 1 .. Len(s)
  BY DEF W!IsList
<1>2. W!At(s, k) \subseteq 1 .. Len(s) /\ W!At(s, k) # {}
  BY <1>1 DEF W!At, W!Keys
<1>3. W!First(W!At(s, k)) \in W!At(s, k)
  BY <1>1, <1>2, FirstIs
<1>4. W!Final(W!At(s, k)) \in W!At(s, k)
  BY <1>1, <1>2, FinalIs
<1>5. IsFiniteSet(W!At(s, k))
  <2>1. 1 \in Int /\ Len(s) \in Int
    BY <1>1
  <2>2. IsFiniteSet(1 .. Len(s))
    BY <2>1, FS_Interval
  <2> QED
    BY <1>2, <2>2, FS_Subset
<1>6. W!Cardinality(W!At(s, k)) \in Nat
  BY <1>5, FS_CardinalityType DEF Cardinality, W!Cardinality
<1> QED
  BY <1>1, <1>2, <1>3, <1>4, <1>6

\* Rows made of a list have typed keys and values, whichever entry gives the value.
LEMMA ListTyped ==
  ASSUME NEW s, W!IsList(s), W!Keys(s) \subseteq W!Key
  PROVE  /\ \A r \in {[key |-> k, value |-> W!First(W!At(s, k))] : k \in W!Keys(s)} :
              r.key \in W!Key /\ r.value \in Nat
         /\ \A r \in {[key |-> k, value |-> W!Final(W!At(s, k))] : k \in W!Keys(s)} :
              r.key \in W!Key /\ r.value \in Nat
         /\ \A r \in {[key |-> k, value |-> W!Cardinality(W!At(s, k))] : k \in W!Keys(s)} :
              r.key \in W!Key /\ r.value \in Nat
BY ListAt

\* A text's lists are lists, and their keys are keys.
LEMMA PayloadLists ==
  ASSUME NEW c \in Content
  PROVE  \A s \in W!ListsOf(c) : W!IsList(s) /\ W!Keys(s) \subseteq W!Key
<1>1. \A s \in W!ListsOf(c) : W!IsList(s)
  BY Parts DEF W!IsParts, W!IsPayload, W!ListsOf
<1>2. \A s \in W!ListsOf(c) : W!Keys(s) \subseteq W!Key
  BY DEF W!Key
<1> QED
  BY <1>1, <1>2

Kept == {"geo", "contacts", "media", "links", "vectors"}
\* The rows a list stands for are rows of the table, page, text and hash asked for.
LEMMA RowsTyped ==
  ASSUME NEW t \in Kept, NEW p \in Page, NEW c \in Content, NEW h \in Content
  PROVE  W!RowsOf(t, p, c, h) \subseteq W!Row /\ \A s \in W!RowsOf(t, p, c, h) :
           s.table = t /\ s.page = p /\ s.text = c /\ s.hash = h
<1> DEFINE Good(S) == \A r \in S : r.key \in W!Key /\ r.value \in Nat
<1>1. /\ Payload[c].media \in W!ListsOf(c) /\ Payload[c].entities \in W!ListsOf(c)
      /\ Payload[c].chunks \in W!ListsOf(c)
      /\ Payload[c].contacts \in W!ListsOf(c) /\ Payload[c].geo \in W!ListsOf(c)
  BY DEF W!ListsOf
<1>2. W!IsList(W!GeoOf(p, c)) /\ W!Keys(W!GeoOf(p, c)) \subseteq W!Key
  <2>1. W!IsList(DomainGeo[p])
    BY Parts DEF W!IsParts
  <2>2. W!Keys(DomainGeo[p]) \subseteq W!Key
    BY DEF W!Key
  <2> QED
    BY <1>1, <2>1, <2>2, PayloadLists DEF W!GeoOf
<1>3. Good(W!GeoRows(p, c))
  BY <1>2, ListTyped DEF W!GeoRows
<1>4. Good(W!ContactRows(c))
  BY <1>1, PayloadLists, ListTyped DEF W!ContactRows
<1>5. Good(W!MediaRows(c))
  BY <1>1, PayloadLists, ListTyped DEF W!MediaRows
<1>6. Good(W!EntityRows(c))
  BY <1>1, PayloadLists, ListTyped DEF W!EntityRows
<1>7. Good(W!VectorRows(c))
  BY <1>1, PayloadLists, ListTyped DEF W!VectorRows
<1>8. Good(W!Derived(t, p, c))
  BY <1>3, <1>4, <1>5, <1>6, <1>7 DEF W!Derived, Kept
<1>9. \A s \in W!RowsOf(t, p, c, h) : \E r \in W!Derived(t, p, c) :
        s = [table |-> t, page |-> p, key |-> r.key, value |-> r.value, text |-> c, hash |-> h]
  BY DEF W!RowsOf
<1>10. \A s \in W!RowsOf(t, p, c, h) : s \in W!RowIn({t})
  BY <1>8, <1>9 DEF W!RowIn
<1>11. W!RowIn({t}) \subseteq W!Row
  BY DEF W!RowIn, W!Row, W!PlaceOrContact, W!PageMedia, W!PageEntity, W!PageEmbedding, Kept
<1> QED
  BY <1>9, <1>10, <1>11

\* The row that records a source is a row, of the source's page.
LEMMA SourceTyped ==
  ASSUME NEW b \in Bronze
  PROVE  /\ W!SourceRow(b) \in W!Row /\ W!SourceRow(b).page = b.page /\ W!SourceRow(b).table \in Sources
         /\ b.page \in Page /\ b.content \in Content /\ b # W!NoPage
<1>1. b \in [table : {"crawled", "file"}, id : Nat, page : Page, content : Content]
  BY Parts DEF W!IsParts
<1>2. Blank \in W!Key
  BY DEF W!Key
<1>3. b.table \in {"crawled", "file"} /\ b.id \in Nat /\ b.page \in Page /\ b.content \in Content
  BY <1>1
<1>4. W!SourceRow(b) \in W!RowIn({"crawled", "file"})
  BY <1>2, <1>3 DEF W!SourceRow, W!RowIn
<1>5. b # W!NoPage
  BY <1>3 DEF W!NoPage
<1> QED
  BY <1>3, <1>4, <1>5 DEF W!Row, W!PageSource, W!SourceRow, Sources

\* The table a transaction is at is one it has to write.
LEMMA NextTable ==
  ASSUME NEW S, S \subseteq W!ToSet(W!Optional), S # {}
  PROVE  TableOf(S) \in S
<1> DEFINE I == {i \in DOMAIN W!Optional : W!Optional[i] \in S}
<1>1. DOMAIN W!Optional = 1 .. 3 /\ W!ToSet(W!Optional) = {"media", "links", "vectors"}
  BY DEF W!Optional, W!ToSet
<1>2. I \subseteq Nat /\ I # {}
  BY <1>1 DEF W!Optional, W!ToSet
<1>3. W!First(I) \in I
  BY <1>2, FirstIs
<1> QED
  BY <1>3 DEF TableOf

-----------------------------------------------------------------------------
(* The invariant of a step that commits nothing.                           *)

\* A transaction that has not begun is as it should be, and apart from all others.
LEMMA IdleIs ==
  ASSUME NEW P, NEW R, NEW E, NEW X, NEW O
  PROVE  TxIs(W!Idle, P, R, E, X, O) /\ \A s : Apart(W!Idle, s, X) /\ Apart(s, W!Idle, X)
<1>1. W!Idle \in Transaction
  BY DEF W!Idle, Transaction
<1>2. /\ Placed(W!Idle) /\ Writes(W!Idle) /\ Leaves(W!Idle, R) /\ Anchored(W!Idle, P)
      /\ Replaces(W!Idle, R, X) /\ Hashes(W!Idle, O) /\ Keeps(W!Idle, E)
  BY DEF W!Idle, Placed, Writes, Leaves, Anchored, Replaces, Hashes, Keeps, InTable
<1>3. \A s : Apart(W!Idle, s, X) /\ Apart(s, W!Idle, X)
  BY DEF W!Idle, Apart
<1> QED
  BY <1>1, <1>2, <1>3 DEF TxIs

\* Being apart is symmetric.
LEMMA ApartBoth == ASSUME NEW r, NEW s, NEW X, Apart(r, s, X) PROVE Apart(s, r, X)
BY DEF Apart

\* The histories of races and overtaken pages only grow, which asks less.
LEMMA Weaker ==
  ASSUME NEW r, NEW s, NEW P, NEW R, NEW E, NEW X, NEW O, NEW Y, NEW Q, X \subseteq Y, O \subseteq Q
  PROVE  /\ TxIs(r, P, R, E, X, O) => TxIs(r, P, R, E, Y, Q)
         /\ Apart(r, s, X) => Apart(r, s, Y)
<1>1. Replaces(r, R, X) => Replaces(r, R, Y)
  BY DEF Replaces
<1>2. Hashes(r, O) => Hashes(r, Q)
  BY DEF Hashes
<1>3. Apart(r, s, X) => Apart(r, s, Y)
  BY DEF Apart
<1> QED
  BY <1>1, <1>2, <1>3 DEF TxIs

\* A step of one transaction that commits nothing keeps the invariant if the
\* transaction it leaves is as it should be and apart from the others.
LEMMA OneTx ==
  ASSUME PartsInv, NEW w \in Writer, NEW r, tx' = [tx EXCEPT ![w] = r],
         UNCHANGED <<pages, rows, entities>>, Stored', raced \subseteq raced', overtaken \subseteq overtaken',
         TxIs(r, pages, rows, entities, raced', overtaken'),
         \A v \in Writer \ {w} : Apart(tx[v], r, raced')
  PROVE  PartsInv'
<1>1. r \in Transaction
  BY DEF TxIs
<1>2. tx' \in [Writer -> Transaction] /\ tx'[w] = r /\ \A v \in Writer \ {w} : tx'[v] = tx[v]
  BY <1>1 DEF PartsInv
<1>3. W!PartsAreWhole'
  <2>1. W!OwnPartsMatch'
    BY DEF PartsInv, W!PartsAreWhole, W!OwnPartsMatch, W!Live, W!Committed, W!RowsOf
  <2>2. W!OneWritersList'
    BY DEF PartsInv, W!PartsAreWhole, W!OneWritersList, W!Live, W!Committed, W!RowsOf
  <2>3. W!VectorsTellTheirText'
    BY DEF PartsInv, W!PartsAreWhole, W!VectorsTellTheirText
  <2>4. W!NoOrphans'
    BY DEF PartsInv, W!PartsAreWhole, W!NoOrphans, W!Live
  <2> QED
    BY <2>1, <2>2, <2>3, <2>4 DEF W!PartsAreWhole
<1>4. ASSUME NEW v \in Writer PROVE TxIs(tx'[v], pages', rows', entities', raced', overtaken')
  <2>1. CASE v = w
    BY <1>2, <2>1
  <2>2. CASE v # w
    <3>1. TxIs(tx[v], pages, rows, entities, raced, overtaken)
      BY DEF PartsInv
    <3>2. TxIs(tx[v], pages, rows, entities, raced', overtaken')
      BY <3>1, Weaker
    <3> QED
      BY <1>2, <2>2, <3>2
  <2> QED
    BY <2>1, <2>2
<1>5. ASSUME NEW u \in Writer, NEW v \in Writer, u # v PROVE Apart(tx'[u], tx'[v], raced')
  <2>1. CASE u = w
    BY <1>2, <1>5, <2>1, ApartBoth
  <2>2. CASE v = w
    BY <1>2, <1>5, <2>2
  <2>3. CASE u # w /\ v # w
    <3>1. Apart(tx[u], tx[v], raced)
      BY <1>5 DEF PartsInv
    <3> QED
      BY <1>2, <2>3, <3>1, Weaker
  <2> QED
    BY <2>1, <2>2, <2>3
<1> QED
  BY <1>2, <1>3, <1>4, <1>5 DEF PartsInv

\* The invariant holds of an empty database.
LEMMA InvInit == W!Init => PartsInv
<1> SUFFICES ASSUME W!Init PROVE PartsInv
  OBVIOUS
<1>1. W!NoNames \in W!Entity
  BY DEF W!NoNames, W!Entity, W!Name
<1>2. Stored
  <2>1. 0 \in 0 .. MaxWrites /\ 0 \in 0 .. MaxRemovals
    BY Parts DEF W!IsParts
  <2> QED
    BY <1>1, <2>1 DEF W!Init, Stored, EntityKeys
<1>3. W!PartsAreWhole
  BY DEF W!Init, W!PartsAreWhole, W!OwnPartsMatch, W!OneWritersList, W!VectorsTellTheirText,
                W!NoOrphans,
         W!Live, W!Committed
<1>4. \A w \in Writer : tx[w] = W!Idle
  BY DEF W!Init
<1>5. tx \in [Writer -> Transaction]
  BY IdleIs DEF W!Init, TxIs
<1>6. \A w \in Writer : TxIs(tx[w], pages, rows, entities, raced, overtaken)
  BY <1>4, IdleIs
<1>7. \A v, w \in Writer : v # w => Apart(tx[v], tx[w], raced)
  BY <1>4, IdleIs
<1> QED
  BY <1>2, <1>3, <1>5, <1>6, <1>7 DEF PartsInv

\* A rollback leaves what is committed.
LEMMA AbortStep == ASSUME PartsInv, NEW w \in Writer, W!Abort(w) PROVE PartsInv'
<1>1. /\ tx' = [tx EXCEPT ![w] = W!Idle]
      /\ UNCHANGED <<pages, rows, entities, begun, removals, raced, overtaken>>
  BY DEF W!Abort
<1>2. Stored'
  BY <1>1 DEF PartsInv, Stored
<1> QED
  BY <1>1, <1>2, IdleIs, OneTx

\* What is known of the transaction that acts.
LEMMA Known ==
  ASSUME PartsInv, NEW w \in Writer
  PROVE  /\ tx[w] \in Transaction /\ TxIs(tx[w], pages, rows, entities, raced, overtaken)
         /\ Placed(tx[w]) /\ Writes(tx[w]) /\ Leaves(tx[w], rows) /\ Anchored(tx[w], pages)
         /\ Replaces(tx[w], rows, raced) /\ Hashes(tx[w], overtaken) /\ Keeps(tx[w], entities)
         /\ W!Table(w) = TableOf(tx[w].todo)
BY DEF PartsInv, TxIs, W!Table, TableOf

\* The DELETE that starts sees every committed row of its table and page; a second
\* transaction at the same table makes the pair a race.
LEMMA LookStep == ASSUME PartsInv, NEW w \in Writer, W!Look(w) PROVE PartsInv'
<1> DEFINE q == tx[w]
           t == TableOf(q.todo)
           r == [q EXCEPT !.step = "delete", !.seen = In(rows, t, q.page), !.done = q.done \cup {t}]
<1>0. q \in Transaction /\ q.step = "next" /\ q.todo # {}
  BY Known DEF W!Look, W!Step
<1>1. /\ tx' = [tx EXCEPT ![w] = r] /\ UNCHANGED <<pages, rows, entities, begun, removals, overtaken>>
      /\ raced' = IF \E v \in W!Others(w) : tx[v].page = q.page /\ t \in tx[v].done
                  THEN raced \cup {<<t, q.page>>} ELSE raced
  BY Known DEF W!Look, W!Mine, In
<1>2. t \in q.todo /\ t \in W!ToSet(W!Optional)
  BY <1>0, NextTable DEF Transaction
<1>3. In(rows, t, q.page) \subseteq W!Row
  BY DEF In, PartsInv, Stored
<1>4. /\ r \in Transaction /\ r.step = "delete" /\ r.seen = In(rows, t, q.page) /\ r.done = q.done \cup {t}
      /\ r.save = q.save /\ r.page = q.page /\ r.text = q.text /\ r.hash = q.hash /\ r.source = q.source
      /\ r.todo = q.todo /\ r.gone = q.gone /\ r.new = q.new /\ r.held = q.held /\ r.names = q.names
  BY <1>0, <1>2, <1>3 DEF Transaction
<1> HIDE DEF r
<1>5. q.page \in Page
  BY <1>0, Known DEF Placed
<1>6. raced \subseteq raced' /\ raced' \subseteq W!ToSet(W!Optional) \X Page
  BY <1>1, <1>2, <1>5 DEF PartsInv, Stored
<1>7. Stored'
  BY <1>1, <1>6 DEF PartsInv, Stored
<1>8. Placed(r)
  BY <1>0, <1>2, <1>4, Known DEF Placed, InTable, In
<1>9. Writes(r) /\ Leaves(r, rows) /\ Anchored(r, pages) /\ Hashes(r, overtaken) /\ Keeps(r, entities)
  <2>1. Writes(r)
    BY <1>0, <1>4, Known DEF Writes
  <2>2. Leaves(r, rows)
    BY <1>0, <1>4, Known DEF Leaves
  <2>3. Anchored(r, pages) /\ Hashes(r, overtaken) /\ Keeps(r, entities)
    BY <1>0, <1>4, Known DEF Anchored, Hashes, Keeps
  <2> QED
    BY <2>1, <2>2, <2>3
<1>10. Replaces(r, rows, raced')
  <2> SUFFICES ASSUME NEW u \in r.done, <<u, r.page>> \notin raced'
               PROVE  IF u \in r.todo
                      THEN /\ In(rows, u, r.page) \subseteq IF r.step = "delete" THEN r.seen ELSE r.gone
                           /\ In(r.new, u, r.page) = {}
                      ELSE /\ In(rows, u, r.page) \subseteq r.gone
                           /\ \E c, h \in Content : In(r.new, u, r.page) = W!RowsOf(u, r.page, c, h)
    BY DEF Replaces
  <2>1. CASE u = t
    <3>1. In(r.new, u, r.page) = {}
      BY <1>0, <1>2, <1>4, <2>1, Known DEF Placed, Writes, In, Own, Sources, W!Optional, W!ToSet
    <3> QED
      BY <1>2, <1>4, <2>1, <3>1
  <2>2. CASE u # t
    <3>1. u \in q.done /\ u \notin q.todo
      BY <1>0, <1>4, <2>2, Known DEF Placed
    <3> QED
      BY <1>0, <1>4, <1>6, <3>1, Known DEF Replaces
  <2> QED
    BY <2>1, <2>2
<1>11. TxIs(r, pages, rows, entities, raced', overtaken')
  BY <1>1, <1>4, <1>8, <1>9, <1>10 DEF TxIs
<1>12. ASSUME NEW v \in Writer \ {w} PROVE Apart(tx[v], r, raced')
  <2>1. Apart(tx[v], q, raced)
    BY DEF PartsInv
  <2>2. tx[v].page = q.page /\ t \in tx[v].done => <<t, q.page>> \in raced'
    BY <1>1 DEF W!Others
  <2> QED
    BY <1>0, <1>4, <1>6, <2>1, <2>2 DEF Apart
<1> QED
  BY <1>1, <1>6, <1>7, <1>11, <1>12, OneTx

\* A save begins.
LEMMA BeginSaveStep ==
  ASSUME PartsInv, NEW w \in Writer, NEW b \in Bronze, NEW blocks \in Blocks, W!BeginSave(w, b, blocks)
  PROVE  PartsInv'
<1> DEFINE r == [W!Idle EXCEPT !.step = "upsert", !.save = TRUE, !.page = b.page, !.text = b.content,
                             !.hash = b.content, !.source = b, !.todo = blocks]
<1>1. tx' = [tx EXCEPT ![w] = r] /\ UNCHANGED <<pages, rows, entities, removals, raced, overtaken>>
  BY DEF W!BeginSave
<1>2. Stored'
  <2>1. begun \in 0 .. MaxWrites /\ begun < MaxWrites /\ begun' = begun + 1 /\ MaxWrites \in Nat
    BY Parts DEF W!BeginSave, PartsInv, Stored, W!IsParts
  <2>2. begun' \in 0 .. MaxWrites
    BY <2>1
  <2> QED
    BY <1>1, <2>2 DEF PartsInv, Stored
<1>3. b.page \in Page /\ b.content \in Content /\ blocks \subseteq W!ToSet(W!Optional)
  BY SourceTyped, Parts DEF W!IsParts
<1> DEFINE y == [W!Idle EXCEPT !.step = "upsert", !.save = TRUE, !.page = b.page]
           z == [y EXCEPT !.text = b.content, !.hash = b.content]
<1>a. /\ y \in Transaction /\ y.step = "upsert" /\ y.save /\ y.page = b.page
      /\ y.done = {} /\ y.seen = {} /\ y.gone = {} /\ y.new = {} /\ y.names = {} /\ y.held = {}
  BY <1>3, IdleIs DEF TxIs, Transaction, W!Idle
<1> HIDE DEF y
<1>b. /\ z \in Transaction /\ z.step = "upsert" /\ z.save /\ z.page = b.page
      /\ z.text = b.content /\ z.hash = b.content
      /\ z.done = {} /\ z.seen = {} /\ z.gone = {} /\ z.new = {} /\ z.names = {} /\ z.held = {}
  BY <1>3, <1>a DEF Transaction
<1>c. r = [z EXCEPT !.source = b, !.todo = blocks]
  BY DEF y
<1> HIDE DEF z, r
<1>4. /\ r \in Transaction /\ r.step = "upsert" /\ r.save /\ r.page = b.page
      /\ r.text = b.content /\ r.hash = b.content /\ r.source = b /\ r.todo = blocks
      /\ r.done = {} /\ r.seen = {} /\ r.gone = {} /\ r.new = {} /\ r.names = {} /\ r.held = {}
  BY <1>3, <1>b, <1>c DEF Transaction
<1>6. TxIs(r, pages, rows, entities, raced, overtaken)
  <2>1. Placed(r) /\ Writes(r) /\ Leaves(r, rows) /\ Anchored(r, pages)
    BY <1>3, <1>4 DEF Placed, Writes, Leaves, Anchored, InTable
  <2>2. Replaces(r, rows, raced) /\ Hashes(r, overtaken) /\ Keeps(r, entities)
    BY <1>3, <1>4 DEF Replaces, Hashes, Keeps
  <2> QED
    BY <1>4, <2>1, <2>2 DEF TxIs
<1>7. \A v \in Writer \ {w} : Apart(tx[v], r, raced)
  BY <1>4 DEF Apart
<1> QED
  BY <1>1, <1>2, <1>6, <1>7, OneTx

\* A job reads a page and its text.
LEMMA ReadPageStep ==
  ASSUME PartsInv, NEW w \in Writer, NEW t \in W!ToSet(W!Optional), NEW p \in Page, W!ReadPage(w, t, p)
  PROVE  PartsInv'
<1> DEFINE r == [W!Idle EXCEPT !.step = "work", !.page = p, !.text = pages[p].content, !.todo = {t}]
<1>1. tx' = [tx EXCEPT ![w] = r] /\ UNCHANGED <<pages, rows, entities, removals, raced, overtaken>>
  BY DEF W!ReadPage
<1>2. Stored'
  <2>1. begun \in 0 .. MaxWrites /\ begun < MaxWrites /\ begun' = begun + 1 /\ MaxWrites \in Nat
    BY Parts DEF W!ReadPage, PartsInv, Stored, W!IsParts
  <2>2. begun' \in 0 .. MaxWrites
    BY <2>1
  <2> QED
    BY <1>1, <2>2 DEF PartsInv, Stored
<1>3. pages[p].content \in Content
  <2>1. pages[p] \in Bronze
    BY DEF W!ReadPage, W!Live, PartsInv, Stored
  <2> QED
    BY <2>1, SourceTyped
<1> DEFINE y == [W!Idle EXCEPT !.step = "work", !.page = p]
<1>a. /\ y \in Transaction /\ y.step = "work" /\ ~y.save /\ y.page = p
      /\ y.done = {} /\ y.seen = {} /\ y.gone = {} /\ y.new = {} /\ y.names = {} /\ y.held = {}
  BY <1>3, IdleIs DEF TxIs, Transaction, W!Idle
<1>b. r = [y EXCEPT !.text = pages[p].content, !.todo = {t}]
  OBVIOUS
<1> HIDE DEF y, r
<1>4. /\ r \in Transaction /\ r.step = "work" /\ ~r.save /\ r.page = p
      /\ r.text = pages[p].content /\ r.todo = {t}
      /\ r.done = {} /\ r.seen = {} /\ r.gone = {} /\ r.new = {} /\ r.names = {} /\ r.held = {}
  BY <1>3, <1>a, <1>b DEF Transaction
<1>6. TxIs(r, pages, rows, entities, raced, overtaken)
  <2>1. Placed(r) /\ Writes(r) /\ Leaves(r, rows) /\ Anchored(r, pages)
    BY <1>3, <1>4 DEF Placed, Writes, Leaves, Anchored, InTable
  <2>2. Replaces(r, rows, raced) /\ Hashes(r, overtaken) /\ Keeps(r, entities)
    BY <1>3, <1>4 DEF Replaces, Hashes, Keeps
  <2> QED
    BY <1>4, <2>1, <2>2 DEF TxIs
<1>7. \A v \in Writer \ {w} : Apart(tx[v], r, raced)
  BY <1>4 DEF Apart
<1> QED
  BY <1>1, <1>2, <1>6, <1>7, OneTx

\* A job begins to write: a vector's hash is its text's, or the page was overtaken.
LEMMA BeginReplaceStep == ASSUME PartsInv, NEW w \in Writer, W!BeginReplace(w) PROVE PartsInv'
<1> DEFINE q == tx[w]
           t == TableOf(q.todo)
           h == IF t = "vectors" THEN pages[q.page].content ELSE q.text
           r == [q EXCEPT !.step = "next", !.hash = h]
<1>0. q \in Transaction /\ q.step = "work" /\ q.page \in W!Live
  BY Known DEF W!BeginReplace, W!Step
<1>1. /\ tx' = [tx EXCEPT ![w] = r] /\ UNCHANGED <<pages, rows, entities, begun, removals, raced>>
      /\ overtaken' = IF t = "vectors" /\ pages[q.page].content # q.text
                      THEN overtaken \cup {q.page} ELSE overtaken
  BY Known DEF W!BeginReplace
<1>2. q.page \in Page /\ q.text \in Content /\ pages[q.page].content \in Content /\ h \in Content
  <2>1. q.page \in Page /\ q.text \in Content
    BY <1>0, Known DEF Placed
  <2>2. pages[q.page] \in Bronze
    BY <1>0, <2>1 DEF W!Live, PartsInv, Stored
  <2> QED
    BY <2>1, <2>2, SourceTyped
<1>3. /\ r \in Transaction /\ r.step = "next" /\ r.hash = h
      /\ r.save = q.save /\ r.page = q.page /\ r.text = q.text /\ r.source = q.source /\ r.done = q.done
      /\ r.todo = q.todo /\ r.gone = q.gone /\ r.new = q.new /\ r.held = q.held /\ r.names = q.names
      /\ r.seen = q.seen
  BY <1>0, <1>2 DEF Transaction
<1> HIDE DEF r
<1>4. overtaken \subseteq overtaken' /\ overtaken' \subseteq Page
  BY <1>1, <1>2 DEF PartsInv, Stored
<1>5. Stored'
  BY <1>1, <1>4 DEF PartsInv, Stored
<1>6. ~q.save /\ q.done = {} /\ q.new = {} /\ q.gone = {} /\ q.held = {} /\ q.seen = {}
  BY <1>0, Known DEF Placed
<1>7. /\ Placed(r) /\ Writes(r) /\ Leaves(r, rows) /\ Anchored(r, pages)
      /\ Replaces(r, rows, raced) /\ Keeps(r, entities)
  BY <1>2, <1>3, <1>6 DEF Placed, Writes, Leaves, Anchored, Replaces, Keeps, InTable
<1>8. Hashes(r, overtaken')
  <2>1. ASSUME q.page \notin overtaken', "vectors" \in q.todo PROVE h = q.text
    BY <1>1, <2>1
  <2> QED
    BY <1>3, <1>6, <2>1 DEF Hashes
<1>9. TxIs(r, pages, rows, entities, raced, overtaken')
  BY <1>3, <1>7, <1>8 DEF TxIs
<1>10. \A v \in Writer \ {w} : Apart(tx[v], r, raced)
  BY <1>3, <1>6 DEF Apart
<1> QED
  BY <1>1, <1>4, <1>5, <1>9, <1>10, OneTx

\* The DELETE ends: what it saw and is still there goes with the commit.
LEMMA DeleteStep == ASSUME PartsInv, NEW w \in Writer, W!Delete(w) PROVE PartsInv'
<1> DEFINE q == tx[w]
           t == TableOf(q.todo)
           n == IF t = "links" THEN W!Mentions(q.text) ELSE {}
           r == [q EXCEPT !.step = IF t = "links" THEN "entities" ELSE "insert",
                          !.seen = {}, !.gone = q.gone \cup q.seen, !.names = n]
<1>0. q \in Transaction /\ q.step = "delete"
  BY Known DEF W!Delete, W!Step
<1>1. tx' = [tx EXCEPT ![w] = r] /\ UNCHANGED <<pages, rows, entities, begun, removals, raced, overtaken>>
  BY Known DEF W!Delete
<1>2. q.todo # {} /\ q.done \cap q.todo = {t} /\ q.text \in Content /\ q.page \in Page /\ q.hash \in Content
  BY <1>0, Known DEF Placed, InTable
<1>3. n \subseteq Nat
  <2>1. Payload[q.text].entities \in W!ListsOf(q.text)
    BY DEF W!ListsOf
  <2> QED
    BY <1>2, <2>1, PayloadLists, ListAt DEF W!Mentions
<1>4. /\ r \in Transaction /\ r.step = (IF t = "links" THEN "entities" ELSE "insert")
      /\ r.seen = {} /\ r.gone = q.gone \cup q.seen /\ r.names = n
      /\ r.save = q.save /\ r.page = q.page /\ r.text = q.text /\ r.source = q.source /\ r.done = q.done
      /\ r.todo = q.todo /\ r.hash = q.hash /\ r.new = q.new /\ r.held = q.held
  BY <1>0, <1>3 DEF Transaction
<1> HIDE DEF r
<1>5. Stored'
  BY <1>1 DEF PartsInv, Stored
<1>6. \A s \in q.seen : s.page = q.page /\ s.table = t
  BY <1>0, Known DEF Placed
<1>7. Placed(r)
  BY <1>0, <1>2, <1>4 DEF Placed, InTable
<1>8. Writes(r)
  <2>1. t \in q.done
    BY <1>2
  <2> QED
    BY <1>4, <1>6, <2>1, Known DEF Writes
<1>9. Leaves(r, rows)
  <2>1. t \in W!ToSet(W!Optional) /\ t \notin Own
    BY <1>0, <1>2, NextTable DEF Transaction, W!Optional, W!ToSet, Own
  <2>2. \A u \in Own : In((rows \ r.gone) \cup r.new, u, r.page) = In((rows \ q.gone) \cup q.new, u, q.page)
    BY <1>4, <1>6, <2>1 DEF In
  <2> QED
    BY <1>0, <1>4, <2>2, Known DEF Leaves
<1>10. Anchored(r, pages) /\ Hashes(r, overtaken) /\ Keeps(r, entities)
  BY <1>0, <1>4, Known DEF Anchored, Hashes, Keeps
<1>11. Replaces(r, rows, raced)
  <2> SUFFICES ASSUME NEW u \in r.done, <<u, r.page>> \notin raced
               PROVE  IF u \in r.todo
                      THEN /\ In(rows, u, r.page) \subseteq IF r.step = "delete" THEN r.seen ELSE r.gone
                           /\ In(r.new, u, r.page) = {}
                      ELSE /\ In(rows, u, r.page) \subseteq r.gone
                           /\ \E c, h \in Content : In(r.new, u, r.page) = W!RowsOf(u, r.page, c, h)
    BY DEF Replaces
  <2>1. CASE u \in q.todo
    <3>1. In(rows, u, q.page) \subseteq q.seen /\ In(q.new, u, q.page) = {}
      BY <1>0, <1>4, <2>1, Known DEF Replaces
    <3>2. In(rows, u, q.page) \subseteq r.gone
      BY <1>4, <3>1 DEF In
    <3> QED
      BY <1>4, <2>1, <3>1, <3>2
  <2>2. CASE u \notin q.todo
    <3>1. /\ In(rows, u, q.page) \subseteq q.gone
          /\ \E c, h \in Content : In(q.new, u, q.page) = W!RowsOf(u, q.page, c, h)
      BY <1>0, <1>4, <2>2, Known DEF Replaces
    <3> QED
      BY <1>4, <2>2, <3>1
  <2> QED
    BY <2>1, <2>2
<1>12. TxIs(r, pages, rows, entities, raced, overtaken)
  BY <1>4, <1>7, <1>8, <1>9, <1>10, <1>11 DEF TxIs
<1>13. ASSUME NEW v \in Writer \ {w} PROVE Apart(tx[v], r, raced)
  <2>1. Apart(tx[v], q, raced)
    BY DEF PartsInv
  <2> QED
    BY <1>0, <1>4, <2>1 DEF Apart
<1> QED
  BY <1>1, <1>5, <1>12, <1>13, OneTx

\* The INSERT ends: the list is whole, the table done.
LEMMA InsertStep == ASSUME PartsInv, NEW w \in Writer, W!Insert(w) PROVE PartsInv'
<1> DEFINE q == tx[w]
           t == TableOf(q.todo)
           I == W!RowsOf(t, q.page, q.text, q.hash)
           r == [q EXCEPT !.step = "next", !.todo = q.todo \ {t}, !.new = q.new \cup I]
<1>0. q \in Transaction /\ q.step \in {"insert", "entities"} /\ (~q.save /\ q.page \notin W!Live => I = {})
  BY Known DEF W!Insert, W!Inserting, W!Taken, W!ToInsert, W!Step
<1>1. tx' = [tx EXCEPT ![w] = r] /\ UNCHANGED <<pages, rows, entities, begun, removals, raced, overtaken>>
  BY Known DEF W!Insert, W!ToInsert
<1>2. q.todo # {} /\ q.done \cap q.todo = {t} /\ q.text \in Content /\ q.page \in Page /\ q.hash \in Content
  BY <1>0, Known DEF Placed, InTable
<1>3. t \in Kept /\ t \notin Own
  BY <1>0, <1>2, NextTable DEF Transaction, W!Optional, W!ToSet, Own, Kept
<1>4. I \subseteq W!Row /\ \A s \in I : s.table = t /\ s.page = q.page /\ s.text = q.text /\ s.hash = q.hash
  BY <1>2, <1>3, RowsTyped
<1> HIDE DEF I
<1>5. /\ r \in Transaction /\ r.step = "next" /\ r.todo = q.todo \ {t} /\ r.new = q.new \cup I
      /\ r.save = q.save /\ r.page = q.page /\ r.text = q.text /\ r.source = q.source /\ r.done = q.done
      /\ r.seen = q.seen /\ r.hash = q.hash /\ r.gone = q.gone /\ r.held = q.held /\ r.names = q.names
  BY <1>0, <1>4 DEF Transaction
<1> HIDE DEF r
<1>6. Stored'
  BY <1>1 DEF PartsInv, Stored
<1>7. Placed(r)
  BY <1>0, <1>2, <1>5, Known DEF Placed, InTable
<1>8. Writes(r)
  BY <1>2, <1>4, <1>5, Known DEF Writes
<1>9. Leaves(r, rows)
  <2>1. \A u \in Own : In((rows \ r.gone) \cup r.new, u, r.page) = In((rows \ q.gone) \cup q.new, u, q.page)
    BY <1>3, <1>4, <1>5 DEF In
  <2> QED
    BY <1>0, <1>5, <2>1, Known DEF Leaves
<1>10. Anchored(r, pages)
  BY <1>0, <1>2, <1>5, Known DEF Anchored, W!Live
<1>11. Hashes(r, overtaken)
  <2> SUFFICES ASSUME q.page \notin overtaken
               PROVE  /\ \A s \in r.new : s.table = "vectors" => s.hash = s.text
                      /\ "vectors" \in r.todo => r.hash = r.text
    BY <1>5 DEF Hashes
  <2>1. /\ \A s \in q.new : s.table = "vectors" => s.hash = s.text
        /\ "vectors" \in q.todo => q.hash = q.text
    BY <1>0, Known DEF Hashes
  <2>2. t \in q.todo
    BY <1>2
  <2> QED
    BY <1>4, <1>5, <2>1, <2>2
<1>12. Keeps(r, entities)
  BY <1>5, Known DEF Keeps
<1>13. Replaces(r, rows, raced)
  <2> SUFFICES ASSUME NEW u \in r.done, <<u, r.page>> \notin raced
               PROVE  /\ u \notin r.todo /\ In(rows, u, r.page) \subseteq r.gone
                      /\ \E c, h \in Content : In(r.new, u, r.page) = W!RowsOf(u, r.page, c, h)
    BY DEF Replaces
  <2>0. u \notin r.todo
    BY <1>2, <1>5
  <2>1. CASE u = t
    <3>1. In(rows, u, q.page) \subseteq q.gone /\ In(q.new, u, q.page) = {}
      BY <1>0, <1>2, <1>5, <2>1, Known DEF Replaces
    <3>2. In(r.new, u, r.page) = I
      BY <1>4, <1>5, <2>1, <3>1 DEF In
    <3> QED
      BY <1>2, <1>5, <2>0, <2>1, <3>1, <3>2 DEF I
  <2>2. CASE u # t
    <3>1. /\ In(rows, u, q.page) \subseteq q.gone
          /\ \E c, h \in Content : In(q.new, u, q.page) = W!RowsOf(u, q.page, c, h)
      BY <1>2, <1>5, <2>2, Known DEF Replaces
    <3>2. In(r.new, u, r.page) = In(q.new, u, q.page)
      BY <1>4, <1>5, <2>2 DEF In
    <3> QED
      BY <1>5, <2>0, <3>1, <3>2
  <2> QED
    BY <2>1, <2>2
<1>14. TxIs(r, pages, rows, entities, raced, overtaken)
  BY <1>5, <1>7, <1>8, <1>9, <1>10, <1>11, <1>12, <1>13 DEF TxIs
<1>15. ASSUME NEW v \in Writer \ {w} PROVE Apart(tx[v], r, raced)
  <2>1. Apart(tx[v], q, raced)
    BY DEF PartsInv
  <2> QED
    BY <1>0, <1>5, <2>1 DEF Apart
<1> QED
  BY <1>1, <1>6, <1>14, <1>15, OneTx

\* An entity is upserted and held: its names are those committed, or new ones.
LEMMA UpsertEntityStep == ASSUME PartsInv, NEW w \in Writer, W!UpsertEntity(w) PROVE PartsInv'
<1> DEFINE q == tx[w]
           m == W!First(q.names)
           k == Payload[q.text].entities[m].key
           e == W!Coalesced(k, W!NamesOf(q.text, m))
           r == [q EXCEPT !.names = q.names \ {m}, !.held = q.held \cup {e}]
<1>0. /\ q \in Transaction /\ q.step = "entities" /\ q.names # {}
      /\ \A v \in Writer \ {w} : k \notin W!Held(v)
  BY Known DEF W!UpsertEntity, W!Step, W!EntityKey, W!Mention, W!Others
<1>1. tx' = [tx EXCEPT ![w] = r] /\ UNCHANGED <<pages, rows, entities, begun, removals, raced, overtaken>>
  BY DEF W!UpsertEntity, W!EntityKey, W!Mention
<1>2. q.text \in Content /\ q.names \subseteq W!Mentions(q.text) /\ q.names \subseteq Nat
  BY <1>0, Known DEF Placed, Transaction
<1>3. m \in q.names
  BY <1>0, <1>2, FirstIs
<1>4. k \in EntityKeys /\ m \in DOMAIN Payload[q.text].entities
  <2> DEFINE s == Payload[q.text].entities
  <2>1. W!IsList(s)
    BY <1>2, PayloadLists DEF W!ListsOf
  <2>2. PICK j \in W!Keys(s) : m = W!First(W!At(s, j))
    BY <1>2, <1>3 DEF W!Mentions
  <2>3. m \in W!At(s, j)
    BY <2>1, <2>2, ListAt
  <2> QED
    BY <1>2, <2>2, <2>3 DEF W!At, EntityKeys
<1>5. e.key = k /\ e \in [key : EntityKeys, names : W!Entity]
  <2>1. \A n \in W!Language : W!NamesOf(q.text, m)[n] \in W!Name
    BY <1>2, <1>4 DEF W!Name
  <2>2. entities[k] \in [W!Language -> W!Name]
    BY <1>4 DEF PartsInv, Stored, W!Entity
  <2>3. [n \in W!Language |-> IF entities[k][n] # Blank THEN entities[k][n] ELSE W!NamesOf(q.text, m)[n]]
          \in W!Entity
    BY <2>1, <2>2 DEF W!Entity
  <2> QED
    BY <1>4, <2>3 DEF W!Coalesced
<1>6. \A n \in W!Language : entities[e.key][n] # Blank => e.names[n] = entities[e.key][n]
  BY <1>5 DEF W!Coalesced
<1> HIDE DEF e, k, m
<1>7. /\ r \in Transaction /\ r.names = q.names \ {m} /\ r.held = q.held \cup {e}
      /\ r.step = q.step /\ r.save = q.save /\ r.page = q.page /\ r.text = q.text /\ r.source = q.source
      /\ r.done = q.done /\ r.todo = q.todo /\ r.hash = q.hash /\ r.new = q.new /\ r.gone = q.gone
      /\ r.seen = q.seen
  BY <1>0, <1>2, <1>5 DEF Transaction
<1> HIDE DEF r
<1>8. Stored'
  BY <1>1 DEF PartsInv, Stored
<1>9. Placed(r)
  BY <1>0, <1>7, Known DEF Placed, InTable
<1>10. Writes(r) /\ Leaves(r, rows) /\ Anchored(r, pages) /\ Hashes(r, overtaken)
  <2>1. Writes(r)
    BY <1>7, Known DEF Writes
  <2>2. Leaves(r, rows)
    BY <1>7, Known DEF Leaves
  <2>3. Anchored(r, pages)
    BY <1>7, Known DEF Anchored
  <2>4. Hashes(r, overtaken)
    BY <1>7, Known DEF Hashes
  <2> QED
    BY <2>1, <2>2, <2>3, <2>4
<1>11. Replaces(r, rows, raced)
  BY <1>7, Known DEF Replaces
<1>12. Keeps(r, entities)
  BY <1>6, <1>7, Known DEF Keeps
<1>13. TxIs(r, pages, rows, entities, raced, overtaken)
  BY <1>7, <1>9, <1>10, <1>11, <1>12 DEF TxIs
<1>14. ASSUME NEW v \in Writer \ {w} PROVE Apart(tx[v], r, raced)
  <2>1. Apart(tx[v], q, raced)
    BY DEF PartsInv
  <2>2. \A f \in tx[v].held : f.key # e.key
    BY <1>0, <1>5 DEF W!Held
  <2> QED
    BY <1>7, <2>1, <2>2 DEF Apart
<1> QED
  BY <1>1, <1>8, <1>13, <1>14, OneTx

\* A save gets its page: geo tags and contacts become those of the row that won.
LEMMA UpsertPageStep == ASSUME PartsInv, NEW w \in Writer, W!UpsertPage(w) PROVE PartsInv'
<1> DEFINE q == tx[w]
           b == q.source
           p == q.page
           newer == W!IsNotOlder(pages[p], b)
           I == ({W!SourceRow(b)} \ rows) \cup
                (IF newer THEN W!RowsOf("geo", p, b.content, b.content)
                                \cup W!RowsOf("contacts", p, b.content, b.content)
                 ELSE {})
           G == IF newer THEN In(rows, "geo", p) \cup In(rows, "contacts", p) ELSE {}
           r == [q EXCEPT !.step = "next", !.source = IF newer THEN b ELSE pages[p],
                          !.todo = IF newer THEN q.todo ELSE {}, !.gone = G, !.new = I]
<1>0. /\ q \in Transaction /\ q.step = "upsert"
      /\ \A v \in Writer \ {w} : W!HoldsPage(v) => tx[v].page # p
  BY Known DEF W!UpsertPage, W!Step, W!Others
<1>1. tx' = [tx EXCEPT ![w] = r] /\ UNCHANGED <<pages, rows, entities, begun, removals, raced, overtaken>>
  BY DEF W!UpsertPage, W!Mine, In
<1>2. /\ q.save /\ b \in Bronze /\ b.page = p /\ p \in Page /\ q.text \in Content /\ q.hash \in Content
      /\ q.done = {} /\ q.new = {} /\ q.gone = {} /\ q.held = {} /\ q.seen = {} /\ b.content \in Content
  BY <1>0, Known, SourceTyped DEF Placed
<1>3. newer \/ (p \in W!Live /\ pages[p] \in Bronze)
  BY <1>2 DEF W!IsNotOlder, W!Live, PartsInv, Stored
<1>4. /\ W!RowsOf("geo", p, b.content, b.content) \subseteq W!Row
      /\ W!RowsOf("contacts", p, b.content, b.content) \subseteq W!Row
      /\ \A s \in W!RowsOf("geo", p, b.content, b.content) : s.table = "geo" /\ s.page = p
      /\ \A s \in W!RowsOf("contacts", p, b.content, b.content) : s.table = "contacts" /\ s.page = p
  BY <1>2, RowsTyped DEF Kept
<1>5. I \subseteq W!Row /\ G \subseteq W!Row
  <2>1. rows \subseteq W!Row
    BY DEF PartsInv, Stored
  <2> QED
    BY <1>2, <1>4, <2>1, SourceTyped DEF In
<1>6. \A s \in I \cup G : s.page = p /\ s.table \in Own \cup Sources
  BY <1>2, <1>4, SourceTyped DEF In, Own
<1>7. \A u \in Own :
        In((rows \ G) \cup I, u, p)
                         = IF newer THEN W!RowsOf(u, p, b.content, b.content) ELSE In(rows, u, p)
  <2> SUFFICES ASSUME NEW u \in Own
               PROVE  In((rows \ G) \cup I, u, p)
                         = IF newer THEN W!RowsOf(u, p, b.content, b.content) ELSE In(rows, u, p)
    OBVIOUS
  <2>1. W!SourceRow(b).table \notin Own /\ u \in {"geo", "contacts"}
    BY <1>2, SourceTyped DEF Sources, Own
  <2> HIDE DEF newer
  <2>2. CASE newer
    <3>1. In(rows \ G, u, p) = {}
      BY <2>1, <2>2 DEF In
    <3>2. In(I, u, p) = W!RowsOf(u, p, b.content, b.content)
      <4>1. CASE u = "geo"
        BY <1>4, <2>1, <2>2, <4>1 DEF In, Own
      <4>2. CASE u = "contacts"
        BY <1>4, <2>1, <2>2, <4>2 DEF In, Own
      <4> QED
        BY <2>1, <4>1, <4>2
    <3>3. In((rows \ G) \cup I, u, p) = In(rows \ G, u, p) \cup In(I, u, p)
      BY DEF In
    <3> QED
      BY <2>2, <3>1, <3>2, <3>3
  <2>3. CASE ~newer
    BY <2>1, <2>3 DEF In
  <2> QED
    BY <2>2, <2>3
<1>8. \A s \in I : s.table # "vectors"
  BY <1>6 DEF Own, Sources
<1>9. pages[p] \in Bronze \cup {W!NoPage}
  BY <1>2 DEF PartsInv, Stored
<1> HIDE DEF I, G, newer
<1> DEFINE src == IF newer THEN b ELSE pages[p]
           y == [q EXCEPT !.step = "next", !.source = src]
<1>c. src \in Bronze \cup {W!NoPage}
  BY <1>2, <1>9
<1> HIDE DEF src
<1>a. /\ y \in Transaction /\ y.step = "next" /\ y.source = src
      /\ y.save = q.save /\ y.page = q.page /\ y.text = q.text /\ y.hash = q.hash /\ y.done = q.done
      /\ y.seen = q.seen /\ y.names = q.names /\ y.held = q.held /\ y.todo = q.todo
  BY <1>0, <1>c DEF Transaction
<1>b. r = [y EXCEPT !.todo = IF newer THEN q.todo ELSE {}, !.gone = G, !.new = I]
  BY DEF src
<1> HIDE DEF y, r
<1>10. /\ r \in Transaction /\ r.step = "next" /\ r.source = (IF newer THEN b ELSE pages[p])
       /\ r.todo \subseteq q.todo /\ r.gone = G /\ r.new = I
       /\ r.save = q.save /\ r.page = p /\ r.text = q.text /\ r.hash = q.hash /\ r.done = q.done
       /\ r.seen = q.seen /\ r.names = q.names /\ r.held = q.held
  BY <1>0, <1>5, <1>a, <1>b DEF Transaction, src
<1>11. Stored'
  BY <1>1 DEF PartsInv, Stored
<1>12. Placed(r) /\ Writes(r) /\ Anchored(r, pages)
  BY <1>2, <1>6, <1>10 DEF Placed, Writes, Anchored, InTable
<1>13. Leaves(r, rows)
  <2>1. CASE newer
    BY <1>2, <1>7, <1>10, <2>1 DEF Leaves
  <2>2. CASE ~newer
    <3>1. \A u \in Own : In(rows, u, p) = W!RowsOf(u, p, pages[p].content, pages[p].content)
      BY <1>3, <2>2 DEF PartsInv, W!PartsAreWhole, W!OwnPartsMatch, W!Committed, In, Own
    <3> QED
      BY <1>3, <1>7, <1>10, <2>2, <3>1 DEF Leaves
  <2> QED
    BY <2>1, <2>2
<1>14. Replaces(r, rows, raced) /\ Keeps(r, entities)
  BY <1>2, <1>10 DEF Replaces, Keeps
<1>15. Hashes(r, overtaken)
  BY <1>0, <1>8, <1>10, Known DEF Hashes
<1>16. TxIs(r, pages, rows, entities, raced, overtaken)
  BY <1>10, <1>12, <1>13, <1>14, <1>15 DEF TxIs
<1>17. \A v \in Writer \ {w} : Apart(tx[v], r, raced)
  BY <1>0, <1>2, <1>10 DEF Apart, W!HoldsPage, W!Step
<1> QED
  BY <1>1, <1>11, <1>16, <1>17, OneTx

-----------------------------------------------------------------------------
(* A transaction commits, a page goes.                                     *)

\* A waiting DELETE that sees fewer rows is as it should be, if those it no longer sees
\* are gone.
LEMMA Skipping ==
  ASSUME NEW r \in Transaction, NEW T, T \subseteq r.seen, NEW P, NEW R, NEW E, NEW X, NEW O,
         TxIs(r, P, R, E, X, O),
         r.step = "delete" =>
           \A t \in r.done \cap r.todo : <<t, r.page>> \notin X => In(R, t, r.page) \subseteq T
  PROVE  /\ TxIs([r EXCEPT !.seen = T], P, R, E, X, O)
         /\ \A s, Y : /\ Apart(r, s, Y) => Apart([r EXCEPT !.seen = T], s, Y)
                      /\ Apart(s, r, Y) => Apart(s, [r EXCEPT !.seen = T], Y)
<1> DEFINE q == [r EXCEPT !.seen = T]
<1>1. /\ q \in Transaction /\ q.step = r.step /\ q.seen = T /\ q.gone = r.gone /\ q.names = r.names
      /\ q.save = r.save /\ q.page = r.page /\ q.text = r.text /\ q.source = r.source /\ q.done = r.done
      /\ q.todo = r.todo /\ q.hash = r.hash /\ q.new = r.new /\ q.held = r.held
  BY DEF Transaction
<1> HIDE DEF q
<1>2. Placed(q)
  BY <1>1 DEF TxIs, Placed
<1>3. Writes(q) /\ Leaves(q, R) /\ Anchored(q, P) /\ Hashes(q, O) /\ Keeps(q, E)
  BY <1>1 DEF TxIs, Writes, Leaves, Anchored, Hashes, Keeps
<1>4. Replaces(q, R, X)
  BY <1>1 DEF TxIs, Replaces
<1>5. TxIs(q, P, R, E, X, O)
  BY <1>1, <1>2, <1>3, <1>4 DEF TxIs
<1>6. \A s, Y : (Apart(r, s, Y) => Apart(q, s, Y)) /\ (Apart(s, r, Y) => Apart(s, q, Y))
  BY <1>1 DEF Apart
<1> QED
  BY <1>5, <1>6 DEF q

\* What a commit of w changes of the committed rows.
LEMMA CommitRows ==
  ASSUME PartsInv, NEW w \in Writer, W!Commit(w), NEW t, NEW p,
         p # tx[w].page \/ (t \notin tx[w].done /\ ~(tx[w].save /\ t \in Own \cup Sources))
  PROVE  In(rows', t, p) = In(rows, t, p)
<1>1. rows' = (rows \ tx[w].gone) \cup tx[w].new
  BY DEF W!Commit
<1>2. \A s \in tx[w].new \cup tx[w].gone : ~(s.table = t /\ s.page = p)
  BY Known DEF Writes
<1> QED
  BY <1>1, <1>2 DEF In

\* A commit keeps the invariant: whole lists replace whole lists, and the
\* transactions still open see no change of what they look at.
LEMMA CommitPartsStep == ASSUME PartsInv, NEW w \in Writer, W!Commit(w) PROVE PartsInv'
<1> DEFINE q == tx[w]
           p == q.page
<1>0. /\ q \in Transaction /\ q.step = "next" /\ q.todo = {} /\ p \in Page
  BY Known DEF W!Commit, W!Step, Placed
<1>1. /\ pages' = IF q.save THEN [pages EXCEPT ![p] = q.source] ELSE pages
      /\ rows' = (rows \ q.gone) \cup q.new
      /\ tx' = [v \in Writer |-> IF v = w THEN W!Idle ELSE [tx[v] EXCEPT !.seen = tx[v].seen \ q.gone]]
      /\ UNCHANGED <<begun, removals, raced, overtaken>>
      /\ entities' = [k \in DOMAIN entities |->
                        IF k \in W!Held(w) THEN (CHOOSE e \in q.held : e.key = k).names ELSE entities[k]]
  BY DEF W!Commit
<1>2. q.save => q.source \in Bronze
  BY <1>0, Known DEF Leaves
<1>3. /\ pages' \in [Page -> Bronze \cup {W!NoPage}]
      /\ \A u \in Page : u # p => pages'[u] = pages[u]
      /\ q.save => pages'[p] = q.source /\ pages'[p] # W!NoPage
      /\ ~q.save => pages' = pages
  BY <1>0, <1>1, <1>2, SourceTyped DEF PartsInv, Stored
<1>4. rows' \subseteq W!Row
  BY <1>0, <1>1 DEF PartsInv, Stored, Transaction
<1>5. \A k \in EntityKeys : \/ entities'[k] = entities[k] /\ k \notin W!Held(w)
                          \/ \E e \in q.held : e.key = k /\ entities'[k] = e.names
  <2> SUFFICES ASSUME NEW k \in EntityKeys
               PROVE  \/ entities'[k] = entities[k] /\ k \notin W!Held(w)
                      \/ \E e \in q.held : e.key = k /\ entities'[k] = e.names
    OBVIOUS
  <2>1. k \in DOMAIN entities
    BY DEF PartsInv, Stored
  <2>2. CASE k \in W!Held(w)
    <3>1. \E e \in q.held : e.key = k
      BY <2>2 DEF W!Held
    <3> DEFINE e == CHOOSE e \in q.held : e.key = k
    <3>2. e \in q.held /\ e.key = k
      BY <3>1
    <3>3. entities'[k] = e.names
      BY <1>1, <2>1, <2>2
    <3> QED
      BY <3>2, <3>3
  <2>3. CASE k \notin W!Held(w)
    BY <1>1, <2>1, <2>3
  <2> QED
    BY <2>2, <2>3
<1>6. entities' \in [EntityKeys -> W!Entity]
  <2>1. entities' = [k \in EntityKeys |-> entities'[k]]
    BY <1>1 DEF PartsInv, Stored
  <2>2. \A k \in EntityKeys : entities'[k] \in W!Entity
    BY <1>0, <1>5 DEF PartsInv, Stored, Transaction
  <2> QED
    BY <2>1, <2>2
<1>7. Stored'
  BY <1>1, <1>3, <1>4, <1>6 DEF PartsInv, Stored
<1>8. /\ tx' = [v \in Writer |-> tx'[v]] /\ tx'[w] = W!Idle
      /\ \A v \in Writer \ {w} : tx'[v] = [tx[v] EXCEPT !.seen = tx[v].seen \ q.gone]
  BY <1>1
<1>9. \A u \in Page : pages[u] # W!NoPage => pages'[u] # W!NoPage
  BY <1>3
<1>10. W!PartsAreWhole'
  <2>1. W!OwnPartsMatch'
    <3> SUFFICES ASSUME NEW u \in W!Live', NEW t \in Own
                 PROVE  In(rows', t, u) = W!RowsOf(t, u, pages'[u].content, pages'[u].content)
      BY DEF W!OwnPartsMatch, W!Committed, In, Own, W!RowsOf
    <3>1. CASE u = p /\ q.save
      <4>1. In((rows \ q.gone) \cup q.new, t, p) = W!RowsOf(t, p, q.source.content, q.source.content)
        BY <1>0, <3>1, Known DEF Leaves
      <4> QED
        BY <1>1, <1>3, <3>1, <4>1
    <3>2. CASE ~(u = p /\ q.save)
      <4>1. u # p \/ (t \notin q.done /\ ~q.save)
        BY <1>0, <3>2 DEF Transaction, W!Optional, W!ToSet, Own
      <4>2. In(rows', t, u) = In(rows, t, u)
        BY <4>1, CommitRows
      <4>3. u \in W!Live /\ pages'[u] = pages[u]
        BY <1>3, <3>2 DEF W!Live
      <4>4. In(rows, t, u) = W!RowsOf(t, u, pages[u].content, pages[u].content)
        BY <4>3 DEF PartsInv, W!PartsAreWhole, W!OwnPartsMatch, W!Committed, In, Own
      <4> QED
        BY <4>2, <4>3, <4>4
    <3> QED
      BY <3>1, <3>2
  <2>2. W!OneWritersList'
    <3> SUFFICES ASSUME NEW u \in W!Live', NEW t \in W!ToSet(W!Optional), <<t, u>> \notin raced
                 PROVE  \/ In(rows', t, u) = {}
                        \/ \E c, h \in Content : In(rows', t, u) = W!RowsOf(t, u, c, h)
      BY <1>1 DEF W!OneWritersList, W!Committed, In, W!RowsOf
    <3>1. CASE u = p /\ t \in q.done
      <4>1. PICK c \in Content, h \in Content :
              In(rows, t, p) \subseteq q.gone /\ In(q.new, t, p) = W!RowsOf(t, p, c, h)
        BY <1>0, <3>1, Known DEF Replaces
      <4>2. In(rows', t, p) = In(q.new, t, p)
        BY <1>1, <4>1 DEF In
      <4> QED
        BY <3>1, <4>1, <4>2
    <3>2. CASE ~(u = p /\ t \in q.done)
      <4>1. t \notin Own \cup Sources
        BY DEF W!Optional, W!ToSet, Own, Sources
      <4>2. In(rows', t, u) = In(rows, t, u)
        BY <3>2, <4>1, CommitRows
      <4>3. CASE u \in W!Live
        BY <4>2, <4>3 DEF PartsInv, W!PartsAreWhole, W!OneWritersList, W!Committed, In
      <4>4. CASE u \notin W!Live
        <5>1. In(rows, t, u) = {}
          BY <4>4 DEF PartsInv, W!PartsAreWhole, W!NoOrphans, In
        <5> QED
          BY <4>2, <5>1
      <4> QED
        BY <4>3, <4>4
    <3> QED
      BY <3>1, <3>2
  <2>3. W!VectorsTellTheirText'
    <3>1. \A s \in q.new : s.page = p
      BY Known DEF Writes
    <3> QED
      BY <1>1, <3>1, Known DEF W!VectorsTellTheirText, PartsInv, W!PartsAreWhole, Hashes
  <2>4. W!NoOrphans'
    <3>1. \A s \in q.new : s.page = p /\ pages'[p] # W!NoPage
      BY <1>3, Known DEF Writes, Anchored
    <3>2. \A s \in rows : s.page \in Page /\ pages'[s.page] # W!NoPage
      BY <1>9 DEF PartsInv, W!PartsAreWhole, W!NoOrphans, W!Live
    <3> QED
      BY <1>0, <1>1, <3>1, <3>2 DEF W!NoOrphans, W!Live
  <2> QED
    BY <2>1, <2>2, <2>3, <2>4 DEF W!PartsAreWhole
<1>11. ASSUME NEW v \in Writer \ {w} PROVE TxIs(tx[v], pages', rows', entities', raced, overtaken)
  <2> DEFINE r == tx[v]
  <2>0. /\ TxIs(r, pages, rows, entities, raced, overtaken) /\ Apart(r, q, raced) /\ r \in Transaction
    BY DEF PartsInv
  <2>1. Leaves(r, rows')
    <3> SUFFICES ASSUME r.save, r.step # "upsert", NEW t \in Own
                 PROVE  In((rows' \ r.gone) \cup r.new, t, r.page) = In((rows \ r.gone) \cup r.new, t, r.page)
      BY <2>0 DEF TxIs, Leaves
    <3>1. r.page # p \/ (t \notin q.done /\ ~q.save)
      BY <1>0, <2>0 DEF Apart, Transaction, W!Optional, W!ToSet, Own
    <3>2. In(rows', t, r.page) = In(rows, t, r.page)
      BY <3>1, CommitRows
    <3> QED
      BY <3>2 DEF In
  <2>2. Anchored(r, pages')
    <3>1. r.new # {} => r.page \in Page
      BY <2>0 DEF TxIs, Placed
    <3> QED
      BY <1>9, <2>0, <3>1 DEF TxIs, Anchored
  <2>3. Replaces(r, rows', raced)
    <3>1. ASSUME NEW t \in r.done, <<t, r.page>> \notin raced PROVE In(rows', t, r.page) = In(rows, t, r.page)
      <4>1. r.page # p \/ t \notin q.done
        BY <2>0, <3>1 DEF Apart
      <4>2. t \notin Own \cup Sources
        BY <2>0 DEF Transaction, W!Optional, W!ToSet, Own, Sources
      <4> QED
        BY <4>1, <4>2, CommitRows
    <3> QED
      BY <2>0, <3>1 DEF TxIs, Replaces
  <2>4. Keeps(r, entities')
    <3> SUFFICES ASSUME NEW e \in r.held, NEW n \in W!Language, entities'[e.key][n] # Blank
                 PROVE  e.names[n] = entities'[e.key][n]
      BY DEF Keeps
    <3>1. e.key \in EntityKeys
      BY <2>0 DEF Transaction
    <3>2. \A f \in q.held : f.key # e.key
      BY <2>0 DEF Apart
    <3>3. entities'[e.key] = entities[e.key]
      BY <1>5, <3>1, <3>2
    <3> QED
      BY <2>0, <3>3 DEF TxIs, Keeps
  <2> QED
    BY <2>0, <2>1, <2>2, <2>3, <2>4 DEF TxIs
<1>12. ASSUME NEW v \in Writer \ {w}
       PROVE  /\ TxIs(tx'[v], pages', rows', entities', raced, overtaken)
              /\ \A s : (Apart(tx[v], s, raced) => Apart(tx'[v], s, raced))
                       /\ (Apart(s, tx[v], raced) => Apart(s, tx'[v], raced))
  <2> DEFINE r == tx[v]
             T == r.seen \ q.gone
  <2>1. r \in Transaction /\ Apart(r, q, raced) /\ T \subseteq r.seen
    BY DEF PartsInv
  <2>2. TxIs(r, pages', rows', entities', raced, overtaken)
    BY <1>11
  <2>3. ASSUME r.step = "delete", NEW t \in r.done \cap r.todo, <<t, r.page>> \notin raced
        PROVE  In(rows', t, r.page) \subseteq T
    <3>1. In(rows', t, r.page) \subseteq r.seen
      BY <2>2, <2>3 DEF TxIs, Replaces
    <3>2. t \notin Own \cup Sources
      BY <2>1 DEF Transaction, W!Optional, W!ToSet, Own, Sources
    <3>3. r.page # p \/ t \notin q.done
      BY <2>1, <2>3 DEF Apart
    <3>4. \A s \in q.gone : ~(s.table = t /\ s.page = r.page)
      BY <3>2, <3>3, Known DEF Writes
    <3> QED
      BY <3>1, <3>4 DEF In
  <2>4. tx'[v] = [r EXCEPT !.seen = T]
    BY <1>8
  <2> HIDE DEF r, T
  <2>5. /\ TxIs(tx'[v], pages', rows', entities', raced, overtaken)
        /\ \A s : (Apart(r, s, raced) => Apart(tx'[v], s, raced))
                 /\ (Apart(s, r, raced) => Apart(s, tx'[v], raced))
    BY <2>1, <2>2, <2>3, <2>4, Skipping
  <2> QED
    BY <2>5 DEF r
<1>13. ASSUME NEW v \in Writer PROVE TxIs(tx'[v], pages', rows', entities', raced', overtaken')
  <2>1. CASE v = w
    BY <1>8, <2>1, IdleIs
  <2>2. CASE v # w
    BY <1>1, <1>12, <2>2
  <2> QED
    BY <2>1, <2>2
<1>14. ASSUME NEW u \in Writer, NEW v \in Writer, u # v PROVE Apart(tx'[u], tx'[v], raced')
  <2>1. CASE u = w \/ v = w
    BY <1>8, <2>1, IdleIs
  <2>2. CASE u # w /\ v # w
    <3>1. Apart(tx[u], tx[v], raced)
      BY <1>14 DEF PartsInv
    <3>2. Apart(tx'[u], tx[v], raced)
      BY <1>12, <2>2, <3>1
    <3>3. Apart(tx'[u], tx'[v], raced)
      BY <1>12, <2>2, <3>2
    <3> QED
      BY <1>1, <3>3
  <2> QED
    BY <2>1, <2>2
<1>15. tx' \in [Writer -> Transaction]
  <2>1. \A v \in Writer : tx'[v] \in Transaction
    BY <1>13 DEF TxIs
  <2> QED
    BY <1>8, <2>1
<1> QED
  BY <1>7, <1>10, <1>13, <1>14, <1>15 DEF PartsInv

\* A deleted page takes all its rows along, and nobody writes rows of it.
LEMMA RemovePageStep == ASSUME PartsInv, NEW p \in Page, W!RemovePage(p) PROVE PartsInv'
<1>1. /\ pages' = [pages EXCEPT ![p] = W!NoPage] /\ rows' = {s \in rows : s.page # p}
      /\ tx' = [v \in Writer |-> [tx[v] EXCEPT !.seen = {s \in tx[v].seen : s.page # p}]]
      /\ UNCHANGED <<entities, begun, raced, overtaken>>
      /\ \A w \in Writer : tx[w].page = p => ~W!HoldsPage(w) /\ tx[w].new = {} /\ tx[w].gone = {}
  BY DEF W!RemovePage
<1>2. /\ pages' \in [Page -> Bronze \cup {W!NoPage}] /\ pages'[p] = W!NoPage
      /\ \A u \in Page : u # p => pages'[u] = pages[u]
  BY <1>1 DEF PartsInv, Stored
<1>3. /\ \A t, u : u # p => In(rows', t, u) = In(rows, t, u)
      /\ \A t : In(rows', t, p) = {}
  BY <1>1 DEF In
<1>4. Stored'
  <2>1. /\ removals \in 0 .. MaxRemovals /\ removals < MaxRemovals
        /\ removals' = removals + 1 /\ MaxRemovals \in Nat
    BY Parts DEF W!RemovePage, PartsInv, Stored, W!IsParts
  <2>2. removals' \in 0 .. MaxRemovals
    BY <2>1
  <2> QED
    BY <1>1, <1>2, <2>2 DEF PartsInv, Stored
<1>5. W!Live' = W!Live \ {p}
  BY <1>2 DEF W!Live
<1>6. W!PartsAreWhole'
  <2>1. W!OwnPartsMatch'
    <3> SUFFICES ASSUME NEW u \in W!Live', NEW t \in Own
                 PROVE  In(rows', t, u) = W!RowsOf(t, u, pages'[u].content, pages'[u].content)
      BY DEF W!OwnPartsMatch, W!Committed, In, Own, W!RowsOf
    <3>1. In(rows, t, u) = W!RowsOf(t, u, pages[u].content, pages[u].content)
      BY <1>5 DEF PartsInv, W!PartsAreWhole, W!OwnPartsMatch, W!Committed, In, Own
    <3> QED
      BY <1>2, <1>3, <1>5, <3>1 DEF W!Live
  <2>2. W!OneWritersList'
    <3> SUFFICES ASSUME NEW u \in W!Live', NEW t \in W!ToSet(W!Optional), <<t, u>> \notin raced
                 PROVE  \/ In(rows', t, u) = {}
                        \/ \E c, h \in Content : In(rows', t, u) = W!RowsOf(t, u, c, h)
      BY <1>1 DEF W!OneWritersList, W!Committed, In, W!RowsOf
    <3>1. \/ In(rows, t, u) = {}
          \/ \E c, h \in Content : In(rows, t, u) = W!RowsOf(t, u, c, h)
      BY <1>5 DEF PartsInv, W!PartsAreWhole, W!OneWritersList, W!Committed, In
    <3> QED
      BY <1>3, <1>5, <3>1
  <2>3. W!VectorsTellTheirText'
    BY <1>1 DEF W!VectorsTellTheirText, PartsInv, W!PartsAreWhole
  <2>4. W!NoOrphans'
    BY <1>1, <1>5 DEF W!NoOrphans, PartsInv, W!PartsAreWhole
  <2> QED
    BY <2>1, <2>2, <2>3, <2>4 DEF W!PartsAreWhole
<1>7. ASSUME NEW v \in Writer PROVE TxIs(tx[v], pages', rows', entities, raced, overtaken)
  <2> DEFINE r == tx[v]
  <2>0. TxIs(r, pages, rows, entities, raced, overtaken)
    BY DEF PartsInv
  <2>1. Leaves(r, rows')
    <3>1. ASSUME r.save, r.step # "upsert" PROVE r.page # p
      BY <1>1, <3>1 DEF W!HoldsPage, W!Step
    <3>2. ASSUME r.page # p, NEW t
          PROVE  In((rows' \ r.gone) \cup r.new, t, r.page) = In((rows \ r.gone) \cup r.new, t, r.page)
      BY <1>1, <3>2 DEF In
    <3> QED
      BY <2>0, <3>1, <3>2 DEF TxIs, Leaves
  <2>2. Anchored(r, pages')
    <3>1. r.new # {} => r.page # p /\ r.page \in Page
      BY <1>1, <2>0 DEF TxIs, Placed
    <3> QED
      BY <1>2, <2>0, <3>1 DEF TxIs, Anchored
  <2>3. Replaces(r, rows', raced)
    <3>1. \A t : In(rows', t, r.page) \subseteq In(rows, t, r.page)
      BY <1>1 DEF In
    <3> QED
      BY <2>0, <3>1 DEF TxIs, Replaces
  <2> QED
    BY <2>0, <2>1, <2>2, <2>3 DEF TxIs
<1>8. ASSUME NEW v \in Writer
      PROVE  /\ TxIs(tx'[v], pages', rows', entities', raced', overtaken')
             /\ \A s : (Apart(tx[v], s, raced) => Apart(tx'[v], s, raced))
                      /\ (Apart(s, tx[v], raced) => Apart(s, tx'[v], raced))
  <2> DEFINE r == tx[v]
             T == {s \in r.seen : s.page # p}
  <2>1. r \in Transaction /\ T \subseteq r.seen
    BY DEF PartsInv
  <2>2. TxIs(r, pages', rows', entities, raced, overtaken)
    BY <1>7
  <2>3. ASSUME r.step = "delete", NEW t \in r.done \cap r.todo, <<t, r.page>> \notin raced
        PROVE  In(rows', t, r.page) \subseteq T
    <3>1. In(rows', t, r.page) \subseteq r.seen
      BY <2>2, <2>3 DEF TxIs, Replaces
    <3> QED
      BY <1>1, <3>1 DEF In
  <2>4. tx'[v] = [r EXCEPT !.seen = T]
    BY <1>1
  <2> HIDE DEF r, T
  <2>5. /\ TxIs(tx'[v], pages', rows', entities, raced, overtaken)
        /\ \A s : (Apart(r, s, raced) => Apart(tx'[v], s, raced))
                 /\ (Apart(s, r, raced) => Apart(s, tx'[v], raced))
    BY <2>1, <2>2, <2>3, <2>4, Skipping
  <2> QED
    BY <1>1, <2>5 DEF r
<1>9. ASSUME NEW u \in Writer, NEW v \in Writer, u # v PROVE Apart(tx'[u], tx'[v], raced')
  <2>1. Apart(tx[u], tx[v], raced)
    BY <1>9 DEF PartsInv
  <2>2. Apart(tx'[u], tx[v], raced)
    BY <1>8, <2>1
  <2>3. Apart(tx'[u], tx'[v], raced)
    BY <1>8, <2>2
  <2> QED
    BY <1>1, <2>3
<1>10. tx' \in [Writer -> Transaction]
  <2>1. \A v \in Writer : tx'[v] \in Transaction
    BY <1>8 DEF TxIs
  <2> QED
    BY <1>1, <2>1
<1> QED
  BY <1>4, <1>6, <1>8, <1>9, <1>10 DEF PartsInv

\* Every step keeps the invariant.
LEMMA PartsStep == PartsInv /\ [W!Next]_W!vars => PartsInv'
<1> SUFFICES ASSUME PartsInv, [W!Next]_W!vars PROVE PartsInv'
  OBVIOUS
<1>1. ASSUME NEW w \in Writer, W!Start(w) PROVE PartsInv'
  BY <1>1, BeginSaveStep, ReadPageStep DEF W!Start
<1>2. ASSUME NEW w \in Writer, W!Advance(w) PROVE PartsInv'
  <2>1. CASE W!Refused(w) \/ W!Victim(w)
    BY <2>1, AbortStep DEF W!Refused, W!Victim
  <2>2. CASE W!UpsertPage(w) \/ W!BeginReplace(w) \/ W!Look(w) \/ W!Delete(w)
    BY <2>2, UpsertPageStep, BeginReplaceStep, LookStep, DeleteStep
  <2>3. CASE W!UpsertEntity(w) \/ W!Insert(w) \/ W!Commit(w)
    BY <2>3, UpsertEntityStep, InsertStep, CommitPartsStep
  <2> QED
    BY <1>2, <2>1, <2>2, <2>3 DEF W!Advance
<1>3. ASSUME NEW w \in Writer, W!Fail(w) PROVE PartsInv'
  BY <1>3, AbortStep DEF W!Fail
<1>4. ASSUME NEW p \in Page, W!RemovePage(p) PROVE PartsInv'
  BY <1>4, RemovePageStep
<1>5. CASE UNCHANGED W!vars
  <2>1. UNCHANGED <<pages, rows, entities, tx, begun, removals, raced, overtaken>>
    BY <1>5 DEF W!vars
  <2>2. Stored'
    BY <2>1 DEF PartsInv, Stored
  <2>3. W!PartsAreWhole'
    BY <2>1 DEF PartsInv, W!PartsAreWhole, W!OwnPartsMatch, W!OneWritersList, W!VectorsTellTheirText,
                W!NoOrphans, W!Live, W!Committed, W!RowsOf
  <2> QED
    BY <2>1, <2>2, <2>3 DEF PartsInv
<1> QED
  BY <1>1, <1>2, <1>3, <1>4, <1>5 DEF W!Next

\* The invariant has the types.
LEMMA TypesFollow == PartsInv => W!PartsTyped
<1> SUFFICES ASSUME PartsInv PROVE W!PartsTyped
  OBVIOUS
<1>1. \A w \in Writer : tx[w] \in Transaction
  BY DEF PartsInv
<1>2. \A w \in Writer :
        /\ tx[w].step \in {"idle", "upsert", "work", "next", "delete", "entities", "insert"}
        /\ tx[w].new \cup tx[w].gone \cup tx[w].seen \subseteq W!Row
        /\ tx[w].source \in Bronze \cup {W!NoPage}
  BY <1>1 DEF Transaction
<1> QED
  BY <1>2 DEF PartsInv, Stored, W!PartsTyped

\* Only a commit writes entities, and what it writes has the names known before.
LEMMA NamesStep ==
  ASSUME PartsInv, [W!Next]_W!vars, NEW k \in DOMAIN entities, NEW n \in W!Language, entities[k][n] # Blank
  PROVE  entities'[k][n] = entities[k][n]
<1>1. CASE entities' = entities
  BY <1>1
<1>2. ASSUME NEW w \in Writer, W!Commit(w) PROVE entities'[k][n] = entities[k][n]
  <2>1. entities'[k] = IF k \in W!Held(w) THEN (CHOOSE e \in tx[w].held : e.key = k).names ELSE entities[k]
    BY <1>2 DEF W!Commit
  <2>2. CASE k \in W!Held(w)
    <3>1. \E e \in tx[w].held : e.key = k
      BY <2>2 DEF W!Held
    <3> DEFINE e == CHOOSE e \in tx[w].held : e.key = k
    <3>2. e \in tx[w].held /\ e.key = k
      BY <3>1
    <3>3. e.names[n] = entities[k][n]
      BY <3>2, Known DEF Keeps
    <3> QED
      BY <2>1, <2>2, <3>3
  <2> QED
    BY <2>1, <2>2
<1>3. entities' = entities \/ \E w \in Writer : W!Commit(w)
  <2>1. ASSUME NEW w \in Writer, W!Start(w) \/ W!Fail(w) PROVE entities' = entities
    BY <2>1 DEF W!Start, W!BeginSave, W!ReadPage, W!Fail, W!Abort
  <2>2. ASSUME NEW w \in Writer, W!Advance(w), ~W!Commit(w) PROVE entities' = entities
    BY <2>2 DEF W!Advance, W!UpsertPage, W!BeginReplace, W!Look, W!Delete, W!UpsertEntity, W!Insert,
                W!Refused, W!Victim, W!Abort
  <2>3. ASSUME NEW p \in Page, W!RemovePage(p) PROVE entities' = entities
    BY <2>3 DEF W!RemovePage
  <2>4. CASE UNCHANGED W!vars
    BY <2>4 DEF W!vars
  <2> QED
    BY <2>1, <2>2, <2>3, <2>4 DEF W!Next
<1> QED
  BY <1>1, <1>2, <1>3

-----------------------------------------------------------------------------
(* The theorems.                                                           *)

\* PageParts' rows and types are PartRows'.
LEMMA SameRows ==
  /\ \A t, p, c, h : W!RowsOf(t, p, c, h) = RowsOf(t, p, c, h)
  /\ W!Row = Row /\ W!Entity = Entity /\ W!ToSet(W!Optional) = ToSet(Optional)
  /\ W!NoPage = NoPage /\ W!Live = Live /\ W!Language = Language
<1>1. \A I : W!First(I) = First(I) /\ W!Final(I) = Final(I)
  BY DEF First, Final, W!First, W!Final
<1>2. \A s : W!Keys(s) = Keys(s)
  BY DEF Keys, W!Keys
<1>3. \A s, k : W!At(s, k) = At(s, k)
  BY DEF At, W!At
<1>4. \A S : W!Cardinality(S) = Cardinality(S)
  BY DEF Cardinality, W!Cardinality
<1>5. \A p, c : W!GeoRows(p, c) = GeoRows(p, c)
  BY <1>1, <1>2, <1>3 DEF GeoRows, W!GeoRows, GeoOf, W!GeoOf
<1>6. \A c : /\ W!ContactRows(c) = ContactRows(c) /\ W!MediaRows(c) = MediaRows(c)
             /\ W!EntityRows(c) = EntityRows(c) /\ W!VectorRows(c) = VectorRows(c)
  BY <1>1, <1>2, <1>3, <1>4 DEF ContactRows, W!ContactRows, MediaRows, W!MediaRows,
     EntityRows, W!EntityRows, VectorRows, W!VectorRows
<1>7. \A t, p, c : W!Derived(t, p, c) = Derived(t, p, c)
  BY <1>5, <1>6 DEF Derived, W!Derived
<1>8. \A t, p, c, h : W!RowsOf(t, p, c, h) = RowsOf(t, p, c, h)
  BY <1>7 DEF RowsOf, W!RowsOf
<1>9. W!Key = Key
  BY <1>2 DEF Key, W!Key, ListsOf, W!ListsOf
<1>10. W!Row = Row
  BY <1>9 DEF Row, W!Row, RowIn, W!RowIn, PlaceOrContact, W!PlaceOrContact, PageSource, W!PageSource,
     PageMedia, W!PageMedia, PageEntity, W!PageEntity, PageEmbedding, W!PageEmbedding
<1>11. W!Entity = Entity /\ W!Language = Language
  BY DEF Entity, W!Entity, Name, W!Name, NamesOf, W!NamesOf, Language, W!Language
<1>12. W!ToSet(W!Optional) = ToSet(Optional) /\ W!NoPage = NoPage
  BY DEF ToSet, W!ToSet, Optional, W!Optional, NoPage, W!NoPage
<1>13. W!Live = Live
  BY <1>12 DEF Live, W!Live
<1> QED
  BY <1>8, <1>10, <1>11, <1>12, <1>13

\* What is typed and whole in PageParts is so in PartRows.
LEMMA SameWords ==
  /\ W!PartsTyped => PartsTyped
  /\ W!PartsAreWhole => PartsAreWhole
<1>1. W!PartsTyped => PartsTyped
  BY SameRows DEF PartsTyped, W!PartsTyped
<1>2. \A t, p : W!Committed(t, p) = Committed(t, p)
  BY DEF Committed, W!Committed
<1>3. W!OwnPartsMatch => OwnPartsMatch
  BY <1>2, SameRows DEF OwnPartsMatch, W!OwnPartsMatch
<1>4. W!OneWritersList => OneWritersList
  BY <1>2, SameRows DEF OneWritersList, W!OneWritersList
<1>5. /\ W!VectorsTellTheirText => VectorsTellTheirText
      /\ W!NoOrphans => NoOrphans
  BY SameRows DEF VectorsTellTheirText, W!VectorsTellTheirText, NoOrphans, W!NoOrphans
<1> QED
  BY <1>1, <1>3, <1>4, <1>5 DEF PartsAreWhole, W!PartsAreWhole

\* The invariant holds in every state.
LEMMA PartsInvariant == W!Spec => []PartsInv
BY InvInit, PartsStep, PTL DEF W!Spec

\* Pages, rows, entities and open transactions are what their tables and lists allow.
THEOREM PartsTypes == W!Spec => []PartsTyped
<1>1. PartsInv => PartsTyped
  BY TypesFollow, SameWords
<1> QED
  BY <1>1, PartsInvariant, PTL

\* For any payloads, any number of sessions, jobs and removals: a page's geo tags and
\* contacts are those of the text it shows, each other list is one writer's whole list
\* unless two replaced it at once, vectors record the text they are of, and no row is left
\* without its page.
THEOREM WholeParts == W!Spec => []PartsAreWhole
<1>1. PartsInv => PartsAreWhole
  BY SameWords DEF PartsInv
<1> QED
  BY <1>1, PartsInvariant, PTL

\* No upsert, by whichever page's save or job, loses a name an entity is known by.
THEOREM NamesKept == W!Spec => NamesAreKept
<1>1. PartsInv /\ [W!Next]_W!vars =>
        [\A k \in DOMAIN entities : \A n \in Language :
           entities[k][n] # Blank => entities'[k][n] = entities[k][n]]_entities
  BY NamesStep, SameRows
<1> QED
  BY <1>1, PartsInvariant, PTL DEF W!Spec, NamesAreKept

-----------------------------------------------------------------------------
(* Deadlocks.  Tables are taken in order, so a wait leads to a transaction *)
(* as far or further; and of the transactions replacing one table of one   *)
(* page, a later one saw all that an earlier one saw.                      *)

\* The order of the tables.
Pos(t) == CASE t = "media" -> 1 [] t = "links" -> 2 [] t = "vectors" -> 3

\* What a transaction has deleted or will.
Sight(r) == r.seen \cup r.gone
OfTable(S, t) == {s \in S : s.table = t}

InOrder(r) ==
  /\ \A t \in r.done, u \in r.todo : Pos(t) <= Pos(u)
  /\ \A s \in r.new : s.table \notin r.todo
  /\ r.step = "delete" => \A s \in r.gone : s.table \notin r.todo
Nested(r, q) ==
  r.page = q.page =>
    \A t \in r.done \cap q.done :
      \/ OfTable(Sight(r), t) \subseteq OfTable(Sight(q), t)
      \/ OfTable(Sight(q), t) \subseteq OfTable(Sight(r), t)
LockInv ==
  /\ \A w \in Writer : Sight(tx[w]) \subseteq rows /\ InOrder(tx[w])
  /\ \A v, w \in Writer : v # w => tx[v].gone \cap tx[w].gone = {} /\ Nested(tx[v], tx[w])

\* The next table comes before all others left.
LEMMA TableIsFirst ==
  ASSUME NEW S, S \subseteq W!ToSet(W!Optional), S # {}
  PROVE  /\ TableOf(S) \in S
         /\ \A u \in S : Pos(TableOf(S)) <= Pos(u) /\ (u # TableOf(S) => Pos(TableOf(S)) < Pos(u))
         /\ \A u \in S : Pos(u) \in 1 .. 3
<1> DEFINE I == {i \in DOMAIN W!Optional : W!Optional[i] \in S}
<1>1. DOMAIN W!Optional = 1 .. 3 /\ W!ToSet(W!Optional) = {"media", "links", "vectors"}
  BY DEF W!Optional, W!ToSet
<1>2. I \subseteq Nat /\ I # {}
  BY <1>1 DEF W!Optional, W!ToSet
<1>3. W!First(I) \in I /\ \A j \in I : W!First(I) <= j
  BY <1>2, FirstIs
<1>4. \A i \in 1 .. 3 : Pos(W!Optional[i]) = i
  BY DEF W!Optional, Pos
<1>5. \A u \in S : \E i \in I : u = W!Optional[i] /\ Pos(u) = i
  BY <1>1, <1>4 DEF W!ToSet
<1>6. TableOf(S) \in S /\ Pos(TableOf(S)) = W!First(I)
  BY <1>1, <1>3, <1>4 DEF TableOf
<1> HIDE DEF I
<1>7. I \subseteq 1 .. 3
  BY <1>1 DEF I
<1>8. ASSUME NEW u \in S
      PROVE  /\ Pos(TableOf(S)) <= Pos(u) /\ Pos(u) \in 1 .. 3
             /\ u # TableOf(S) => Pos(TableOf(S)) < Pos(u)
  <2>1. PICK i \in I : u = W!Optional[i] /\ Pos(u) = i
    BY <1>5
  <2>2. TableOf(S) = W!Optional[W!First(I)]
    BY DEF TableOf, I
  <2> DEFINE f == W!First(I)
  <2>3. f \in 1 .. 3 /\ i \in 1 .. 3 /\ f <= i
    BY <1>3, <1>7
  <2>4. u # TableOf(S) => f # i
    BY <2>1, <2>2
  <2>5. Pos(TableOf(S)) = f
    BY <1>6
  <2> HIDE DEF f
  <2> QED
    BY <2>1, <2>3, <2>4, <2>5
<1> QED
  BY <1>6, <1>8

\* A transaction that has not looked at a list yet.
LEMMA FreshIs ==
  ASSUME NEW r, r.done = {}, r.seen = {}, r.gone = {}, r.new = {}
  PROVE  /\ Sight(r) \subseteq rows /\ InOrder(r)
         /\ \A q : q.gone \cap r.gone = {} /\ Nested(q, r)
BY DEF Sight, InOrder, Nested

\* A step of one transaction that commits nothing.
LEMMA OneLock ==
  ASSUME PartsInv, LockInv, NEW w \in Writer, NEW r, tx' = [tx EXCEPT ![w] = r], rows' = rows,
         Sight(r) \subseteq rows, InOrder(r),
         \A v \in Writer \ {w} : tx[v].gone \cap r.gone = {} /\ Nested(tx[v], r)
  PROVE  LockInv'
<1>1. tx'[w] = r /\ \A v \in Writer \ {w} : tx'[v] = tx[v]
  BY DEF PartsInv
<1>2. ASSUME NEW v \in Writer PROVE Sight(tx'[v]) \subseteq rows' /\ InOrder(tx'[v])
  BY <1>1 DEF LockInv
<1>3. ASSUME NEW u \in Writer, NEW v \in Writer, u # v
      PROVE  tx'[u].gone \cap tx'[v].gone = {} /\ Nested(tx'[u], tx'[v])
  <2>1. CASE u = w
    <3>1. tx[v].gone \cap r.gone = {} /\ Nested(tx[v], r)
      BY <1>3, <2>1
    <3>2. Nested(r, tx[v])
      BY <3>1 DEF Nested
    <3> QED
      BY <1>1, <1>3, <2>1, <3>1, <3>2
  <2>2. CASE v = w
    BY <1>1, <1>3, <2>2
  <2>3. CASE u # w /\ v # w
    BY <1>1, <1>3, <2>3 DEF LockInv
  <2> QED
    BY <2>1, <2>2, <2>3
<1>4. LockInv' = (/\ \A v \in Writer : Sight(tx'[v]) \subseteq rows' /\ InOrder(tx'[v])
                  /\ \A u, v \in Writer : u # v => /\ tx'[u].gone \cap tx'[v].gone = {}
                                                   /\ Nested(tx'[u], tx'[v]))
  BY DEF LockInv, InOrder, Sight, Nested
<1> QED
  BY <1>2, <1>3, <1>4

\* A step that leaves a transaction's table, and what it sees and deletes, alone.
LEMMA SameLock ==
  ASSUME PartsInv, LockInv, NEW w \in Writer, NEW r, tx' = [tx EXCEPT ![w] = r], rows' = rows,
         r.page = tx[w].page, r.done = tx[w].done, InOrder(r), Sight(r) = Sight(tx[w]),
         \A v \in Writer \ {w} : tx[v].gone \cap r.gone = {}
  PROVE  LockInv'
<1>1. Sight(r) \subseteq rows
  BY DEF LockInv
<1>2. ASSUME NEW v \in Writer \ {w} PROVE Nested(tx[v], r)
  <2>1. Nested(tx[v], tx[w])
    BY DEF LockInv
  <2> QED
    BY <2>1 DEF Nested
<1> QED
  BY <1>1, <1>2, OneLock

\* Beginning, the first statement of a job, and rollback.
LEMMA FreshLock ==
  ASSUME PartsInv, LockInv, NEW w \in Writer,
         \/ W!Start(w) \/ W!BeginReplace(w) \/ W!Abort(w)
  PROVE  LockInv'
<1>1. ASSUME NEW r, tx' = [tx EXCEPT ![w] = r], rows' = rows,
             r.done = {}, r.seen = {}, r.gone = {}, r.new = {}
      PROVE  LockInv'
  BY <1>1, FreshIs, OneLock
<1>2. W!Idle.done = {} /\ W!Idle.seen = {} /\ W!Idle.gone = {} /\ W!Idle.new = {}
  BY DEF W!Idle
<1>3. CASE W!Abort(w)
  BY <1>1, <1>2, <1>3 DEF W!Abort
<1>4. ASSUME NEW b \in Bronze, NEW blocks \in Blocks, W!BeginSave(w, b, blocks) PROVE LockInv'
  <2> DEFINE r == [W!Idle EXCEPT !.step = "upsert", !.save = TRUE, !.page = b.page, !.text = b.content,
                                 !.hash = b.content, !.source = b, !.todo = blocks]
  <2>1. tx' = [tx EXCEPT ![w] = r] /\ rows' = rows
    BY <1>4 DEF W!BeginSave
  <2>2. r.done = {} /\ r.seen = {} /\ r.gone = {} /\ r.new = {}
    BY DEF W!Idle
  <2> HIDE DEF r
  <2> QED
    BY <1>1, <2>1, <2>2
<1>5. ASSUME NEW t, NEW p \in Page, W!ReadPage(w, t, p) PROVE LockInv'
  <2> DEFINE r == [W!Idle EXCEPT !.step = "work", !.page = p, !.text = pages[p].content, !.todo = {t}]
  <2>1. tx' = [tx EXCEPT ![w] = r] /\ rows' = rows
    BY <1>5 DEF W!ReadPage
  <2>2. r.done = {} /\ r.seen = {} /\ r.gone = {} /\ r.new = {}
    BY DEF W!Idle
  <2> HIDE DEF r
  <2> QED
    BY <1>1, <2>1, <2>2
<1>6. CASE W!BeginReplace(w)
  <2> DEFINE q == tx[w]
             h == IF W!Table(w) = "vectors" THEN pages[q.page].content ELSE q.text
             r == [q EXCEPT !.step = "next", !.hash = h]
  <2>1. tx' = [tx EXCEPT ![w] = r] /\ rows' = rows /\ q.step = "work" /\ q \in Transaction
    BY <1>6, Known DEF W!BeginReplace, W!Step
  <2>2. q.done = {} /\ q.seen = {} /\ q.gone = {} /\ q.new = {}
    BY <2>1, Known DEF Placed
  <2> HIDE DEF h
  <2>3. r.done = {} /\ r.seen = {} /\ r.gone = {} /\ r.new = {}
    BY <2>1, <2>2 DEF Transaction
  <2> HIDE DEF r
  <2> QED
    BY <1>1, <2>1, <2>3
<1> QED
  BY <1>3, <1>4, <1>5, <1>6 DEF W!Start

\* The upsert of a page holds it: nobody else deletes its geo tags or contacts.
LEMMA UpsertPageLock == ASSUME PartsInv, LockInv, NEW w \in Writer, W!UpsertPage(w) PROVE LockInv'
<1> DEFINE q == tx[w]
           p == q.page
           newer == W!IsNotOlder(pages[p], q.source)
           R == W!RowsOf("geo", p, q.source.content, q.source.content)
                  \cup W!RowsOf("contacts", p, q.source.content, q.source.content)
           I == ({W!SourceRow(q.source)} \ rows) \cup (IF newer THEN R ELSE {})
           G == IF newer THEN In(rows, "geo", p) \cup In(rows, "contacts", p) ELSE {}
           src == IF newer THEN q.source ELSE pages[p]
           todo == IF newer THEN q.todo ELSE {}
           r == [q EXCEPT !.step = "next", !.source = src, !.todo = todo, !.gone = G, !.new = I]
<1>0. /\ q \in Transaction /\ q.step = "upsert"
      /\ \A v \in Writer \ {w} : W!HoldsPage(v) => tx[v].page # p
  BY Known DEF W!UpsertPage, W!Step, W!Others
<1>1. tx' = [tx EXCEPT ![w] = r] /\ rows' = rows
  BY DEF W!UpsertPage, W!Mine, In
<1>2. q.source \in Bronze /\ q.source.page = p /\ p \in Page /\ q.done = {} /\ q.seen = {}
  BY <1>0, Known DEF Placed
<1>3. \A s \in I : s.table \in Own \cup Sources
  <2>1. W!SourceRow(q.source).table \in Sources /\ q.source.content \in Content
    BY <1>2, SourceTyped
  <2>2. \A s \in R : s.table \in Own
    BY <1>2, <2>1, RowsTyped DEF Own, Kept
  <2> HIDE DEF R
  <2> QED
    BY <2>1, <2>2
<1>4. G \subseteq rows /\ \A s \in G : s.page = p /\ s.table \in Own
  BY DEF In, Own
<1>5. todo \subseteq W!ToSet(W!Optional)
  BY <1>0 DEF Transaction
<1> HIDE DEF I, G, src, todo
<1>6. /\ r.step = "next" /\ r.todo = todo /\ r.gone = G /\ r.new = I
      /\ r.done = {} /\ r.seen = {} /\ r.page = p
  BY <1>0, <1>2 DEF Transaction
<1> HIDE DEF r
<1>7. Sight(r) \subseteq rows
  BY <1>4, <1>6 DEF Sight
<1>8. InOrder(r)
  <2>1. \A s \in I : s.table \notin W!ToSet(W!Optional)
    BY <1>3 DEF Own, Sources, W!ToSet, W!Optional
  <2> QED
    BY <1>5, <1>6, <2>1 DEF InOrder
<1>9. ASSUME NEW v \in Writer \ {w} PROVE tx[v].gone \cap r.gone = {} /\ Nested(tx[v], r)
  <2>1. ASSUME NEW s \in tx[v].gone, s \in G PROVE FALSE
    <3>1. tx[v].page = p /\ (s.table \in tx[v].done \/ tx[v].save)
      BY <1>4, <2>1, Known DEF Writes
    <3>2. s.table \notin tx[v].done
      <4>1. tx[v] \in Transaction
        BY Known
      <4> QED
        BY <1>4, <2>1, <4>1 DEF Transaction, W!ToSet, W!Optional, Own
    <3>3. tx[v].step # "upsert"
      BY <2>1, Known DEF Placed
    <3> QED
      BY <1>0, <3>1, <3>2, <3>3 DEF W!HoldsPage, W!Step
  <2> QED
    BY <1>6, <2>1 DEF Nested
<1> QED
  BY <1>1, <1>7, <1>8, <1>9, OneLock

\* A DELETE starts: it sees all that any other transaction at this list sees.
LEMMA LookLock == ASSUME PartsInv, LockInv, NEW w \in Writer, W!Look(w) PROVE LockInv'
<1> DEFINE q == tx[w]
           t == TableOf(q.todo)
           M == In(rows, t, q.page)
           r == [q EXCEPT !.step = "delete", !.seen = M, !.done = q.done \cup {t}]
<1>0. q \in Transaction /\ q.step = "next" /\ q.todo # {}
  BY Known DEF W!Look, W!Step
<1>1. tx' = [tx EXCEPT ![w] = r] /\ rows' = rows
  BY Known DEF W!Look, W!Mine, In
<1>2. /\ t \in q.todo /\ t \in W!ToSet(W!Optional) /\ t \notin Own \cup Sources
      /\ \A u \in q.todo : Pos(t) <= Pos(u)
  <2>1. q.todo \subseteq W!ToSet(W!Optional)
    BY <1>0 DEF Transaction
  <2>2. t \in q.todo /\ \A u \in q.todo : Pos(t) <= Pos(u)
    BY <1>0, <2>1, TableIsFirst
  <2> QED
    BY <2>1, <2>2 DEF W!ToSet, W!Optional, Own, Sources
<1> HIDE DEF t, M
<1>3. /\ r.step = "delete" /\ r.seen = M /\ r.done = q.done \cup {t} /\ r.todo = q.todo
      /\ r.page = q.page /\ r.gone = q.gone /\ r.new = q.new
  BY <1>0 DEF Transaction
<1> HIDE DEF r
<1>4. q.seen = {} /\ q.done \cap q.todo = {}
  BY <1>0, Known DEF Placed
<1>5. Sight(q) \subseteq rows /\ InOrder(q)
  BY DEF LockInv
<1>6. Sight(r) \subseteq rows
  BY <1>3, <1>5 DEF Sight, M, In
<1>7. InOrder(r)
  <2>1. \A s \in q.gone : s.table \notin q.todo
    <3>1. q.todo \cap (Own \cup Sources) = {}
      BY <1>0 DEF Transaction, W!ToSet, W!Optional, Own, Sources
    <3> QED
      BY <1>4, <3>1, Known DEF Writes
  <2>2. \A u \in r.done, x \in r.todo : Pos(u) <= Pos(x)
    BY <1>2, <1>3, <1>5 DEF InOrder
  <2> QED
    BY <1>3, <1>5, <2>1, <2>2 DEF InOrder
<1>8. ASSUME NEW v \in Writer \ {w} PROVE tx[v].gone \cap r.gone = {} /\ Nested(tx[v], r)
  <2>1. tx[v].gone \cap q.gone = {} /\ Nested(tx[v], q) /\ Sight(tx[v]) \subseteq rows
    BY DEF LockInv
  <2>2. ASSUME tx[v].page = r.page, NEW u \in tx[v].done \cap r.done
        PROVE  \/ OfTable(Sight(tx[v]), u) \subseteq OfTable(Sight(r), u)
               \/ OfTable(Sight(r), u) \subseteq OfTable(Sight(tx[v]), u)
    <3>1. CASE u = t
      <4>1. \A s \in Sight(tx[v]) : s.page = tx[v].page
        BY Known DEF Writes, Placed, Sight
      <4>2. OfTable(Sight(tx[v]), t) \subseteq M
        BY <1>3, <2>1, <2>2, <4>1 DEF OfTable, M, In
      <4>3. M \subseteq OfTable(Sight(r), t)
        BY <1>3 DEF OfTable, M, In, Sight
      <4> QED
        BY <3>1, <4>2, <4>3
    <3>2. CASE u # t
      <4>1. OfTable(Sight(r), u) = OfTable(Sight(q), u)
        BY <1>3, <1>4, <3>2 DEF OfTable, Sight, M, In
      <4>2. u \in q.done
        BY <1>3, <2>2, <3>2
      <4> QED
        BY <1>3, <2>1, <2>2, <4>1, <4>2 DEF Nested
    <3> QED
      BY <3>1, <3>2
  <2> QED
    BY <1>3, <2>1, <2>2 DEF Nested
<1> QED
  BY <1>1, <1>6, <1>7, <1>8, OneLock

\* A DELETE ends: what it saw is gone.
LEMMA DeleteLock == ASSUME PartsInv, LockInv, NEW w \in Writer, W!Delete(w) PROVE LockInv'
<1> DEFINE q == tx[w]
           t == TableOf(q.todo)
           a == IF t = "links" THEN "entities" ELSE "insert"
           n == IF t = "links" THEN W!Mentions(q.text) ELSE {}
           r == [q EXCEPT !.step = a, !.seen = {}, !.gone = q.gone \cup q.seen, !.names = n]
<1>0. q \in Transaction /\ \A v \in Writer \ {w} : tx[v].gone \cap q.seen = {}
  BY Known DEF W!Delete, W!Others
<1>1. tx' = [tx EXCEPT ![w] = r] /\ rows' = rows
  BY Known DEF W!Delete
<1>2. a # "delete"
  OBVIOUS
<1> HIDE DEF a, n
<1>3. /\ r.step = a /\ r.done = q.done /\ r.todo = q.todo /\ r.new = q.new
      /\ r.page = q.page /\ r.gone = q.gone \cup q.seen /\ r.seen = {}
  BY <1>0 DEF Transaction
<1> HIDE DEF r
<1>4. Sight(r) = Sight(q)
  BY <1>3 DEF Sight
<1>5. InOrder(r)
  BY <1>2, <1>3 DEF LockInv, InOrder
<1>6. \A v \in Writer \ {w} : tx[v].gone \cap r.gone = {}
  BY <1>0, <1>3 DEF LockInv
<1> QED
  BY <1>1, <1>3, <1>4, <1>5, <1>6, SameLock

\* An entity is upserted.
LEMMA UpsertEntityLock == ASSUME PartsInv, LockInv, NEW w \in Writer, W!UpsertEntity(w) PROVE LockInv'
<1> DEFINE q == tx[w]
           n == q.names \ {W!Mention(w)}
           h == q.held \cup {W!Coalesced(W!EntityKey(w), W!NamesOf(q.text, W!Mention(w)))}
           r == [q EXCEPT !.names = n, !.held = h]
<1>1. tx' = [tx EXCEPT ![w] = r] /\ rows' = rows /\ q \in Transaction
  BY Known DEF W!UpsertEntity
<1> HIDE DEF n, h
<1>2. /\ r.step = q.step /\ r.done = q.done /\ r.todo = q.todo /\ r.new = q.new
      /\ r.page = q.page /\ r.gone = q.gone /\ r.seen = q.seen
  BY <1>1 DEF Transaction
<1> HIDE DEF r
<1>3. Sight(r) = Sight(q) /\ InOrder(r)
  BY <1>2 DEF Sight, LockInv, InOrder
<1>4. \A v \in Writer \ {w} : tx[v].gone \cap r.gone = {}
  BY <1>2 DEF LockInv
<1> QED
  BY <1>1, <1>2, <1>3, <1>4, SameLock

\* A list is inserted: its table is no longer to be done.
LEMMA InsertLock == ASSUME PartsInv, LockInv, NEW w \in Writer, W!Insert(w) PROVE LockInv'
<1> DEFINE q == tx[w]
           t == TableOf(q.todo)
           I == W!RowsOf(t, q.page, q.text, q.hash)
           r == [q EXCEPT !.step = "next", !.todo = q.todo \ {t}, !.new = q.new \cup I]
<1>0. q \in Transaction /\ q.step \in {"insert", "entities"}
  BY Known DEF W!Insert, W!Inserting, W!Step
<1>1. tx' = [tx EXCEPT ![w] = r] /\ rows' = rows
  BY Known DEF W!Insert, W!ToInsert
<1>2. q.todo # {} /\ q.text \in Content /\ q.page \in Page /\ q.hash \in Content
  BY <1>0, Known DEF Placed, InTable
<1>3. t \in Kept
  BY <1>0, <1>2, NextTable DEF Transaction, W!Optional, W!ToSet, Kept
<1>4. \A s \in I : s.table = t
  BY <1>2, <1>3, RowsTyped
<1> HIDE DEF I, t
<1>5. /\ r.step = "next" /\ r.done = q.done /\ r.todo = q.todo \ {t} /\ r.new = q.new \cup I
      /\ r.page = q.page /\ r.gone = q.gone /\ r.seen = q.seen
  BY <1>0 DEF Transaction
<1> HIDE DEF r
<1>6. Sight(r) = Sight(q)
  BY <1>5 DEF Sight
<1>7. InOrder(r)
  BY <1>4, <1>5 DEF LockInv, InOrder
<1>8. \A v \in Writer \ {w} : tx[v].gone \cap r.gone = {}
  BY <1>5 DEF LockInv
<1> QED
  BY <1>1, <1>5, <1>6, <1>7, <1>8, SameLock

\* Rows go that nobody else deletes: waiting DELETEs see them no longer.
LEMMA LessSeen ==
  ASSUME PartsInv, LockInv, NEW G, rows \ G \subseteq rows',
         \A v \in Writer :
           \/ tx'[v] = W!Idle
           \/ tx'[v] = [tx[v] EXCEPT !.seen = tx[v].seen \ G] /\ tx[v].gone \cap G = {}
  PROVE  LockInv'
<1> DEFINE Less(v) ==
      /\ tx'[v].step = tx[v].step /\ tx'[v].done = tx[v].done /\ tx'[v].todo = tx[v].todo
      /\ tx'[v].new = tx[v].new /\ tx'[v].page = tx[v].page /\ tx'[v].gone = tx[v].gone
      /\ tx'[v].seen = tx[v].seen \ G /\ tx[v].gone \cap G = {}
    Empty(v) ==
      tx'[v].done = {} /\ tx'[v].seen = {} /\ tx'[v].gone = {} /\ tx'[v].new = {}
<1>1. ASSUME NEW v \in Writer PROVE Empty(v) \/ Less(v)
  <2>1. CASE tx'[v] = W!Idle
    BY <2>1 DEF W!Idle
  <2>2. CASE tx'[v] = [tx[v] EXCEPT !.seen = tx[v].seen \ G] /\ tx[v].gone \cap G = {}
    <3>1. tx[v] \in Transaction
      BY Known
    <3> DEFINE q == tx[v]
               s == q.seen \ G
    <3>2. tx'[v] = [q EXCEPT !.seen = s]
      BY <2>2
    <3> QED
      BY <2>2, <3>1, <3>2 DEF Transaction
  <2> QED
    BY <2>1, <2>2
<1>2. ASSUME NEW v \in Writer, Less(v)
      PROVE  /\ Sight(tx'[v]) = Sight(tx[v]) \ G /\ InOrder(tx'[v])
             /\ \A t : OfTable(Sight(tx'[v]), t) = OfTable(Sight(tx[v]), t) \ G
  <2>1. Sight(tx'[v]) = Sight(tx[v]) \ G
    BY <1>2 DEF Sight
  <2>2. InOrder(tx'[v])
    BY <1>2 DEF LockInv, InOrder
  <2> QED
    BY <2>1, <2>2 DEF OfTable
<1>3. ASSUME NEW v \in Writer PROVE Sight(tx'[v]) \subseteq rows' /\ InOrder(tx'[v])
  <2>1. CASE Empty(v)
    BY <2>1 DEF Sight, InOrder
  <2>2. CASE Less(v)
    <3>1. Sight(tx[v]) \subseteq rows
      BY DEF LockInv
    <3> QED
      BY <1>2, <2>2, <3>1
  <2> QED
    BY <1>1, <2>1, <2>2
<1>4. ASSUME NEW u \in Writer, NEW v \in Writer, u # v
      PROVE  tx'[u].gone \cap tx'[v].gone = {} /\ Nested(tx'[u], tx'[v])
  <2>1. CASE Empty(u) \/ Empty(v)
    BY <2>1 DEF Nested
  <2>2. CASE Less(u) /\ Less(v)
    <3>1. tx[u].gone \cap tx[v].gone = {} /\ Nested(tx[u], tx[v])
      BY <1>4 DEF LockInv
    <3>2. Nested(tx'[u], tx'[v])
      <4> SUFFICES ASSUME tx'[u].page = tx'[v].page, NEW t \in tx'[u].done \cap tx'[v].done
                   PROVE  \/ OfTable(Sight(tx'[u]), t) \subseteq OfTable(Sight(tx'[v]), t)
                          \/ OfTable(Sight(tx'[v]), t) \subseteq OfTable(Sight(tx'[u]), t)
        BY DEF Nested
      <4>1. \/ OfTable(Sight(tx[u]), t) \subseteq OfTable(Sight(tx[v]), t)
            \/ OfTable(Sight(tx[v]), t) \subseteq OfTable(Sight(tx[u]), t)
        BY <2>2, <3>1 DEF Nested
      <4> QED
        BY <1>2, <2>2, <4>1
    <3> QED
      BY <2>2, <3>1, <3>2
  <2> QED
    BY <1>1, <2>1, <2>2
<1>5. LockInv' = (/\ \A v \in Writer : Sight(tx'[v]) \subseteq rows' /\ InOrder(tx'[v])
                  /\ \A u, v \in Writer : u # v => /\ tx'[u].gone \cap tx'[v].gone = {}
                                                   /\ Nested(tx'[u], tx'[v]))
  BY DEF LockInv, InOrder, Sight, Nested
<1> QED
  BY <1>3, <1>4, <1>5

\* Every step keeps the order and the sights.
LEMMA LockStep == PartsInv /\ LockInv /\ [W!Next]_W!vars => LockInv'
<1> SUFFICES ASSUME PartsInv, LockInv, [W!Next]_W!vars PROVE LockInv'
  OBVIOUS
<1>1. ASSUME NEW w \in Writer, W!Start(w) \/ W!Fail(w) PROVE LockInv'
  BY <1>1, FreshLock DEF W!Fail
<1>2. ASSUME NEW w \in Writer, W!Commit(w) PROVE LockInv'
  <2>1. rows \ tx[w].gone \subseteq rows'
    BY <1>2 DEF W!Commit
  <2>2. ASSUME NEW v \in Writer
        PROVE  \/ tx'[v] = W!Idle
               \/ /\ tx'[v] = [tx[v] EXCEPT !.seen = tx[v].seen \ tx[w].gone]
                  /\ tx[v].gone \cap tx[w].gone = {}
    <3>1. CASE v = w
      BY <1>2, <3>1 DEF W!Commit
    <3>2. CASE v # w
      <4>1. tx'[v] = [tx[v] EXCEPT !.seen = tx[v].seen \ tx[w].gone]
        BY <1>2, <3>2 DEF W!Commit
      <4>2. tx[v].gone \cap tx[w].gone = {}
        BY <3>2 DEF LockInv
      <4> QED
        BY <4>1, <4>2
    <3> QED
      BY <3>1, <3>2
  <2> QED
    BY <2>1, <2>2, LessSeen
<1>3. ASSUME NEW w \in Writer, W!Advance(w) PROVE LockInv'
  <2>1. CASE W!Refused(w) \/ W!Victim(w) \/ W!BeginReplace(w)
    BY <2>1, FreshLock DEF W!Refused, W!Victim
  <2>2. CASE W!UpsertPage(w) \/ W!Look(w) \/ W!Delete(w)
    BY <2>2, UpsertPageLock, LookLock, DeleteLock
  <2>3. CASE W!UpsertEntity(w) \/ W!Insert(w) \/ W!Commit(w)
    BY <1>2, <2>3, UpsertEntityLock, InsertLock
  <2> QED
    BY <1>3, <2>1, <2>2, <2>3 DEF W!Advance
<1>4. ASSUME NEW p \in Page, W!RemovePage(p) PROVE LockInv'
  <2> DEFINE G == {s \in rows : s.page = p}
  <2>1. rows \ G \subseteq rows'
    BY <1>4 DEF W!RemovePage
  <2>2. ASSUME NEW v \in Writer
        PROVE  tx'[v] = [tx[v] EXCEPT !.seen = tx[v].seen \ G] /\ tx[v].gone \cap G = {}
    <3>1. tx'[v] = [tx[v] EXCEPT !.seen = {s \in tx[v].seen : s.page # p}]
      BY <1>4 DEF W!RemovePage
    <3>2. {s \in tx[v].seen : s.page # p} = tx[v].seen \ G
      BY DEF LockInv, Sight
    <3>3. tx[v].page = p => tx[v].gone = {}
      BY <1>4 DEF W!RemovePage
    <3>4. tx[v].gone \cap G = {}
      BY <3>3, Known DEF Writes
    <3> QED
      BY <3>1, <3>2, <3>4
  <2> HIDE DEF G
  <2> QED
    BY <2>1, <2>2, LessSeen
<1>5. CASE UNCHANGED W!vars
  BY <1>5 DEF W!vars, LockInv, InOrder, Sight, Nested
<1> QED
  BY <1>1, <1>3, <1>4, <1>5 DEF W!Next

\* How far a transaction has come: the upsert, then each table's DELETE and INSERT.
Far(r) ==
  CASE r.step = "delete" -> 2 * Pos(TableOf(r.todo))
    [] r.step = "insert" -> 2 * Pos(TableOf(r.todo)) + 1
    [] OTHER -> 0
Waits(r) == r.step \in {"upsert", "delete", "insert"}

\* An INSERT that others wait for: it deleted rows of the list it is at.
Deletes(r, t, p) ==
  /\ r.step = "insert" /\ r.page = p /\ TableOf(r.todo) = t /\ t \in r.done
  /\ OfTable(r.gone, t) # {}

\* A transaction waits for one that has come further, or as far; then both insert the
\* same list.
LEMMA WaitsForFurther ==
  ASSUME PartsInv, LockInv, NEW w \in Writer, NEW v \in Writer, w # v, W!WaitsFor(w, v),
         Waits(tx[w]), Waits(tx[v])
  PROVE  \/ Far(tx[w]) < Far(tx[v])
         \/ /\ Far(tx[w]) = Far(tx[v]) /\ tx[w].step = "insert"
            /\ Deletes(tx[v], TableOf(tx[w].todo), tx[w].page)
<1> DEFINE q == tx[w]
           r == tx[v]
           t == TableOf(q.todo)
           u == TableOf(r.todo)
<1>1. q \in Transaction /\ r \in Transaction /\ Placed(q) /\ Placed(r) /\ Writes(r) /\ InOrder(r)
  BY Known DEF LockInv
<1>2. r.step \in {"delete", "insert"} =>
        /\ u \in r.todo /\ Pos(u) \in 1 .. 3
        /\ \A x \in r.done : Pos(x) <= Pos(u)
        /\ \A x \in W!ToSet(W!Optional) : Pos(x) = Pos(u) => x = u
  <2>1. ASSUME r.step \in {"delete", "insert"}
        PROVE  r.todo # {} /\ r.todo \subseteq W!ToSet(W!Optional)
    BY <1>1, <2>1 DEF Placed, InTable, Transaction
  <2>2. ASSUME r.step \in {"delete", "insert"}
        PROVE  u \in r.todo /\ Pos(u) \in 1 .. 3
    BY <2>1, <2>2, TableIsFirst
  <2>3. ASSUME NEW x \in W!ToSet(W!Optional), NEW y \in W!ToSet(W!Optional), Pos(x) = Pos(y)
        PROVE  x = y
    BY <2>3 DEF W!ToSet, W!Optional, Pos
  <2> HIDE DEF u
  <2> QED
    BY <1>1, <2>1, <2>2, <2>3 DEF InOrder
<1>3. q.step \in {"delete", "insert"} =>
        q.page \in Page /\ t \in W!ToSet(W!Optional) /\ t \notin Own \cup Sources /\ Pos(t) \in 1 .. 3
  <2>1. ASSUME q.step \in {"delete", "insert"}
        PROVE  q.page \in Page /\ q.todo # {} /\ q.todo \subseteq W!ToSet(W!Optional)
    BY <1>1, <2>1 DEF Placed, InTable, Transaction
  <2>2. ASSUME q.step \in {"delete", "insert"}
        PROVE  t \in W!ToSet(W!Optional) /\ Pos(t) \in 1 .. 3
    BY <2>1, <2>2, TableIsFirst
  <2> HIDE DEF t
  <2> QED
    BY <2>1, <2>2 DEF W!ToSet, W!Optional, Own, Sources
<1>4. W!Table(w) = t
  BY Known
<1> HIDE DEF t, u
\* A row of w's list in v's hands.
<1>5. ASSUME NEW s \in r.new \cup r.gone, s.table = t, s.page = q.page, q.step \in {"delete", "insert"}
      PROVE  /\ r.page = q.page /\ t \in r.done /\ r.step \in {"delete", "insert"}
             /\ Pos(t) <= Pos(u)
             /\ r.step = "delete" \/ s \in r.new => t # u
  <2>1. r.page = q.page /\ t \in r.done
    BY <1>1, <1>3, <1>5 DEF Writes
  <2>2. r.step \in {"delete", "insert"}
    BY <1>1, <2>1 DEF Placed, Waits
  <2>3. r.step = "delete" \/ s \in r.new => t \notin r.todo
    BY <1>1, <1>5 DEF InOrder
  <2> QED
    BY <1>2, <2>1, <2>2, <2>3
<1>6. CASE q.step = "upsert"
  <2>1. r.step # "upsert"
    BY <1>6 DEF W!WaitsFor, W!HoldsPage, W!Step, W!Inserting
  <2>2. Far(q) = 0
    BY <1>6 DEF Far
  <2>3. Far(r) > 0
    BY <1>2, <2>1 DEF Far, Waits, u
  <2> QED
    BY <2>2, <2>3
<1>7. CASE q.step = "delete"
  <2>1. PICK s \in r.gone : s \in q.seen
    BY <1>7 DEF W!WaitsFor, W!Step, W!Inserting
  <2>2. s.table = t /\ s.page = q.page
    BY <1>1, <1>7, <2>1 DEF Placed, t
  <2>3. /\ r.step \in {"delete", "insert"} /\ Pos(t) <= Pos(u) /\ t \in W!ToSet(W!Optional)
        /\ r.step = "delete" => t # u
    BY <1>3, <1>5, <1>7, <2>1, <2>2
  <2>4. r.step = "delete" => Pos(t) # Pos(u)
    BY <1>2, <2>3
  <2>5. Far(q) = 2 * Pos(t)
    BY <1>7 DEF Far, t
  <2>6. Far(r) = IF r.step = "delete" THEN 2 * Pos(u) ELSE 2 * Pos(u) + 1
    BY <2>3 DEF Far, u
  <2>7. Pos(t) \in 1 .. 3 /\ Pos(u) \in 1 .. 3
    BY <1>2, <1>3, <1>7, <2>3
  <2> QED
    BY <2>3, <2>4, <2>5, <2>6, <2>7
<1>8. CASE q.step = "insert"
  <2>1. q.text \in Content /\ q.hash \in Content /\ q.page \in Page /\ t \in Kept
    <3>1. q.text \in Content /\ q.hash \in Content /\ q.page \in Page
      BY <1>1, <1>8 DEF Placed
    <3> QED
      BY <1>3, <1>8, <3>1 DEF W!ToSet, W!Optional, Kept
  <2>2. \E x \in W!RowsOf(t, q.page, q.text, q.hash), s \in r.new \cup r.gone : W!SameKey(x, s)
    BY <1>4, <1>8 DEF W!WaitsFor, W!Step, W!InsertWaitsFor, W!Clash, W!ToInsert
  <2>3. PICK s \in r.new \cup r.gone : s.table = t /\ s.page = q.page
    BY <2>1, <2>2, RowsTyped DEF W!SameKey
  <2>4. /\ r.page = q.page /\ t \in r.done /\ r.step \in {"delete", "insert"} /\ Pos(t) <= Pos(u)
        /\ r.step = "delete" \/ s \in r.new => t # u
    BY <1>5, <1>8, <2>3
  <2>5. Pos(t) = Pos(u) => t = u
    BY <1>2, <1>3, <1>8, <2>4
  <2>6. Pos(t) \in 1 .. 3 /\ Pos(u) \in 1 .. 3
    BY <1>2, <1>3, <1>8, <2>4
  <2>7. Far(q) = 2 * Pos(t) + 1
    BY <1>8 DEF Far, t
  <2>8. Far(r) = IF r.step = "delete" THEN 2 * Pos(u) ELSE 2 * Pos(u) + 1
    BY <2>4 DEF Far, u
  <2>9. Far(q) < Far(r) \/ (Far(q) = Far(r) /\ r.step = "insert" /\ t = u)
    BY <2>4, <2>5, <2>6, <2>7, <2>8
  <2>10. r.step = "insert" /\ t = u => Deletes(r, t, q.page)
    BY <2>3, <2>4 DEF Deletes, OfTable, u
  <2> QED
    BY <1>8, <2>9, <2>10 DEF t
<1> QED
  BY <1>6, <1>7, <1>8 DEF Waits

\* So where all wait for each other, some wait for an entity.
LEMMA OrderedLocks == PartsInv /\ LockInv => W!DeadlocksAreEntities
<1> SUFFICES ASSUME PartsInv, LockInv, NEW D \in SUBSET Writer, W!Deadlocked(D),
                    \A w \in D : tx[w].step # "entities"
             PROVE  FALSE
  BY DEF W!DeadlocksAreEntities, W!Step
<1>1. ASSUME NEW w \in D PROVE Waits(tx[w]) /\ \E v \in D \ {w} : W!WaitsFor(w, v)
  <2>1. \E v \in D \ {w} : W!WaitsFor(w, v)
    BY DEF W!Deadlocked
  <2> QED
    BY <2>1 DEF W!WaitsFor, W!Step, W!Inserting, Waits
<1>2. ASSUME NEW w \in D PROVE Far(tx[w]) \in 0 .. 7
  <2>1. tx[w] \in Transaction /\ Placed(tx[w])
    BY Known
  <2>2. CASE tx[w].step = "upsert"
    BY <2>2 DEF Far
  <2>3. CASE tx[w].step \in {"delete", "insert"}
    <3>1. tx[w].todo # {} /\ tx[w].todo \subseteq W!ToSet(W!Optional)
      BY <2>1, <2>3 DEF Placed, InTable, Transaction
    <3>2. Pos(TableOf(tx[w].todo)) \in 1 .. 3
      BY <3>1, TableIsFirst
    <3> QED
      BY <2>3, <3>2 DEF Far
  <2> QED
    BY <1>1, <2>2, <2>3 DEF Waits
\* One of those that have come furthest.
<1>3. PICK w \in D : \A v \in D : Far(tx[v]) <= Far(tx[w])
  <2> DEFINE I == {7 - Far(tx[v]) : v \in D}
  <2>1. I \subseteq Nat /\ I # {}
    BY <1>2 DEF W!Deadlocked
  <2>2. PICK i \in I : \A j \in I : i <= j
    BY <2>1, FirstIs
  <2>3. PICK w \in D : i = 7 - Far(tx[w])
    BY <2>2
  <2>4. ASSUME NEW v \in D PROVE Far(tx[v]) <= Far(tx[w])
    <3>1. 7 - Far(tx[w]) <= 7 - Far(tx[v])
      BY <2>2, <2>3
    <3> QED
      BY <1>2, <3>1
  <2> QED
    BY <2>4
<1>4. ASSUME NEW x \in D, Far(tx[x]) = Far(tx[w])
      PROVE  \E v \in D \ {x} : /\ Far(tx[v]) = Far(tx[w]) /\ tx[x].step = "insert"
                                /\ Deletes(tx[v], TableOf(tx[x].todo), tx[x].page)
  <2>1. PICK v \in D \ {x} : W!WaitsFor(x, v)
    BY <1>1
  <2>2. Far(tx[v]) <= Far(tx[x]) /\ Far(tx[v]) \in 0 .. 7 /\ Far(tx[x]) \in 0 .. 7
    BY <1>2, <1>3, <1>4
  <2>3. ~(Far(tx[x]) < Far(tx[v]))
    BY <2>2
  <2>4. /\ Far(tx[x]) = Far(tx[v]) /\ tx[x].step = "insert"
        /\ Deletes(tx[v], TableOf(tx[x].todo), tx[x].page)
    BY <1>1, <2>1, <2>3, WaitsForFurther
  <2> QED
    BY <1>4, <2>4
<1> DEFINE t == TableOf(tx[w].todo)
           p == tx[w].page
<1>5. PICK v \in D \ {w} : Far(tx[v]) = Far(tx[w]) /\ Deletes(tx[v], t, p)
  BY <1>4
<1>6. PICK x \in D \ {v} : Deletes(tx[x], TableOf(tx[v].todo), tx[v].page)
  BY <1>4, <1>5
<1>7. Deletes(tx[x], t, p)
  BY <1>5, <1>6 DEF Deletes
\* v and x have both deleted rows of one list: the later one had seen the earlier one's.
<1> HIDE DEF t, p
<1>8. /\ Sight(tx[v]) = tx[v].gone /\ Sight(tx[x]) = tx[x].gone
  BY <1>5, <1>7, Known DEF Deletes, Placed, Sight
<1>9. tx[v].gone \cap tx[x].gone = {} /\ Nested(tx[v], tx[x])
  BY <1>6 DEF LockInv
<1> QED
  BY <1>5, <1>7, <1>8, <1>9 DEF Deletes, Nested, OfTable

\* Whatever sessions save and replace at once, a deadlock needs an entity: tables are
\* taken in one order, and within a list the later transaction waits for the earlier one.
THEOREM TablesAreOrdered == W!Spec => []W!DeadlocksAreEntities
<1>1. W!Init => LockInv
  <2>1. W!Idle.done = {} /\ W!Idle.seen = {} /\ W!Idle.gone = {} /\ W!Idle.new = {}
    BY DEF W!Idle
  <2>2. ASSUME W!Init, NEW w \in Writer PROVE tx[w] = W!Idle
    BY <2>2 DEF W!Init
  <2>3. ASSUME W!Init, NEW v \in Writer, NEW w \in Writer
        PROVE  /\ Sight(tx[w]) \subseteq rows /\ InOrder(tx[w])
               /\ tx[v].gone \cap tx[w].gone = {} /\ Nested(tx[v], tx[w])
    BY <2>1, <2>2, <2>3, FreshIs
  <2> QED
    BY <2>3 DEF LockInv
<1> QED
  BY <1>1, LockStep, OrderedLocks, PartsInvariant, PTL DEF W!Spec
=============================================================================
