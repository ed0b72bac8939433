---------------------------- MODULE BronzeProofs ----------------------------
(***************************************************************************)
(* Proofs about Bronze, for any documents, workers, chunk and batch sizes. *)
(***************************************************************************)
EXTENDS Bronze, FiniteSetTheorems, TLAPS

\* A worker judges a row of its own batch.
InHand == \A w \in Worker : verdict[w] # None => verdict[w].row \in claimed[w]

\* A row in hand is in Bronze, and open unless two had it in hand.
HeldIsOpen ==
  \A w \in Worker : \A o \in claimed[w] :
    /\ processing_status[o] # "absent"
    /\ o \notin shared => processing_status[o] \in {"PROCESSING", "UNPROCESSED"}

HeldOnce ==
  \A v, w \in Worker : v # w => claimed[v] \cap claimed[w] \subseteq shared

TypeInv == TypeOK /\ InHand
QueueInv == TypeInv /\ HeldIsOpen /\ HeldOnce

-----------------------------------------------------------------------------
(* Type correctness.                                                       *)

LEMMA RestingTyped == Resting \in Pass
<1>1. Cardinality(Object) \in Nat
  BY BronzeAssumption, FS_CardinalityType
<1> QED
  BY <1>1 DEF Resting, Pass, Time

LEMMA TimeNat == Time \subseteq Nat
BY DEF Time

LEMMA TypeInit == Init => TypeInv
<1> SUFFICES ASSUME Init PROVE TypeInv
  OBVIOUS
<1>1. Cardinality(Object) \in Nat
  BY BronzeAssumption, FS_CardinalityType
<1>2. 0 \in Time /\ 0 \in 0 .. MaxFaults /\ "absent" \in Status
  BY <1>1, BronzeAssumption DEF Time, Status
<1>3. pass \in Pass /\ gap \in BOOLEAN
  BY RestingTyped DEF Init
<1>4. state \in [last_modified : Time, finished : BOOLEAN]
  BY <1>2 DEF Init
<1> QED
  BY <1>2, <1>3, <1>4 DEF Init, TypeInv, TypeOK, InHand

\* A new status for some rows.
LEMMA StatusTyped ==
  ASSUME TypeOK, NEW rows, NEW s \in Status, SetStatus(rows, s)
  PROVE  processing_status' \in [Object -> Status]
BY DEF TypeOK, SetStatus

LEMMA DoneTyped ==
  ASSUME TypeInv, NEW w \in Worker, Done(w)
  PROVE  /\ claimed' \in [Worker -> SUBSET Object]
         /\ verdict' \in [Worker -> Verdict \cup {None}]
         /\ InHand'
BY DEF TypeInv, TypeOK, InHand, Done

LEMMA Statuses ==
  {"PROCESSED", "FAILED", "QUARANTINED", "UNPROCESSED", "PROCESSING"} \subseteq Status
BY DEF Status, Settled

LEMMA HandRow ==
  ASSUME TypeInv, NEW w \in Worker, verdict[w].outcome \in {"clean", "infected", "error"}
  PROVE  verdict[w].row \in Object /\ verdict[w].row \in claimed[w]
<1>1. verdict[w] # None
  BY DEF None
<1> QED
  BY <1>1 DEF TypeInv, TypeOK, InHand

LEMMA SomeRow ==
  ASSUME NEW S, NEW u \in {{}} \cup {{o} : o \in S}
  PROVE  u \subseteq S /\ (u = {} => Cardinality(u) = 0) /\ (u # {} => Cardinality(u) = 1)
BY FS_EmptySet, FS_Singleton

LEMMA FaultTyped ==
  ASSUME TypeOK, Fault
  PROVE  faults' \in 0 .. MaxFaults
BY BronzeAssumption DEF TypeOK, Fault

LEMMA TypeStep == TypeInv /\ [Next]_vars => TypeInv'
<1> SUFFICES ASSUME TypeInv, [Next]_vars PROVE TypeInv'
  OBVIOUS
<1> USE Statuses
<1>1. CASE UNCHANGED vars
  BY <1>1 DEF vars, TypeInv, TypeOK, InHand
<1>2. CASE StartRun \/ FinishRun
  BY <1>2 DEF StartRun, FinishRun, TypeInv, TypeOK, InHand, intake, queue
<1>3. ASSUME NEW o \in Object, PutDocument(o) PROVE TypeInv'
  <2>1. modified' \in [Object -> Time] /\ malformed' \subseteq Object
    BY <1>3 DEF PutDocument, TypeInv, TypeOK
  <2>2. faults' \in 0 .. MaxFaults
    BY <1>3, FaultTyped DEF PutDocument, TypeInv, TypeOK
  <2> QED
    BY <1>3, <2>1, <2>2 DEF PutDocument, TypeInv, TypeOK, InHand, intake, queue
<1>4. CASE BeginPass \/ List \/ EndPass
  <2>1. pass' \in Pass
    <3>1. CASE BeginPass
      <4>1. (manifest = "terminal") \in BOOLEAN
        OBVIOUS
      <4> QED
        BY <3>1, <4>1, RestingTyped DEF BeginPass, TypeInv, TypeOK, Pass
    <3>2. CASE List
      <4>1. Pending(pass.newest) \in SUBSET Object
        BY DEF Pending
      <4> QED
        BY <3>2, <4>1 DEF List, TypeInv, TypeOK, Pass
    <3>3. CASE EndPass
      BY <3>3, RestingTyped DEF EndPass
    <3> QED
      BY <1>4, <3>1, <3>2, <3>3
  <2>2. state' \in [last_modified : Time, finished : BOOLEAN]
    BY <1>4 DEF BeginPass, List, EndPass, TypeInv, TypeOK
  <2> QED
    BY <1>4, <2>1, <2>2 DEF BeginPass, List, EndPass, TypeInv, TypeOK, InHand, bucket, queue
<1>5. CASE LoadChunk
  <2> DEFINE chunk == NextChunk(pass.pending)
             left == pass.pending \ chunk
  <2>1. PICK newest \in Latest({pass.newest} \cup {modified[o] : o \in chunk}),
             unread \in {{}} \cup {{o} : o \in chunk \ malformed} :
          /\ unread # {} => faults < MaxFaults
          /\ faults' = faults + Cardinality(unread)
          /\ processing_status' = Loaded(chunk \ (unread \cup (chunk \cap malformed)))
          /\ IF unread \cup (chunk \cap malformed) = {}
               THEN /\ state' = [state EXCEPT !.last_modified = newest]
                    /\ pass' = [pass EXCEPT !.pending = left, !.newest = newest,
                                              !.moved = @ \/ newest > pass.newest]
                    /\ UNCHANGED gap
               ELSE pass' = Resting /\ Cut(pass.pending) /\ UNCHANGED state
    BY <1>5 DEF LoadChunk
  <2>2. chunk \subseteq Object /\ newest \in Time
    <3>1. pass.pending \subseteq Object /\ pass.newest \in Time
      BY DEF TypeInv, TypeOK, Pass
    <3>2. chunk \subseteq Object
      BY <3>1 DEF NextChunk
    <3>3. {pass.newest} \cup {modified[o] : o \in chunk} \subseteq Time
      BY <3>1, <3>2 DEF TypeInv, TypeOK
    <3> QED
      BY <3>2, <3>3 DEF Latest
  <2>3. processing_status' \in [Object -> Status]
    BY <2>1 DEF Loaded, TypeInv, TypeOK
  <2>4. faults' \in 0 .. MaxFaults
    <3>1. (unread = {} => Cardinality(unread) = 0) /\ (unread # {} => Cardinality(unread) = 1)
      BY <2>1, SomeRow
    <3> QED BY <2>1, <3>1, BronzeAssumption DEF TypeInv, TypeOK
  <2>5. pass' \in Pass
    <3>1. Resting \in Pass
      BY RestingTyped
    <3>3. (pass.moved \/ newest > pass.newest) \in BOOLEAN
      BY DEF TypeInv, TypeOK
    <3>4. left \in SUBSET Object
      BY DEF TypeInv, TypeOK, Pass
    <3> QED
      BY <2>1, <2>2, <3>1, <3>3, <3>4 DEF TypeInv, TypeOK, Pass
  <2>6. state' \in [last_modified : Time, finished : BOOLEAN]
    BY <2>1, <2>2 DEF TypeInv, TypeOK
  <2>7. gap' \in BOOLEAN
    BY <2>1 DEF Cut, TypeInv, TypeOK
  <2> QED
    BY <1>5, <2>3, <2>4, <2>5, <2>6, <2>7 DEF LoadChunk, TypeInv, TypeOK, InHand, bucket
<1>6. CASE PassDies
  <2>1. Resting \in Pass
    BY RestingTyped
  <2>2. faults' \in 0 .. MaxFaults /\ gap' \in BOOLEAN
    BY <1>6, FaultTyped DEF PassDies, Cut, TypeInv, TypeOK
  <2> QED
    BY <1>6, <2>1, <2>2 DEF PassDies, TypeInv, TypeOK, InHand, bucket, queue
<1>7. ASSUME NEW w \in Worker, Claim(w) PROVE TypeInv'
  <2>1. WithStatus("UNPROCESSED") \subseteq Object
    BY DEF WithStatus
  <2>2. /\ claimed' \in [Worker -> SUBSET Object] /\ shared' \subseteq Object
        /\ processing_status' \in [Object -> Status]
    BY <1>7, <2>1 DEF Claim, SetStatus, TypeInv, TypeOK
  <2>3. InHand'
    BY <1>7 DEF Claim, TypeInv, TypeOK, InHand
  <2> QED
    BY <1>7, <2>2, <2>3 DEF Claim, TypeInv, TypeOK, bucket, intake
<1>8. ASSUME NEW w \in Worker, Transform(w) PROVE TypeInv'
  <2>1. PICK row \in Earliest(claimed[w]), outcome \in {"clean", "infected", "error"} :
          verdict' = [verdict EXCEPT ![w] = [row |-> row, outcome |-> outcome]]
    BY <1>8 DEF Transform
  <2>2. row \in claimed[w] /\ row \in Object
    BY DEF Earliest, TypeInv, TypeOK
  <2>3. [row |-> row, outcome |-> outcome] \in Verdict
    BY <2>2 DEF Verdict
  <2>4. verdict' \in [Worker -> Verdict \cup {None}]
    BY <2>1, <2>3 DEF TypeInv, TypeOK
  <2>5. InHand'
    BY <1>8, <2>1, <2>2 DEF Transform, TypeInv, TypeOK, InHand
  <2> QED
    BY <1>8, <2>4, <2>5 DEF Transform, TypeInv, TypeOK, bucket, intake
<1>9. ASSUME NEW w \in Worker, Save(w) \/ Quarantine(w) \/ MarkFailed(w) PROVE TypeInv'
  <2>1. Done(w) /\ verdict[w].outcome \in {"clean", "infected", "error"}
    BY <1>9 DEF Save, Quarantine, MarkFailed
  <2>2. verdict[w].row \in Object
    BY <2>1, HandRow
  <2>3. processing_status' \in [Object -> Status]
    BY <1>9, StatusTyped DEF Save, Quarantine, MarkFailed, TypeInv
  <2>4. pages' \subseteq Object
    BY <1>9, <2>2 DEF Save, Quarantine, MarkFailed, TypeInv, TypeOK
  <2>5. faults' \in 0 .. MaxFaults
    BY <1>9, FaultTyped DEF Save, Quarantine, MarkFailed, TypeInv, TypeOK
  <2>6. UNCHANGED <<bucket, intake, shared>>
    BY <1>9 DEF Save, Quarantine, MarkFailed
  <2> QED
    BY <2>1, <2>3, <2>4, <2>5, <2>6, DoneTyped DEF TypeInv, TypeOK, bucket, intake
<1>10. ASSUME NEW w \in Worker, WorkerDies(w) PROVE TypeInv'
  <2>1. faults' \in 0 .. MaxFaults
    BY <1>10, FaultTyped DEF WorkerDies, TypeInv
  <2> QED
    BY <1>10, <2>1 DEF WorkerDies, TypeInv, TypeOK, InHand, bucket, intake
<1>11. CASE ReleaseStale
  <2>1. PICK slow \in {{}} \cup {{o} : o \in Held} :
          LET stale == (WithStatus("PROCESSING") \ Held) \cup (slow \cap WithStatus("PROCESSING"))
          IN /\ stale # {} /\ (slow # {} => faults < MaxFaults)
             /\ faults' = faults + Cardinality(slow) /\ SetStatus(stale, "UNPROCESSED")
    BY <1>11 DEF ReleaseStale
  <2>2. (slow = {} => Cardinality(slow) = 0) /\ (slow # {} => Cardinality(slow) = 1)
    BY <2>1, SomeRow
  <2>3. faults' \in 0 .. MaxFaults
    BY <2>1, <2>2, BronzeAssumption DEF TypeInv, TypeOK
  <2>4. processing_status' \in [Object -> Status]
    BY <2>1, StatusTyped DEF TypeInv
  <2> QED
    BY <1>11, <2>3, <2>4 DEF ReleaseStale, TypeInv, TypeOK, InHand, bucket, intake
<1>12. ASSUME NEW o \in Object, SaveTransformed(o) PROVE TypeInv'
  <2>1. processing_status' \in [Object -> Status]
    BY <1>12, StatusTyped DEF SaveTransformed, TypeInv
  <2> QED
    BY <1>12, <2>1 DEF SaveTransformed, TypeInv, TypeOK, InHand, bucket, intake
<1> QED
  BY <1>1, <1>2, <1>3, <1>4, <1>5, <1>6, <1>7, <1>8, <1>9, <1>10, <1>11, <1>12
  DEF Next, Scrape, Failures, Ingest, Batch

\* Type correctness of the intake, the queue and what workers have in hand.
THEOREM Typed == Spec => []TypeOK
<1>1. TypeInv => TypeOK
  BY DEF TypeInv
<1> QED
  BY <1>1, TypeInit, TypeStep, PTL DEF Spec

-----------------------------------------------------------------------------
(* Rows, batches and pages.                                                *)

\* What the steps of a worker with a verdict do to the rows.
LEMMA JudgedRow ==
  ASSUME TypeInv, NEW w \in Worker, Save(w) \/ Quarantine(w) \/ MarkFailed(w)
  PROVE  /\ verdict[w].row \in claimed[w] /\ verdict[w].row \in Object
         /\ claimed' = [claimed EXCEPT ![w] = @ \ {verdict[w].row}]
         /\ \A o \in Object \ {verdict[w].row} :
              processing_status'[o] = processing_status[o]
         /\ processing_status'[verdict[w].row] \in Settled
         /\ shared' = shared
<1>1. Done(w) /\ verdict[w].outcome \in {"clean", "infected", "error"}
  BY DEF Save, Quarantine, MarkFailed
<1>2. \E s \in Settled : SetStatus({verdict[w].row}, s)
  BY DEF Save, Quarantine, MarkFailed, Settled
<1> QED
  BY <1>1, <1>2, HandRow DEF Done, SetStatus, Save, Quarantine, MarkFailed

LEMMA QueueStep == QueueInv /\ [Next]_vars => HeldIsOpen' /\ HeldOnce'
<1> SUFFICES ASSUME QueueInv, [Next]_vars PROVE HeldIsOpen' /\ HeldOnce'
  OBVIOUS
<1> USE DEF QueueInv
<1>0. /\ claimed \in [Worker -> SUBSET Object]
      /\ processing_status \in [Object -> Status]
  BY DEF TypeInv, TypeOK
<1>1. CASE UNCHANGED <<processing_status, claimed, shared>>
  BY <1>1 DEF HeldIsOpen, HeldOnce
<1>2. CASE LoadChunk
  <2>1. PICK rows : processing_status' = Loaded(rows)
    BY <1>2 DEF LoadChunk
  <2>2. UNCHANGED <<claimed, shared>>
    BY <1>2 DEF LoadChunk
  <2>3. \A o \in Object : processing_status[o] # "absent" => processing_status'[o] = processing_status[o]
    BY <2>1 DEF Loaded
  <2> QED
    BY <1>0, <2>2, <2>3 DEF HeldIsOpen, HeldOnce
<1>3. ASSUME NEW w \in Worker, Claim(w) PROVE HeldIsOpen' /\ HeldOnce'
  <2> DEFINE queued == WithStatus("UNPROCESSED")
             batch == {o \in queued : Cardinality({p \in queued : Older(p, o)}) < Limit}
  <2>1. /\ claimed[w] = {} /\ claimed' = [claimed EXCEPT ![w] = batch]
        /\ SetStatus(batch, "PROCESSING") /\ shared' = shared \cup (batch \cap Held)
    BY <1>3 DEF Claim
  <2>2. batch \subseteq Object /\ \A o \in batch : processing_status[o] = "UNPROCESSED"
    BY DEF WithStatus
  <2> HIDE DEF batch
  <2>3. processing_status' =
          [o \in Object |-> IF o \in batch THEN "PROCESSING" ELSE processing_status[o]]
    BY <2>1 DEF SetStatus
  <2>4. \A v \in Worker : v # w => claimed[v] \subseteq Held /\ claimed'[v] = claimed[v]
    BY <1>0, <2>1 DEF Held
  <2>5. claimed'[w] = batch
    BY <1>0, <2>1
  <2>6. HeldIsOpen'
    <3> SUFFICES ASSUME NEW v \in Worker, NEW o \in claimed'[v]
                 PROVE  /\ processing_status'[o] # "absent"
                        /\ o \notin shared' => processing_status'[o] \in {"PROCESSING", "UNPROCESSED"}
      BY DEF HeldIsOpen
    <3>1. CASE v = w
      BY <3>1, <2>1, <2>2, <2>5 DEF SetStatus
    <3>2. CASE v # w
      <4>1. o \in claimed[v] /\ o \in Object
        BY <1>0, <2>4, <3>2
      <4> QED
        BY <4>1, <2>1, <2>3 DEF HeldIsOpen
    <3> QED BY <3>1, <3>2
  <2>7. HeldOnce'
    BY <2>1, <2>4, <2>5 DEF HeldOnce
  <2> QED BY <2>6, <2>7
<1>4. ASSUME NEW w \in Worker, Save(w) \/ Quarantine(w) \/ MarkFailed(w)
      PROVE  HeldIsOpen' /\ HeldOnce'
  <2> DEFINE row == verdict[w].row
  <2>1. /\ row \in claimed[w] /\ row \in Object
        /\ claimed' = [claimed EXCEPT ![w] = @ \ {row}]
        /\ \A o \in Object \ {row} : processing_status'[o] = processing_status[o]
        /\ processing_status'[row] \in Settled /\ shared' = shared
    BY <1>4, JudgedRow
  <2> HIDE DEF row
  <2>2. \A v \in Worker : claimed'[v] \subseteq claimed[v] /\ (row \in claimed'[v] => v # w)
    BY <1>0, <2>1
  <2>3. \A v \in Worker : row \in claimed'[v] => row \in shared
    BY <2>1, <2>2 DEF HeldOnce
  <2>4. "absent" \notin Settled
    BY DEF Settled
  <2>5. HeldIsOpen'
    <3> SUFFICES ASSUME NEW v \in Worker, NEW o \in claimed'[v]
                 PROVE  /\ processing_status'[o] # "absent"
                        /\ o \notin shared' => processing_status'[o] \in {"PROCESSING", "UNPROCESSED"}
      BY DEF HeldIsOpen
    <3>1. CASE o = row
      BY <3>1, <2>1, <2>3, <2>4
    <3>2. CASE o # row
      <4>1. o \in claimed[v] /\ o \in Object
        BY <1>0, <2>2
      <4> QED
        BY <4>1, <3>2, <2>1 DEF HeldIsOpen
    <3> QED BY <3>1, <3>2
  <2>6. HeldOnce'
    BY <2>1, <2>2 DEF HeldOnce
  <2> QED BY <2>5, <2>6
<1>5. ASSUME NEW w \in Worker, WorkerDies(w) PROVE HeldIsOpen' /\ HeldOnce'
  BY <1>0, <1>5 DEF WorkerDies, HeldIsOpen, HeldOnce
<1>6. CASE ReleaseStale
  <2>1. UNCHANGED <<claimed, shared>>
    BY <1>6 DEF ReleaseStale
  <2>2. \A o \in Object : \/ processing_status'[o] = processing_status[o]
                         \/ processing_status'[o] = "UNPROCESSED"
    BY <1>0, <1>6 DEF ReleaseStale, SetStatus
  <2> QED
    BY <1>0, <2>1, <2>2 DEF HeldIsOpen, HeldOnce
<1>7. ASSUME NEW o \in Object, SaveTransformed(o) PROVE HeldIsOpen' /\ HeldOnce'
  <2>1. /\ SetStatus({o}, "PROCESSED") /\ claimed' = claimed
        /\ shared' = IF processing_status[o] = "absent" THEN shared ELSE shared \cup {o}
    BY <1>7 DEF SaveTransformed
  <2>2. \A p \in Object \ {o} : processing_status'[p] = processing_status[p]
    BY <2>1 DEF SetStatus
  <2>3. processing_status'[o] = "PROCESSED"
    BY <2>1 DEF SetStatus
  <2>4. HeldIsOpen'
    <3> SUFFICES ASSUME NEW v \in Worker, NEW p \in claimed'[v]
                 PROVE  /\ processing_status'[p] # "absent"
                        /\ p \notin shared' => processing_status'[p] \in {"PROCESSING", "UNPROCESSED"}
      BY DEF HeldIsOpen
    <3>1. p \in claimed[v] /\ p \in Object
      BY <1>0, <2>1
    <3>2. CASE p = o
      BY <3>1, <3>2, <2>1, <2>3 DEF HeldIsOpen
    <3>3. CASE p # o
      BY <3>1, <3>3, <2>1, <2>2 DEF HeldIsOpen
    <3> QED BY <3>2, <3>3
  <2>5. HeldOnce'
    BY <2>1 DEF HeldOnce
  <2> QED BY <2>4, <2>5
<1> QED
  <2>1. CASE Scrape \/ BeginPass \/ List \/ EndPass \/ PassDies
    BY <1>1, <2>1 DEF Scrape, StartRun, FinishRun, PutDocument, BeginPass, List, EndPass, PassDies, queue
  <2>2. ASSUME NEW w \in Worker, Transform(w) PROVE HeldIsOpen' /\ HeldOnce'
    BY <1>1, <2>2 DEF Transform
  <2>3. CASE UNCHANGED vars
    BY <1>1, <2>3 DEF vars
  <2> QED
    BY <1>2, <1>3, <1>4, <1>5, <1>6, <1>7, <2>1, <2>2, <2>3 DEF Next, Failures, Ingest, Batch

LEMMA QueueInvariance == Spec => []QueueInv
<1>1. Init => QueueInv
  BY TypeInit DEF Init, QueueInv, HeldIsOpen, HeldOnce
<1>2. QueueInv /\ [Next]_vars => QueueInv'
  BY TypeStep, QueueStep DEF QueueInv
<1> QED
  BY <1>1, <1>2, PTL DEF Spec

\* A settled row keeps its status in each step, unless two have had it in hand.
LEMMA SettledStep ==
  QueueInv /\ [Next]_vars =>
    \A o \in Object \ shared' :
      processing_status[o] \in Settled => processing_status'[o] = processing_status[o]
<1> SUFFICES ASSUME QueueInv, [Next]_vars, NEW o \in Object \ shared',
                    processing_status[o] \in Settled
             PROVE  processing_status'[o] = processing_status[o]
  OBVIOUS
<1>0. /\ processing_status \in [Object -> Status] /\ claimed \in [Worker -> SUBSET Object]
      /\ processing_status[o] \notin {"absent", "UNPROCESSED", "PROCESSING"}
  BY DEF QueueInv, TypeInv, TypeOK, Settled
<1>1. CASE UNCHANGED processing_status
  BY <1>1
<1>2. CASE LoadChunk
  BY <1>0, <1>2 DEF LoadChunk, Loaded
<1>3. ASSUME NEW w \in Worker, Claim(w) PROVE processing_status'[o] = processing_status[o]
  BY <1>0, <1>3 DEF Claim, SetStatus, WithStatus
<1>4. ASSUME NEW w \in Worker, Save(w) \/ Quarantine(w) \/ MarkFailed(w)
      PROVE  processing_status'[o] = processing_status[o]
  <2>1. /\ verdict[w].row \in claimed[w] /\ shared' = shared
        /\ \A p \in Object \ {verdict[w].row} : processing_status'[p] = processing_status[p]
    BY <1>4, JudgedRow DEF QueueInv
  <2>2. o # verdict[w].row
    BY <1>0, <2>1 DEF QueueInv, HeldIsOpen
  <2> QED BY <2>1, <2>2
<1>5. CASE ReleaseStale
  BY <1>0, <1>5 DEF ReleaseStale, SetStatus, WithStatus
<1>6. ASSUME NEW p \in Object, SaveTransformed(p) PROVE processing_status'[o] = processing_status[o]
  BY <1>0, <1>6 DEF SaveTransformed, SetStatus
<1> QED
  <2>1. CASE Scrape \/ BeginPass \/ List \/ EndPass \/ Failures \/ UNCHANGED vars
    BY <1>1, <2>1 DEF Scrape, StartRun, FinishRun, PutDocument, BeginPass, List, EndPass,
      Failures, PassDies, WorkerDies, queue, vars
  <2>2. ASSUME NEW w \in Worker, Transform(w) PROVE processing_status'[o] = processing_status[o]
    BY <1>1, <2>2 DEF Transform
  <2> QED
    BY <1>2, <1>3, <1>4, <1>5, <1>6, <2>1, <2>2 DEF Next, Ingest, Batch

\* A settled row stays settled: no loader, worker or release job takes it up again,
\* unless two processes had it in hand (claim and save in etl.py, _claim and
\* release_stale in silver.py).
THEOREM SettledRowsStay == Spec => SettledStays
BY QueueInvariance, SettledStep, PTL DEF Spec, SettledStays

-----------------------------------------------------------------------------
(* The watermark.  A document is behind when it is neither in Bronze nor    *)
(* among those the pass in progress still has to load.  While no pass has   *)
(* left a gap, what is behind is no older than the watermark, nor than      *)
(* anything the pass has pending: so the watermark may move over the chunk. *)

Behind(o) ==
  /\ modified[o] > 0 /\ processing_status[o] = "absent"
  /\ ~(pass.step = "loading" /\ o \in pass.pending)

PassIsTrue ==
  /\ state.finished \/ (pass.step # "idle" /\ pass.terminal) => manifest = "terminal"
  /\ pass.step # "idle" => pass.newest = state.last_modified
  /\ pass.step = "loading" => \A p \in pass.pending : modified[p] > 0
  /\ pass.step = "loading" /\ ~pass.moved => \A p \in pass.pending : modified[p] >= pass.newest
  /\ pass.step = "listing" => ~pass.moved
  /\ state.last_modified = 0 \/ \E p \in Object : modified[p] >= state.last_modified

NothingBehind ==
  ~gap =>
    /\ \A o \in Object : Behind(o) => modified[o] >= state.last_modified
    /\ pass.step = "loading" =>
         \A o \in Object, p \in pass.pending : Behind(o) => modified[o] >= modified[p]
    /\ pass.step = "loading" /\ pass.terminal => \A o \in Object : ~Behind(o)

IntakeInv == TypeInv /\ PassIsTrue /\ NothingBehind /\ FinishedIsLoaded

\* Rows are never taken out of Bronze.
LEMMA RowsStay ==
  ASSUME TypeInv, [Next]_vars, NEW o \in Object, processing_status[o] # "absent"
  PROVE  processing_status'[o] # "absent"
<1>1. CASE UNCHANGED processing_status
  BY <1>1
<1>2. CASE LoadChunk
  BY <1>2 DEF LoadChunk, Loaded
<1>3. ASSUME NEW rows, NEW s \in Settled \cup {"PROCESSING", "UNPROCESSED"}, SetStatus(rows, s)
      PROVE  processing_status'[o] # "absent"
  BY <1>3 DEF SetStatus, Settled
<1>4. ASSUME NEW w \in Worker, Claim(w) \/ Save(w) \/ Quarantine(w) \/ MarkFailed(w)
      PROVE  processing_status'[o] # "absent"
  BY <1>3, <1>4 DEF Claim, Save, Quarantine, MarkFailed, Settled
<1>5. CASE ReleaseStale
  BY <1>3, <1>5 DEF ReleaseStale
<1>6. ASSUME NEW p \in Object, SaveTransformed(p) PROVE processing_status'[o] # "absent"
  BY <1>3, <1>6 DEF SaveTransformed, Settled
<1> QED
  <2>1. CASE Scrape \/ BeginPass \/ List \/ EndPass \/ Failures \/ UNCHANGED vars
    BY <1>1, <2>1 DEF Scrape, StartRun, FinishRun, PutDocument, BeginPass, List, EndPass,
      Failures, PassDies, WorkerDies, queue, vars
  <2>2. ASSUME NEW w \in Worker, Transform(w) PROVE processing_status'[o] # "absent"
    BY <1>1, <2>2 DEF Transform
  <2> QED
    BY <1>2, <1>4, <1>5, <1>6, <2>1, <2>2 DEF Next, Ingest, Batch

\* A step that leaves bucket and intake alone can only add rows.
LEMMA RowsOnly ==
  ASSUME IntakeInv, [Next]_vars, UNCHANGED <<bucket, intake>>
  PROVE  PassIsTrue' /\ NothingBehind' /\ FinishedIsLoaded'
<1> USE DEF IntakeInv, bucket, intake
<1>1. PassIsTrue'
  BY DEF PassIsTrue
<1>2. \A o \in Object : Behind(o)' => Behind(o)
  BY RowsStay DEF Behind, TypeInv, TypeOK
<1>3. NothingBehind'
  BY <1>2 DEF NothingBehind
<1>4. FinishedIsLoaded'
  BY RowsStay DEF FinishedIsLoaded, InBucket, InBronze
<1> QED BY <1>1, <1>3, <1>4

LEMMA IntakeStep ==
  ASSUME IntakeInv, [Next]_vars PROVE PassIsTrue' /\ NothingBehind' /\ FinishedIsLoaded'
<1> USE DEF IntakeInv
<1>0. /\ modified \in [Object -> Time] /\ processing_status \in [Object -> Status]
      /\ pass \in Pass /\ state \in [last_modified : Time, finished : BOOLEAN]
      /\ gap \in BOOLEAN /\ Time \subseteq Nat
  BY TimeNat DEF TypeInv, TypeOK
<1>1. CASE StartRun \/ FinishRun
  <2>1. /\ UNCHANGED <<modified, intake, processing_status>>
        /\ manifest = "terminal" => manifest' = "terminal"
    BY <1>1 DEF StartRun, FinishRun, queue
  <2> QED
    BY <2>1 DEF intake, PassIsTrue, NothingBehind, Behind, FinishedIsLoaded, InBucket, InBronze
<1>2. ASSUME NEW o \in Object, PutDocument(o)
      PROVE  PassIsTrue' /\ NothingBehind' /\ FinishedIsLoaded'
  <2>1. /\ manifest = "running" /\ modified[o] = 0
        /\ UNCHANGED <<manifest, pass, state, gap, processing_status>>
    BY <1>2 DEF PutDocument, intake, queue
  <2>2. PICK now \in Latest({modified[p] : p \in Object}), t \in Time \ {0} :
          t \in {now, now + 1} /\ modified' = [modified EXCEPT ![o] = t]
    BY <1>2 DEF PutDocument
  <2>3. \A p \in Object : modified[p] <= t /\ (p # o => modified'[p] = modified[p])
    <3>1. now \in Nat /\ \A p \in Object : modified[p] <= now
      BY <1>0, <2>2 DEF Latest
    <3>2. t \in Nat /\ now <= t
      BY <1>0, <2>2, <3>1
    <3>3. \A p \in Object : modified[p] \in Nat
      BY <1>0
    <3> QED BY <1>0, <2>2, <3>1, <3>2, <3>3
  <2>4. modified'[o] = t /\ t \in Nat /\ t > 0
    BY <1>0, <2>2
  <2>5. \A p \in Object : modified[p] \in Nat /\ modified'[p] \in Nat /\ modified'[p] >= modified[p]
    <3>1. \A p \in Object : modified[p] \in Nat
      BY <1>0
    <3>2. modified'[o] \in Nat /\ modified'[o] >= modified[o]
      BY <2>1, <2>4
    <3> QED BY <2>3, <3>1, <3>2
  <2>6. state.last_modified \in Nat /\ pass.newest \in Nat /\ pass.pending \subseteq Object
    BY <1>0 DEF Pass
  <2>7. PassIsTrue'
    <3>1. state.last_modified = 0 \/ \E p \in Object : modified'[p] >= state.last_modified
      BY <2>5, <2>6 DEF PassIsTrue
    <3>2. pass.step = "loading" => \A p \in pass.pending : modified'[p] > 0
      BY <2>5, <2>6 DEF PassIsTrue
    <3>3. pass.step = "loading" /\ ~pass.moved =>
            \A p \in pass.pending : modified'[p] >= pass.newest
      BY <2>5, <2>6 DEF PassIsTrue
    <3> QED
      BY <2>1, <3>1, <3>2, <3>3 DEF PassIsTrue
  <2>8. \A p \in Object : Behind(p)' => Behind(p) \/ p = o
    BY <2>1, <2>3 DEF Behind
  <2>9. t >= state.last_modified /\ (pass.step = "loading" => o \notin pass.pending)
    BY <2>1, <2>3, <2>4, <2>5, <2>6 DEF PassIsTrue
  <2>10. NothingBehind'
    <3>1. ASSUME ~gap, NEW p \in Object, Behind(p)' PROVE modified'[p] >= state.last_modified
      BY <2>3, <2>4, <2>8, <2>9, <3>1 DEF NothingBehind
    <3>2. ASSUME ~gap, NEW p \in Object, Behind(p)', pass.step = "loading",
                 NEW q \in pass.pending
          PROVE  modified'[p] >= modified'[q]
      <4>1. q \in Object /\ q # o /\ modified'[q] = modified[q] /\ modified[q] <= t
        BY <1>0, <2>3, <2>9, <3>2 DEF Pass
      <4> QED
        BY <2>3, <2>4, <2>8, <3>2, <4>1 DEF NothingBehind
    <3>3. ~(pass.step = "loading" /\ pass.terminal)
      BY <2>1 DEF PassIsTrue
    <3> QED BY <2>1, <3>1, <3>2, <3>3 DEF NothingBehind
  <2>11. FinishedIsLoaded'
    BY <2>1 DEF FinishedIsLoaded, PassIsTrue
  <2> QED BY <2>7, <2>10, <2>11
<1>3. CASE BeginPass
  <2>1. /\ pass.step = "idle" /\ UNCHANGED <<bucket, state, gap, processing_status>>
        /\ pass' = [Resting EXCEPT !.step = "listing", !.terminal = (manifest = "terminal"),
                                  !.newest = state.last_modified]
    BY <1>3 DEF BeginPass, queue
  <2>2. /\ pass'.step = "listing" /\ pass'.terminal = (manifest = "terminal")
        /\ pass'.newest = state.last_modified /\ pass'.moved = FALSE
    BY <2>1 DEF Resting
  <2>3. \A o \in Object : Behind(o)' => Behind(o)
    BY <2>1 DEF Behind, bucket
  <2> QED
    BY <2>1, <2>2, <2>3 DEF bucket, PassIsTrue, NothingBehind, FinishedIsLoaded, InBucket, InBronze
<1>4. CASE List
  <2>1. /\ pass.step = "listing" /\ UNCHANGED <<bucket, state, gap, processing_status>>
        /\ pass' = [pass EXCEPT !.step = "loading", !.pending = Pending(pass.newest)]
    BY <1>4 DEF List, queue
  <2>2. /\ pass'.step = "loading" /\ pass'.pending = Pending(pass.newest)
        /\ pass'.newest = pass.newest /\ pass'.moved = pass.moved
        /\ pass'.terminal = pass.terminal
    BY <1>0, <2>1 DEF Pass
  <2>3. ASSUME ~gap, NEW o \in Object PROVE ~Behind(o)'
    <3> SUFFICES ASSUME Behind(o)' PROVE FALSE
      OBVIOUS
    <3>1. Behind(o) /\ o \notin Pending(pass.newest) /\ modified[o] > 0
      BY <2>1, <2>2 DEF Behind, bucket
    <3>2. modified[o] >= pass.newest
      BY <2>1, <2>3, <3>1 DEF NothingBehind, PassIsTrue
    <3> QED BY <3>1, <3>2 DEF Pending
  <2>4. PassIsTrue'
    BY <2>1, <2>2 DEF bucket, Pending, PassIsTrue
  <2>5. NothingBehind'
    BY <2>1, <2>2, <2>3 DEF NothingBehind
  <2>6. FinishedIsLoaded'
    BY <2>1 DEF bucket, FinishedIsLoaded, InBucket, InBronze
  <2> QED BY <2>4, <2>5, <2>6
<1>5. CASE LoadChunk
  <2> DEFINE chunk == NextChunk(pass.pending)
             left == pass.pending \ chunk
  <2>1. PICK newest \in Latest({pass.newest} \cup {modified[o] : o \in chunk}),
             unread \in {{}} \cup {{o} : o \in chunk \ malformed} :
          LET failed == unread \cup (chunk \cap malformed)
          IN /\ processing_status' = Loaded(chunk \ failed)
             /\ IF failed = {}
                  THEN /\ state' = [state EXCEPT !.last_modified = newest]
                       /\ pass' = [pass EXCEPT !.pending = left, !.newest = newest,
                                                 !.moved = @ \/ newest > pass.newest]
                       /\ UNCHANGED gap
                  ELSE pass' = Resting /\ Cut(pass.pending) /\ UNCHANGED state
    BY <1>5 DEF LoadChunk
  <2>2. pass.step = "loading" /\ pass.pending # {} /\ UNCHANGED bucket
    BY <1>5 DEF LoadChunk
  <2>3. chunk \subseteq pass.pending /\ pass.pending \subseteq Object
    BY <1>0 DEF NextChunk, Pass
  <2>4. /\ newest \in Nat /\ newest >= pass.newest
        /\ \A o \in chunk : modified[o] <= newest
        /\ newest = pass.newest \/ \E o \in chunk : modified[o] = newest
    BY <1>0, <2>3 DEF Latest, Pass
  <2> HIDE DEF chunk
  <2>5. FinishedIsLoaded' \/ ~state.finished
    <3>1. state'.finished = state.finished /\ (~gap' => ~gap)
      BY <1>0, <2>1 DEF Cut
    <3> QED
      BY <2>2, <3>1, RowsStay DEF FinishedIsLoaded, InBucket, InBronze, bucket
  <2>6. state'.finished = state.finished
    BY <1>0, <2>1
  <2>7. FinishedIsLoaded'
    BY <2>5, <2>6 DEF FinishedIsLoaded
  <2>8. CASE unread \cup (chunk \cap malformed) = {}
    <3>1. /\ processing_status' = Loaded(chunk) /\ UNCHANGED gap
          /\ state' = [state EXCEPT !.last_modified = newest]
          /\ pass' = [pass EXCEPT !.pending = left, !.newest = newest,
                                    !.moved = @ \/ newest > pass.newest]
      BY <2>1, <2>8
    <3>2. /\ pass'.step = "loading" /\ pass'.pending = left /\ pass'.newest = newest
          /\ pass'.moved = (pass.moved \/ newest > pass.newest)
          /\ pass'.terminal = pass.terminal /\ state'.last_modified = newest
      BY <1>0, <2>2, <3>1 DEF Pass
    <3>3. ASSUME NEW o \in Object, Behind(o)' PROVE Behind(o)
      <4>1. o \notin left /\ processing_status'[o] = "absent" /\ modified[o] > 0
        BY <2>2, <3>2, <3>3 DEF Behind, bucket
      <4>2. o \notin chunk /\ processing_status[o] = "absent"
        BY <3>1, <4>1 DEF Loaded
      <4> QED BY <4>1, <4>2 DEF Behind
    <3>4. PassIsTrue'
      <4>1. newest = 0 \/ \E p \in Object : modified[p] >= newest
        BY <1>0, <2>2, <2>3, <2>4 DEF PassIsTrue
      <4>2. ~pass'.moved => ~pass.moved /\ newest = pass.newest
        <5>1. ~(pass.moved \/ newest > pass.newest) => ~pass.moved /\ ~(newest > pass.newest)
          OBVIOUS
        <5>2. pass.newest \in Nat
          BY <1>0 DEF Pass
        <5>3. ~(newest > pass.newest) => newest = pass.newest
          BY <2>4, <5>2
        <5> QED BY <3>2, <5>1, <5>3
      <4>3. left \subseteq pass.pending
        OBVIOUS
      <4> HIDE DEF left
      <4> QED
        BY <2>2, <2>6, <3>2, <4>1, <4>2, <4>3 DEF PassIsTrue, bucket
    <3>5. NothingBehind'
      <4>1. ASSUME ~gap, NEW o \in Object, Behind(o)'
            PROVE  modified[o] >= newest /\ \A p \in left : modified[o] >= modified[p]
        BY <2>2, <2>3, <2>4, <3>3, <4>1 DEF NothingBehind, PassIsTrue
      <4>2. ASSUME ~gap, pass.terminal, NEW o \in Object PROVE ~Behind(o)'
        BY <2>2, <3>3, <4>2 DEF NothingBehind
      <4> QED
        BY <2>2, <3>1, <3>2, <4>1, <4>2 DEF NothingBehind, bucket
    <3> QED BY <2>7, <3>4, <3>5
  <2>9. CASE unread \cup (chunk \cap malformed) # {}
    <3>1. /\ pass' = Resting /\ Cut(pass.pending) /\ UNCHANGED state
          /\ pass'.step = "idle"
      BY <2>1, <2>9 DEF Resting
    <3>2. PassIsTrue'
      BY <2>2, <3>1 DEF PassIsTrue, bucket
    <3>3. ASSUME ~gap', NEW o \in Object, Behind(o)' PROVE modified[o] >= state.last_modified
      <4>1. ~gap /\ ~pass.moved
        BY <2>2, <3>1, <3>3 DEF Cut
      <4>2. processing_status[o] = "absent" /\ modified[o] > 0
        BY <2>2, <3>3, RowsStay DEF Behind, bucket
      <4>3. CASE o \in pass.pending
        BY <2>2, <4>1, <4>3 DEF PassIsTrue
      <4>4. CASE o \notin pass.pending
        BY <4>1, <4>2, <4>4 DEF NothingBehind, Behind
      <4> QED BY <4>3, <4>4
    <3>4. NothingBehind'
      BY <2>2, <3>1, <3>3 DEF NothingBehind, bucket
    <3> QED BY <2>7, <3>2, <3>4
  <2> QED BY <2>8, <2>9
<1>6. CASE EndPass
  <2>1. /\ pass.step = "loading" /\ pass.pending = {} /\ UNCHANGED <<bucket, gap, processing_status>>
        /\ state' = [state EXCEPT !.finished = @ \/ pass.terminal]
        /\ pass' = Resting /\ pass'.step = "idle"
    BY <1>6 DEF EndPass, queue, Resting
  <2>2. /\ state'.finished = (state.finished \/ pass.terminal)
        /\ state'.last_modified = state.last_modified
    BY <1>0, <2>1
  <2>3. \A o \in Object : Behind(o)' => Behind(o)
    BY <2>1 DEF Behind, bucket
  <2>4. PassIsTrue'
    BY <2>1, <2>2 DEF bucket, PassIsTrue
  <2>5. NothingBehind'
    BY <2>1, <2>2, <2>3 DEF bucket, NothingBehind
  <2>6. FinishedIsLoaded'
    <3>1. ASSUME pass.terminal, ~gap, NEW o \in Object, modified[o] > 0
          PROVE  processing_status[o] # "absent"
      BY <2>1, <3>1 DEF NothingBehind, Behind
    <3> QED
      BY <2>1, <2>2, <3>1 DEF bucket, FinishedIsLoaded, InBucket, InBronze
  <2> QED BY <2>4, <2>5, <2>6
<1>7. CASE PassDies
  <2>1. /\ pass.step # "idle" /\ UNCHANGED <<bucket, state, processing_status>>
        /\ pass'.step = "idle" /\ Cut(pass.pending)
    BY <1>7 DEF PassDies, queue, Resting
  <2>2. PassIsTrue'
    BY <2>1 DEF bucket, PassIsTrue
  <2>3. ASSUME ~gap', NEW o \in Object, Behind(o)' PROVE modified[o] >= state.last_modified
    <3>1. ~gap /\ (~pass.moved \/ pass.pending = {})
      BY <2>1, <2>3 DEF Cut
    <3>2. processing_status[o] = "absent" /\ modified[o] > 0
      BY <2>1, <2>3 DEF Behind, bucket
    <3>3. CASE pass.step = "loading" /\ o \in pass.pending
      BY <2>1, <3>1, <3>3 DEF PassIsTrue
    <3>4. CASE ~(pass.step = "loading" /\ o \in pass.pending)
      BY <3>1, <3>2, <3>4 DEF NothingBehind, Behind
    <3> QED BY <3>3, <3>4
  <2>4. NothingBehind'
    BY <2>1, <2>3 DEF bucket, NothingBehind
  <2>5. FinishedIsLoaded'
    BY <2>1 DEF Cut, bucket, FinishedIsLoaded, InBucket, InBronze
  <2> QED BY <2>2, <2>4, <2>5
<1>8. CASE UNCHANGED <<bucket, intake>>
  BY <1>8, RowsOnly
<1> QED
  <2>1. ASSUME NEW w \in Worker, Batch(w) \/ WorkerDies(w) PROVE UNCHANGED <<bucket, intake>>
    BY <2>1 DEF Batch, Claim, Transform, Save, Quarantine, MarkFailed, WorkerDies
  <2>2. CASE ReleaseStale \/ \E o \in Object : SaveTransformed(o)
    BY <1>8, <2>2 DEF ReleaseStale, SaveTransformed
  <2>3. CASE UNCHANGED vars
    BY <1>8, <2>3 DEF vars, bucket, intake
  <2> QED
    BY <1>1, <1>2, <1>3, <1>4, <1>5, <1>6, <1>7, <1>8, <2>1, <2>2, <2>3
    DEF Next, Scrape, Failures, Ingest

-----------------------------------------------------------------------------
(* Pages.                                                                  *)

LEMMA PagesStep == TypeInv /\ PagesFollowRows /\ [Next]_vars => PagesFollowRows'
<1> SUFFICES ASSUME TypeInv, PagesFollowRows, [Next]_vars, NEW o \in Object
             PROVE  /\ processing_status'[o] = "PROCESSED" => o \in pages'
                    /\ processing_status'[o] = "QUARANTINED" => o \notin pages'
  BY DEF PagesFollowRows
<1> DEFINE Goal == /\ processing_status'[o] = "PROCESSED" => o \in pages'
                   /\ processing_status'[o] = "QUARANTINED" => o \notin pages'
<1>1. CASE UNCHANGED <<processing_status, pages>>
  BY <1>1 DEF PagesFollowRows
<1>2. CASE LoadChunk
  <2>1. PICK rows : processing_status' = Loaded(rows)
    BY <1>2 DEF LoadChunk
  <2>2. pages' = pages /\ processing_status'[o] \in {processing_status[o], "UNPROCESSED"}
    BY <1>2, <2>1 DEF LoadChunk, Loaded
  <2> QED BY <2>2 DEF PagesFollowRows
<1>3. ASSUME NEW w \in Worker, Claim(w) PROVE Goal
  BY <1>3 DEF Claim, SetStatus, PagesFollowRows
<1>4. ASSUME NEW w \in Worker, Save(w) PROVE Goal
  BY <1>4 DEF Save, SetStatus, PagesFollowRows
<1>5. ASSUME NEW w \in Worker, Quarantine(w) PROVE Goal
  BY <1>5 DEF Quarantine, SetStatus, PagesFollowRows
<1>6. ASSUME NEW w \in Worker, MarkFailed(w) PROVE Goal
  BY <1>6 DEF MarkFailed, SetStatus, PagesFollowRows
<1>7. CASE ReleaseStale
  BY <1>7 DEF ReleaseStale, SetStatus, PagesFollowRows
<1>8. ASSUME NEW p \in Object, SaveTransformed(p) PROVE Goal
  BY <1>8 DEF SaveTransformed, SetStatus, PagesFollowRows
<1> QED
  <2>1. CASE Scrape \/ BeginPass \/ List \/ EndPass \/ Failures \/ UNCHANGED vars
    BY <1>1, <2>1 DEF Scrape, StartRun, FinishRun, PutDocument, BeginPass, List, EndPass,
      Failures, PassDies, WorkerDies, queue, vars
  <2>2. ASSUME NEW w \in Worker, Transform(w) PROVE Goal
    BY <1>1, <2>2 DEF Transform
  <2> QED
    BY <1>2, <1>3, <1>4, <1>5, <1>6, <1>7, <1>8, <2>1, <2>2 DEF Next, Ingest, Batch

\* A finished run is wholly in Bronze, unless a pass ended early with the watermark
\* moved (ingest.py), and pages follow the rows' statuses (etl.py, silver.py).
THEOREM IntakeTells == Spec => []IntakeIsTrue
<1>1. Init => IntakeInv /\ PagesFollowRows
  BY TypeInit DEF Init, IntakeInv, PassIsTrue, NothingBehind, Behind, FinishedIsLoaded,
    PagesFollowRows, Resting
<1>2. IntakeInv /\ PagesFollowRows /\ [Next]_vars => IntakeInv' /\ PagesFollowRows'
  BY TypeStep, IntakeStep, PagesStep DEF IntakeInv
<1>3. IntakeInv /\ PagesFollowRows => IntakeIsTrue
  BY DEF IntakeInv, IntakeIsTrue
<1> QED
  BY <1>1, <1>2, <1>3, PTL DEF Spec
=============================================================================
