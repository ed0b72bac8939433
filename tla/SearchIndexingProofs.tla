------------------------ MODULE SearchIndexingProofs ------------------------
(***************************************************************************)
(* Theorems about the two sides of the search index: SearchIndexing, for   *)
(* any pages, indexers and bounds, and, in the second half, SearchService. *)
(*                                                                         *)
(* Three invariants, each resting on the one before: the types; what is    *)
(* known of a document on its way to OpenSearch, in every regime; and the  *)
(* exact copy of the pages that no race has touched.                       *)
(***************************************************************************)
EXTENDS SearchIndexing, SearchAnswers, FiniteSetTheorems, SequenceTheorems, WellFoundedInduction, TLAPS

\* version counts saves of one page and saves those of all pages, so a row can
\* be saved whenever the bound on saves allows it.
SavesBoundVersion == \A p \in Page : version[p] <= saves

TypeInv == TypeOK /\ SavesBoundVersion

\* A round only speaks of its own batch, whose documents were read from rows.
RoundOK ==
  /\ \A p \in Page : Exists(p) => version[p] # 0
  /\ \A i \in Indexer : todo[i] \subseteq batch[i] /\ rejected[i] \subseteq batch[i]
  /\ \A i \in Indexer : phase[i] = "idle" => batch[i] = {}
  /\ \A i \in Indexer : \A p \in batch[i] : docs[i][p] # 0
  /\ \A w \in late : w[2] # 0

\* A document that was answered and not rejected has reached the index.
Answered ==
  \A i \in Indexer : phase[i] = "bulk" =>
    \A p \in batch[i] \ (todo[i] \cup rejected[i]) : indexed[p] # 0

SearchInv == TypeInv /\ RoundOK /\ Answered /\ ProcessedIsSearchable

-----------------------------------------------------------------------------
\* The initial state has the declared types (Page, Indexer arbitrary).
LEMMA InitTypeInv == Init => TypeInv
<1> SUFFICES ASSUME Init PROVE TypeInv
  OBVIOUS
<1> 0 \in Version /\ \A n \in Version : 0 <= n
  BY BoundsAssumption DEF Version
<1>1. TypeOK
  <2>1. status \in [Page -> ProcessingStatus \cup {NoRow}]
    BY DEF Init
  <2>2. version \in [Page -> Version] /\ indexed \in [Page -> Version]
    BY DEF Init
  <2>3. folded \in [Page -> BOOLEAN]
    BY DEF Init
  <2>4. docs \in [Indexer -> [Page -> Version]]
    BY DEF Init
  <2>5. phase \in [Indexer -> {"idle", "bulk", "release"}]
    BY DEF Init
  <2>6. /\ batch \in [Indexer -> SUBSET Page] /\ todo \in [Indexer -> SUBSET Page]
        /\ rejected \in [Indexer -> SUBSET Page]
    BY DEF Init
  <2>7. /\ late \subseteq Page \X Version /\ raced \subseteq Page
        /\ saves \in Version /\ faults \in 0 .. MaxFaults
    BY BoundsAssumption DEF Init
  <2> QED
    BY <2>1, <2>2, <2>3, <2>4, <2>5, <2>6, <2>7 DEF TypeOK
<1>2. SavesBoundVersion
  BY DEF Init, SavesBoundVersion
<1> QED
  BY <1>1, <1>2 DEF TypeInv

\* Which variables each action can change, and how; the rest of the proofs only
\* look at these facts.
LEMMA StepCases ==
  ASSUME [Next]_vars
  PROVE  \/ \E p \in Page, dup \in BOOLEAN : Save(p, dup)
         \/ \E p \in Page : Refold(p)
         \/ \E p \in Page, freed \in SUBSET Page : Quarantine(p, freed)
         \/ \E i \in Indexer : \/ \E ids \in SUBSET Page : Claim(i, ids)
                               \/ \E p \in Page : Index(i, p) \/ Reject(i, p)
                               \/ Mark(i) \/ Release(i) \/ Unreachable(i) \/ Crash(i)
         \/ \E p \in Page, v \in Version : LateWrite(p, v)
         \/ \E ids \in SUBSET Page : ReleaseStale(ids)
         \/ UNCHANGED vars
<1>1. ASSUME NEW i \in Indexer, ClaimBatch(i) PROVE \E ids \in SUBSET Page : Claim(i, ids)
  <2>1. PICK ids : Claim(i, ids)
    BY <1>1 DEF ClaimBatch
  <2>2. ids \in SUBSET Page
    BY <2>1 DEF Claim, Claimable
  <2> QED
    BY <2>1, <2>2
<1>2. CASE Silver
  BY <1>2 DEF Silver
<1>3. CASE \E i \in Indexer : RunOnce(i)
  BY <1>1, <1>3 DEF RunOnce, Work
<1>4. CASE OpenSearch
  BY <1>4 DEF OpenSearch
<1>5. CASE Recovery
  BY <1>5 DEF Recovery
<1> QED
  BY <1>2, <1>3, <1>4, <1>5 DEF Next

\* Every step of the ETL, of an indexer, of OpenSearch and of the stale-claim
\* recovery keeps the types and the bound of the save counter.
LEMMA StepTypeInv == TypeInv /\ [Next]_vars => TypeInv'
<1> SUFFICES ASSUME TypeInv, [Next]_vars PROVE TypeInv'
  OBVIOUS
<1> USE DEF TypeInv, TypeOK
<1>1. ASSUME NEW p \in Page, NEW dup \in BOOLEAN, Save(p, dup) PROVE TypeInv'
  <2>1. version' \in [Page -> Version] /\ saves' \in Version /\ SavesBoundVersion'
    BY <1>1, BoundsAssumption DEF Save, Version, SavesBoundVersion
  <2>2. status' \in [Page -> ProcessingStatus \cup {NoRow}]
    BY <1>1 DEF Save, ProcessingStatus
  <2>3. folded' \in [Page -> BOOLEAN]
    BY <1>1 DEF Save
  <2> QED
    BY <1>1, <2>1, <2>2, <2>3 DEF Save, roundVars
<1>2. ASSUME NEW p \in Page, Refold(p) PROVE TypeInv'
  <2>1. saves' \in Version /\ SavesBoundVersion'
    BY <1>2, BoundsAssumption DEF Refold, Version, SavesBoundVersion
  <2>2. folded' \in [Page -> BOOLEAN]
    BY <1>2 DEF Refold
  <2> QED
    BY <1>2, <2>1, <2>2 DEF Refold, roundVars
<1>3. ASSUME NEW p \in Page, NEW freed \in SUBSET Page, Quarantine(p, freed) PROVE TypeInv'
  <2>1. status' \in [Page -> ProcessingStatus \cup {NoRow}]
    BY <1>3 DEF Quarantine
  <2>2. folded' \in [Page -> BOOLEAN]
    BY <1>3 DEF Quarantine
  <2> QED
    BY <1>3, <2>1, <2>2 DEF Quarantine, roundVars, bounds, SavesBoundVersion
<1>4. ASSUME NEW i \in Indexer, NEW ids \in SUBSET Page, Claim(i, ids) PROVE TypeInv'
  <2>1. status' \in [Page -> ProcessingStatus \cup {NoRow}]
    BY <1>4 DEF Claim, ProcessingStatus
  <2>2. [p \in Page |-> IF p \in ids THEN version[p] ELSE 0] \in [Page -> Version]
    BY BoundsAssumption DEF Version
  <2>3. docs' \in [Indexer -> [Page -> Version]]
    BY <1>4, <2>2 DEF Claim
  <2>4. batch' \in [Indexer -> SUBSET Page] /\ todo' \in [Indexer -> SUBSET Page]
        /\ phase' \in [Indexer -> {"idle", "bulk", "release"}]
    BY <1>4 DEF Claim
  <2> QED
    BY <1>4, <2>1, <2>3, <2>4 DEF Claim, bounds, SavesBoundVersion
<1>5. ASSUME NEW i \in Indexer, NEW p \in Page, Index(i, p) PROVE TypeInv'
  <2>1. docs[i][p] \in Version
    OBVIOUS
  <2> QED
    BY <1>5, <2>1 DEF Index, pageVars, bounds, SavesBoundVersion
<1>6. ASSUME NEW i \in Indexer, NEW p \in Page, Reject(i, p) PROVE TypeInv'
  BY <1>6 DEF Reject, pageVars, bounds, SavesBoundVersion
<1>7. ASSUME NEW i \in Indexer, Forget(i)
      PROVE  /\ phase' \in [Indexer -> {"idle", "bulk", "release"}]
             /\ docs' \in [Indexer -> [Page -> Version]]
             /\ batch' \in [Indexer -> SUBSET Page] /\ todo' \in [Indexer -> SUBSET Page]
             /\ rejected' \in [Indexer -> SUBSET Page]
  <2>1. [p \in Page |-> 0] \in [Page -> Version]
    BY BoundsAssumption DEF Version
  <2> QED
    BY <1>7, <2>1 DEF Forget
<1>8. ASSUME NEW i \in Indexer, Abandon(i) PROVE /\ late' \subseteq Page \X Version
                                                     /\ raced' \subseteq Page
  <2>1. \A p \in todo[i] : p \in Page /\ docs[i][p] \in Version
    OBVIOUS
  <2> QED
    BY <1>8, <2>1 DEF Abandon
<1>9. ASSUME NEW i \in Indexer, Mark(i) PROVE TypeInv'
  <2>1. status' \in [Page -> ProcessingStatus \cup {NoRow}]
    BY <1>9 DEF Mark, MarkedStatus, ProcessingStatus
  <2> QED
    BY <1>7, <1>9, <2>1 DEF Mark, bounds, SavesBoundVersion
<1>10. ASSUME NEW i \in Indexer, Release(i) PROVE TypeInv'
  <2>1. status' \in [Page -> ProcessingStatus \cup {NoRow}]
    BY <1>10 DEF Release, ProcessingStatus
  <2> QED
    BY <1>7, <1>10, <2>1 DEF Release, bounds, SavesBoundVersion
<1>11. ASSUME NEW i \in Indexer, Unreachable(i) PROVE TypeInv'
  <2>1. faults' \in 0 .. MaxFaults
    BY <1>11, BoundsAssumption DEF Unreachable
  <2> QED
    BY <1>8, <1>11, <2>1 DEF Unreachable, pageVars, SavesBoundVersion
<1>12. ASSUME NEW i \in Indexer, Crash(i) PROVE TypeInv'
  <2>1. faults' \in 0 .. MaxFaults
    BY <1>12, BoundsAssumption DEF Crash
  <2> QED
    BY <1>7, <1>8, <1>12, <2>1 DEF Crash, pageVars, SavesBoundVersion
<1>13. ASSUME NEW p \in Page, NEW v \in Version, LateWrite(p, v) PROVE TypeInv'
  BY <1>13 DEF LateWrite, pageVars, roundVars, bounds, SavesBoundVersion
<1>14. ASSUME NEW ids \in SUBSET Page, ReleaseStale(ids) PROVE TypeInv'
  <2>1. status' \in [Page -> ProcessingStatus \cup {NoRow}]
    BY <1>14 DEF ReleaseStale, ProcessingStatus
  <2> QED
    BY <1>14, <2>1 DEF ReleaseStale, roundVars, bounds, SavesBoundVersion
<1>15. CASE UNCHANGED vars
  BY <1>15 DEF vars, SavesBoundVersion
<1> QED
  <2> HIDE DEF TypeInv
  <2> QED
    BY <1>1, <1>2, <1>3, <1>4, <1>5, <1>6, <1>9, <1>10, <1>11, <1>12, <1>13, <1>14,
       <1>15, StepCases

\* Every state of the queue, of the rounds and of the index is well formed.
THEOREM Typed == Spec => []TypeOK
<1>1. TypeInv => TypeOK
  BY DEF TypeInv
<1> QED
  BY <1>1, InitTypeInv, StepTypeInv, PTL DEF Spec
-----------------------------------------------------------------------------
\* The save of a row, a claim and an answer keep what is known of the documents
\* in flight: they were read from rows, and once answered they are indexed.
LEMMA StepSearchInv == SearchInv /\ [Next]_vars => SearchInv'
<1> SUFFICES ASSUME SearchInv, [Next]_vars PROVE SearchInv'
  OBVIOUS
<1> TypeInv'
  BY StepTypeInv DEF SearchInv
<1> USE DEF SearchInv, TypeInv, TypeOK, RoundOK, Answered, ProcessedIsSearchable, Exists
<1> DEFINE Goal == RoundOK' /\ Answered' /\ ProcessedIsSearchable'
<1>1. ASSUME NEW p \in Page, NEW dup \in BOOLEAN, Save(p, dup) PROVE Goal
  <2>1. \A q \in Page : status'[q] = (IF q = p THEN "UNPROCESSED" ELSE status[q])
    BY <1>1 DEF Save
  <2>2. \A q \in Page : version'[q] = (IF q = p THEN version[p] + 1 ELSE version[q])
    BY <1>1 DEF Save
  <2>3. version[p] \in Nat
    BY BoundsAssumption DEF Version
  <2> QED
    BY <1>1, <2>1, <2>2, <2>3 DEF Save, roundVars
<1>2. ASSUME NEW p \in Page, Refold(p) PROVE Goal
  BY <1>2 DEF Refold, roundVars
<1>3. ASSUME NEW p \in Page, NEW freed \in SUBSET Page, Quarantine(p, freed) PROVE Goal
  <2>1. \A q \in Page : status'[q] = (IF q = p THEN NoRow ELSE status[q])
    BY <1>3 DEF Quarantine
  <2>2. UNCHANGED <<version, indexed, phase, batch, docs, todo, rejected, late>>
    BY <1>3 DEF Quarantine, roundVars
  <2>3. RoundOK'
    BY <2>1, <2>2 DEF NoRow
  <2>4. Answered'
    BY <2>2
  <2>5. ProcessedIsSearchable'
    BY <2>1, <2>2 DEF NoRow
  <2> QED
    BY <2>3, <2>4, <2>5
<1>4. ASSUME NEW i \in Indexer, NEW ids \in SUBSET Page, Claim(i, ids) PROVE Goal
  <2>1. \A q \in ids : status[q] = "UNPROCESSED" /\ version[q] # 0
    BY <1>4 DEF Claim, Claimable, NoRow
  <2>2. \A q \in Page : status'[q] = (IF q \in ids THEN "PROCESSING" ELSE status[q])
    BY <1>4 DEF Claim
  <2>3. \A j \in Indexer : /\ batch'[j] = (IF j = i THEN ids ELSE batch[j])
                           /\ todo'[j] = (IF j = i THEN ids ELSE todo[j])
                           /\ phase'[j] = (IF j = i THEN "bulk" ELSE phase[j])
                           /\ rejected'[j] = rejected[j]
    BY <1>4 DEF Claim
  <2>4. \A j \in Indexer : \A q \in batch'[j] : docs'[j][q] # 0
    BY <1>4, <2>1, <2>3 DEF Claim
  <2>5. UNCHANGED <<version, indexed, late>>
    BY <1>4 DEF Claim
  <2>6. RoundOK'
    <3>1. rejected'[i] \subseteq batch'[i]
      BY <1>4, <2>3 DEF Claim
    <3> QED
      BY <2>1, <2>2, <2>3, <2>4, <2>5, <3>1 DEF NoRow
  <2>7. Answered'
    BY <2>3, <2>5
  <2>8. ProcessedIsSearchable'
    BY <2>2, <2>5
  <2> QED
    BY <2>6, <2>7, <2>8
<1>5. ASSUME NEW i \in Indexer, NEW p \in Page, Index(i, p) PROVE Goal
  <2>1. \A q \in Page : indexed'[q] = (IF q = p THEN docs[i][p] ELSE indexed[q])
    BY <1>5 DEF Index
  <2>2. docs[i][p] # 0
    BY <1>5 DEF Index
  <2>3. \A j \in Indexer : todo'[j] = (IF j = i THEN todo[i] \ {p} ELSE todo[j])
    BY <1>5 DEF Index
  <2> QED
    BY <1>5, <2>1, <2>2, <2>3 DEF Index, pageVars
<1>6. ASSUME NEW i \in Indexer, NEW p \in Page, Reject(i, p) PROVE Goal
  <2>1. \A j \in Indexer : /\ todo'[j] = (IF j = i THEN todo[i] \ {p} ELSE todo[j])
                           /\ rejected'[j] = (IF j = i THEN rejected[i] \cup {p} ELSE rejected[j])
    BY <1>6 DEF Reject
  <2> QED
    BY <1>6, <2>1 DEF Reject, pageVars
<1>7. ASSUME NEW i \in Indexer, Forget(i), late' = late \/ Abandon(i),
             version' = version, indexed' = indexed,
             \A q \in Page : status'[q] = NoRow <=> status[q] = NoRow
      PROVE  RoundOK' /\ Answered'
  <2>1. \A j \in Indexer : /\ batch'[j] = (IF j = i THEN {} ELSE batch[j])
                           /\ todo'[j] = (IF j = i THEN {} ELSE todo[j])
                           /\ rejected'[j] = (IF j = i THEN {} ELSE rejected[j])
                           /\ phase'[j] = (IF j = i THEN "idle" ELSE phase[j])
                           /\ (j # i => docs'[j] = docs[j])
    BY <1>7 DEF Forget
  <2>2. \A w \in late' : w[2] # 0
    BY <1>7 DEF Abandon
  <2>3. ASSUME NEW j \in Indexer, NEW p \in batch'[j] PROVE docs'[j][p] # 0
    <3>1. j # i /\ p \in batch[j]
      BY <2>1, <2>3
    <3> QED
      BY <2>1, <3>1
  <2>4. RoundOK'
    <3>1. \A p \in Page : Exists(p)' => version'[p] # 0
      BY <1>7
    <3> QED
      BY <2>1, <2>2, <2>3, <3>1
  <2>5. Answered'
    BY <1>7, <2>1
  <2> QED
    BY <2>4, <2>5
<1>8. ASSUME NEW i \in Indexer, Mark(i) PROVE Goal
  <2>1. \A q \in Page : status'[q] = MarkedStatus(i, q)
    BY <1>8 DEF Mark
  <2>2. RoundOK' /\ Answered'
    BY <1>7, <1>8, <2>1 DEF Mark, MarkedStatus, NoRow
  <2>3. ProcessedIsSearchable'
    BY <1>8, <2>1 DEF Mark, MarkedStatus
  <2> QED
    BY <2>2, <2>3
<1>9. ASSUME NEW i \in Indexer, Release(i) PROVE Goal
  <2>1. \A q \in Page : status'[q] = (IF q \in batch[i] /\ status[q] = "PROCESSING"
                                     THEN "UNPROCESSED" ELSE status[q])
    BY <1>9 DEF Release
  <2>2. RoundOK' /\ Answered'
    BY <1>7, <1>9, <2>1 DEF Release, NoRow
  <2> QED
    BY <1>9, <2>1, <2>2 DEF Release
<1>10. ASSUME NEW i \in Indexer, Unreachable(i) PROVE Goal
  <2>1. \A w \in late' : w[2] # 0
    BY <1>10 DEF Unreachable, Abandon
  <2>2. \A j \in Indexer : /\ todo'[j] = (IF j = i THEN {} ELSE todo[j])
                           /\ phase'[j] = (IF j = i THEN "release" ELSE phase[j])
    BY <1>10 DEF Unreachable
  <2> QED
    BY <1>10, <2>1, <2>2 DEF Unreachable, pageVars
<1>11. ASSUME NEW i \in Indexer, Crash(i) PROVE Goal
  BY <1>7, <1>11 DEF Crash, pageVars
<1>12. ASSUME NEW p \in Page, NEW v \in Version, LateWrite(p, v) PROVE Goal
  <2>1. v # 0
    BY <1>12 DEF LateWrite
  <2>2. \A q \in Page : indexed'[q] = (IF q = p THEN v ELSE indexed[q])
    BY <1>12 DEF LateWrite
  <2> QED
    BY <1>12, <2>1, <2>2 DEF LateWrite, pageVars, roundVars
<1>13. ASSUME NEW ids \in SUBSET Page, ReleaseStale(ids) PROVE Goal
  <2>1. \A q \in Page : status'[q] = (IF q \in ids THEN "UNPROCESSED" ELSE status[q])
    BY <1>13 DEF ReleaseStale
  <2>2. UNCHANGED <<version, indexed, late, phase, batch, docs, todo, rejected>>
    BY <1>13 DEF ReleaseStale, roundVars
  <2>3. \A q \in Page : status'[q] = NoRow <=> status[q] = NoRow
    BY <1>13, <2>1 DEF ReleaseStale, Stale, NoRow
  <2> QED
    BY <2>1, <2>2, <2>3
<1>14. ASSUME UNCHANGED vars PROVE Goal
  BY <1>14 DEF vars
<1>15. Goal
  <2> HIDE DEF Goal, SearchInv, TypeInv, TypeOK, RoundOK, Answered, ProcessedIsSearchable
  <2> QED
    BY <1>1, <1>2, <1>3, <1>4, <1>5, <1>6, <1>8, <1>9, <1>10, <1>11, <1>12, <1>13,
       <1>14, StepCases
<1> QED
  BY <1>15

\* In every regime -- saves and re-claims while an indexer works, crashes, late
\* writes -- a page marked PROCESSED has a document in the index.
THEOREM Searchable == Spec => []ProcessedIsSearchable
<1>1. Init => SearchInv
  BY InitTypeInv DEF Init, SearchInv, RoundOK, Answered, ProcessedIsSearchable, Exists, NoRow
<1>2. SearchInv => ProcessedIsSearchable
  BY DEF SearchInv
<1> QED
  BY <1>1, <1>2, StepSearchInv, PTL DEF Spec
-----------------------------------------------------------------------------
\* The pages no race has touched: not saved while held, not released while held,
\* no abandoned request.
Calm == Page \ raced

CopyInv ==
  /\ \A w \in late : w[1] \in raced
  /\ OneHolder /\ HeldIsClaimed
  /\ \A i \in Indexer : \A p \in batch[i] \cap Calm : docs[i][p] = version[p]
  /\ \A i \in Indexer : phase[i] = "bulk" =>
       \A p \in (batch[i] \cap Calm) \ (todo[i] \cup rejected[i]) : indexed[p] = version[p]
  /\ \A p \in Calm : status[p] = "PROCESSED" => indexed[p] = version[p]

\* A calm page is excluded from every other batch while it is held and is not
\* saved, so what is marked PROCESSED is what was read, and what was read is current.
LEMMA StepCopyInv ==
  ASSUME SearchInv, CopyInv, [Next]_vars
  PROVE  CopyInv'
<1> USE DEF SearchInv, TypeInv, TypeOK, RoundOK, CopyInv, OneHolder, HeldIsClaimed,
            Exists, Held, Calm
<1> DEFINE Goal == CopyInv'
<1>1. ASSUME NEW p \in Page, NEW dup \in BOOLEAN, Save(p, dup) PROVE Goal
  <2>1. Calm' \subseteq Calm /\ \A i \in Indexer : p \in Calm' => p \notin batch[i]
    BY <1>1 DEF Save
  <2>2. \A q \in Page : /\ status'[q] = (IF q = p THEN "UNPROCESSED" ELSE status[q])
                        /\ q # p => version'[q] = version[q]
    BY <1>1 DEF Save
  <2>3. UNCHANGED <<indexed, late, phase, batch, docs, todo, rejected>>
    BY <1>1 DEF Save, roundVars
  <2>4. (\A w \in late' : w[1] \in raced') /\ OneHolder'
    BY <2>1, <2>3, <1>1 DEF Save
  <2>5. ASSUME NEW i \in Indexer, NEW q \in batch'[i] \ raced', Exists(q)'
        PROVE  status'[q] = "PROCESSING"
    BY <2>1, <2>2, <2>3, <2>5
  <2>6. \A i \in Indexer : \A q \in batch'[i] \cap Calm' : docs'[i][q] = version'[q]
    BY <2>1, <2>2, <2>3
  <2>7. \A i \in Indexer : phase'[i] = "bulk" =>
          \A q \in (batch'[i] \cap Calm') \ (todo'[i] \cup rejected'[i]) : indexed'[q] = version'[q]
    BY <2>1, <2>2, <2>3
  <2>8. \A q \in Calm' : status'[q] = "PROCESSED" => indexed'[q] = version'[q]
    BY <2>1, <2>2, <2>3
  <2> QED
    BY <2>4, <2>5, <2>6, <2>7, <2>8
<1>2. ASSUME NEW p \in Page, Refold(p) PROVE Goal
  BY <1>2 DEF Refold, roundVars
<1>3. ASSUME NEW p \in Page, NEW freed \in SUBSET Page, Quarantine(p, freed) PROVE Goal
  <2>1. \A q \in Page : status'[q] = (IF q = p THEN NoRow ELSE status[q])
    BY <1>3 DEF Quarantine
  <2>2. UNCHANGED <<version, indexed, late, raced, phase, batch, docs, todo, rejected>>
    BY <1>3 DEF Quarantine, roundVars
  <2>3. ASSUME NEW j \in Indexer, NEW q \in batch'[j] \ raced', Exists(q)'
        PROVE  status'[q] = "PROCESSING"
    <3>1. q \in Page /\ q \in batch[j] \ raced /\ status'[q] = status[q]
      BY <2>1, <2>2, <2>3
    <3> QED
      BY <2>3, <3>1
  <2>4. (\A w \in late' : w[1] \in raced') /\ OneHolder'
    BY <2>2
  <2>5. \A q \in Calm' : status'[q] = "PROCESSED" => indexed'[q] = version'[q]
    BY <2>1, <2>2 DEF NoRow
  <2> QED
    BY <2>2, <2>3, <2>4, <2>5
<1>4. ASSUME NEW i \in Indexer, NEW ids \in SUBSET Page, Claim(i, ids) PROVE Goal
  <2>1. \A q \in ids : status[q] = "UNPROCESSED"
    BY <1>4 DEF Claim, Claimable
  <2>2. \A q \in Page : status'[q] = (IF q \in ids THEN "PROCESSING" ELSE status[q])
    BY <1>4 DEF Claim
  <2>3. \A j \in Indexer : /\ batch'[j] = (IF j = i THEN ids ELSE batch[j])
                           /\ todo'[j] = (IF j = i THEN ids ELSE todo[j])
                           /\ phase'[j] = (IF j = i THEN "bulk" ELSE phase[j])
                           /\ rejected'[j] = rejected[j]
                           /\ j # i => docs'[j] = docs[j]
    BY <1>4 DEF Claim
  <2>4. UNCHANGED <<version, indexed, late, raced>>
    BY <1>4 DEF Claim
  <2>5. \A q \in ids : docs'[i][q] = version[q]
    BY <1>4 DEF Claim
  <2>6. \A j \in Indexer : ids \cap batch[j] \subseteq raced
    BY <2>1 DEF NoRow
  <2>7. OneHolder'
    BY <2>3, <2>4, <2>6
  <2>8. ASSUME NEW j \in Indexer, NEW q \in batch'[j] \ raced', Exists(q)'
        PROVE  status'[q] = "PROCESSING"
    <3>1. CASE q \in ids
      BY <2>2, <3>1
    <3>2. CASE q \notin ids
      <4>1. q \in Page /\ q \in batch[j] \ raced /\ status'[q] = status[q]
        BY <2>2, <2>3, <2>4, <2>8, <3>2
      <4> QED
        BY <2>8, <4>1
    <3> QED
      BY <3>1, <3>2
  <2>9. ASSUME NEW j \in Indexer, NEW q \in batch'[j] \cap Calm' PROVE docs'[j][q] = version'[q]
    BY <2>3, <2>4, <2>5, <2>9
  <2>10. \A j \in Indexer : phase'[j] = "bulk" =>
           \A q \in (batch'[j] \cap Calm') \ (todo'[j] \cup rejected'[j]) : indexed'[q] = version'[q]
    BY <2>3, <2>4
  <2>11. \A q \in Calm' : status'[q] = "PROCESSED" => indexed'[q] = version'[q]
    BY <2>2, <2>4
  <2> QED
    BY <2>4, <2>7, <2>8, <2>9, <2>10, <2>11
<1>5. ASSUME NEW i \in Indexer, NEW p \in Page, Index(i, p) PROVE Goal
  <2>1. \A q \in Page : indexed'[q] = (IF q = p THEN docs[i][p] ELSE indexed[q])
    BY <1>5 DEF Index
  <2>2. \A j \in Indexer : todo'[j] = (IF j = i THEN todo[i] \ {p} ELSE todo[j])
    BY <1>5 DEF Index
  <2>3. UNCHANGED <<status, version, late, raced, phase, batch, docs, rejected>>
    BY <1>5 DEF Index, pageVars
  <2>4. p \in batch[i] /\ (p \in Calm => docs[i][p] = version[p])
    BY <1>5 DEF Index
  <2>5. \A j \in Indexer : phase'[j] = "bulk" =>
          \A q \in (batch'[j] \cap Calm') \ (todo'[j] \cup rejected'[j]) : indexed'[q] = version'[q]
    BY <2>1, <2>2, <2>3, <2>4
  <2>6. \A q \in Calm' : status'[q] = "PROCESSED" => indexed'[q] = version'[q]
    BY <2>1, <2>3, <2>4
  <2> QED
    BY <2>3, <2>5, <2>6
<1>6. ASSUME NEW i \in Indexer, NEW p \in Page, Reject(i, p) PROVE Goal
  <2>1. \A j \in Indexer : /\ todo'[j] = (IF j = i THEN todo[i] \ {p} ELSE todo[j])
                           /\ rejected'[j] = (IF j = i THEN rejected[i] \cup {p} ELSE rejected[j])
    BY <1>6 DEF Reject
  <2>2. UNCHANGED <<status, version, indexed, late, raced, phase, batch, docs>>
    BY <1>6 DEF Reject, pageVars
  <2> QED
    BY <2>1, <2>2
<1>7. ASSUME NEW i \in Indexer, Forget(i),
             \A w \in late' : w[1] \in raced', raced \subseteq raced', raced' \subseteq Page,
             version' = version, indexed' = indexed,
             \A q \in Page \ batch[i] : status'[q] = status[q],
             \A q \in Calm' : status'[q] = "PROCESSED" => indexed[q] = version[q]
      PROVE  Goal
  <2>1. \A j \in Indexer : /\ batch'[j] = (IF j = i THEN {} ELSE batch[j])
                           /\ todo'[j] = (IF j = i THEN {} ELSE todo[j])
                           /\ rejected'[j] = (IF j = i THEN {} ELSE rejected[j])
                           /\ phase'[j] = (IF j = i THEN "idle" ELSE phase[j])
                           /\ (j # i => docs'[j] = docs[j])
    BY <1>7 DEF Forget
  <2>2. OneHolder'
    BY <1>7, <2>1
  <2>3. ASSUME NEW j \in Indexer, NEW q \in batch'[j] \ raced', Exists(q)'
        PROVE status'[q] = "PROCESSING"
    <3>1. j # i /\ q \in batch[j] \ raced
      BY <1>7, <2>1, <2>3
    <3>2. q \in Page \ batch[i]
      BY <3>1
    <3> QED
      BY <1>7, <2>3, <3>1, <3>2
  <2>4. ASSUME NEW j \in Indexer, NEW q \in batch'[j] \cap Calm' PROVE docs'[j][q] = version'[q]
    <3>1. j # i /\ q \in batch[j] \cap Calm
      BY <1>7, <2>1, <2>4
    <3> QED
      BY <1>7, <2>1, <3>1
  <2>5. \A j \in Indexer : phase'[j] = "bulk" =>
          \A q \in (batch'[j] \cap Calm') \ (todo'[j] \cup rejected'[j]) : indexed'[q] = version'[q]
    BY <1>7, <2>1
  <2> QED
    BY <1>7, <2>2, <2>3, <2>4, <2>5
<1>8. ASSUME NEW i \in Indexer, Mark(i) PROVE Goal
  <2>1. \A q \in Page : status'[q] = MarkedStatus(i, q)
    BY <1>8 DEF Mark
  <2>2. ASSUME NEW q \in Calm', status'[q] = "PROCESSED" PROVE indexed[q] = version[q]
    <3>1. CASE q \in batch[i] \ rejected[i]
      BY <1>8, <2>2, <3>1 DEF Mark
    <3>2. CASE q \in batch[i] /\ q \in rejected[i]
      BY <1>8, <2>1, <2>2, <3>2 DEF Mark, MarkedStatus
    <3>3. CASE q \notin batch[i]
      BY <1>8, <2>1, <2>2, <3>3 DEF Mark, MarkedStatus
    <3> QED
      BY <3>1, <3>2, <3>3
  <2>3. \A q \in Page \ batch[i] : status'[q] = status[q]
    BY <2>1 DEF MarkedStatus
  <2> QED
    BY <1>7, <1>8, <2>2, <2>3 DEF Mark
<1>9. ASSUME NEW i \in Indexer, Release(i) PROVE Goal
  <2>1. \A q \in Page : status'[q] = (IF q \in batch[i] /\ status[q] = "PROCESSING"
                                      THEN "UNPROCESSED" ELSE status[q])
    BY <1>9 DEF Release
  <2> QED
    BY <1>7, <1>9, <2>1 DEF Release
<1>10. ASSUME NEW i \in Indexer, Unreachable(i) PROVE Goal
  <2>1. (\A w \in late' : w[1] \in raced') /\ Calm' \subseteq Calm
    BY <1>10 DEF Unreachable, Abandon
  <2>2. \A j \in Indexer : /\ todo'[j] = (IF j = i THEN {} ELSE todo[j])
                           /\ phase'[j] = (IF j = i THEN "release" ELSE phase[j])
    BY <1>10 DEF Unreachable
  <2>3. UNCHANGED <<status, version, indexed, batch, docs, rejected>>
    BY <1>10 DEF Unreachable, pageVars
  <2>4. raced \subseteq raced'
    BY <1>10 DEF Unreachable, Abandon
  <2>5. OneHolder' /\ HeldIsClaimed'
    BY <2>3, <2>4
  <2> QED
    BY <2>1, <2>2, <2>3, <2>5
<1>11. ASSUME NEW i \in Indexer, Crash(i) PROVE Goal
  <2>1. /\ \A w \in late' : w[1] \in raced'
        /\ raced \subseteq raced' /\ raced' \subseteq Page
    BY <1>11 DEF Crash, Abandon
  <2> QED
    BY <1>7, <1>11, <2>1 DEF Crash, pageVars
<1>12. ASSUME NEW p \in Page, NEW v \in Version, LateWrite(p, v) PROVE Goal
  <2>1. p \notin Calm
    BY <1>12 DEF LateWrite
  <2>2. \A q \in Page : indexed'[q] = (IF q = p THEN v ELSE indexed[q])
    BY <1>12 DEF LateWrite
  <2>3. UNCHANGED <<status, version, raced, phase, batch, docs, todo, rejected>>
    BY <1>12 DEF LateWrite, pageVars, roundVars
  <2>4. late' \subseteq late
    BY <1>12 DEF LateWrite
  <2> QED
    BY <2>1, <2>2, <2>3, <2>4
<1>13. ASSUME NEW ids \in SUBSET Page, ReleaseStale(ids) PROVE Goal
  <2>1. \A q \in Page : status'[q] = (IF q \in ids THEN "UNPROCESSED" ELSE status[q])
    BY <1>13 DEF ReleaseStale
  <2>2. raced \subseteq raced' /\ \A q \in ids \ raced' : \A i \in Indexer : q \notin batch[i]
    BY <1>13 DEF ReleaseStale
  <2>3. UNCHANGED <<version, indexed, late, phase, batch, docs, todo, rejected>>
    BY <1>13 DEF ReleaseStale, roundVars
  <2>4. ASSUME NEW j \in Indexer, NEW q \in batch'[j] \ raced', Exists(q)'
        PROVE status'[q] = "PROCESSING"
    <3>1. q \notin ids /\ q \in batch[j] \ raced
      BY <2>2, <2>3
    <3> QED
      BY <2>1, <2>4, <3>1
  <2>5. OneHolder' /\ \A w \in late' : w[1] \in raced'
    BY <2>2, <2>3
  <2> QED
    BY <2>1, <2>2, <2>3, <2>4, <2>5
<1>14. ASSUME UNCHANGED vars PROVE Goal
  BY <1>14 DEF vars
<1> QED
  <2> HIDE DEF CopyInv, SearchInv, TypeInv, TypeOK, RoundOK, OneHolder, HeldIsClaimed
  <2> QED
    BY <1>1, <1>2, <1>3, <1>4, <1>5, <1>6, <1>8, <1>9, <1>10, <1>11, <1>12, <1>13,
       <1>14, StepCases

LEMMA CopyInvariance == Spec => [](SearchInv /\ CopyInv)
<1>1. Init => SearchInv /\ CopyInv
  BY InitTypeInv DEF Init, SearchInv, RoundOK, Answered, ProcessedIsSearchable, Exists,
     NoRow, CopyInv, OneHolder, HeldIsClaimed
<1>2. SearchInv /\ CopyInv /\ [Next]_vars => (SearchInv /\ CopyInv)'
  BY StepSearchInv, StepCopyInv
<1> QED
  BY <1>1, <1>2, PTL DEF Spec

\* The index is an exact copy of the pages no race has touched: whatever crashes or
\* times out, such a page that is done has the document of its latest save.
THEOREM ExactCopy == Spec => []CopyUnlessRaced
<1>1. CopyInv => CopyUnlessRaced
  BY DEF CopyInv, CopyUnlessRaced, Calm
<1> QED
  BY <1>1, CopyInvariance, PTL

\* A claim is exclusive: two indexers never hold a page no race has touched.
THEOREM ExclusiveClaims == Spec => []OneHolder
<1>1. CopyInv => OneHolder
  BY DEF CopyInv
<1> QED
  BY <1>1, CopyInvariance, PTL

\* What is done is found: a document for each page, its latest save unless a race
\* touched it.
THEOREM SearchTells == Spec => []SearchIsTrue
<1>1. ProcessedIsSearchable /\ CopyUnlessRaced => SearchIsTrue
  BY DEF SearchIsTrue
<1> QED
  BY <1>1, Searchable, ExactCopy, PTL

-----------------------------------------------------------------------------
(***************************************************************************)
(* SearchService, for any searches, rankings, scores and bounds.           *)
(*                                                                         *)
(* First the ranking, which no state is needed for: fusing, cutting,       *)
(* merging and reranking lists gives one list without repetitions, and     *)
(* pages are slices of it.  Then the invariant of the service.             *)
(***************************************************************************)
S == INSTANCE SearchService

-----------------------------------------------------------------------------
(* Lists.                                                                  *)

LessThan == {ss \in Nat \X Nat : ss[1] < ss[2]}

\* A set of naturals that is not empty has a least member.
LEMMA Least ==
  ASSUME NEW X \in SUBSET Nat, X # {}
  PROVE  \E n \in X : \A m \in X : n <= m
<1>0. OpToRel(<, Nat) = LessThan
  BY Zenon DEF OpToRel, LessThan
<1>1. IsWellFoundedOn(LessThan, Nat)
  BY NatLessThanWellFounded, <1>0, Zenon
<1>2. PICK n \in X : \A m \in X : ~ (<<m, n>> \in LessThan)
  BY <1>1, WFMin
<1>3. ASSUME NEW m \in X PROVE n <= m
  <2>1. n \in Nat /\ m \in Nat
    OBVIOUS
  <2>2. m < n => <<m, n>> \in LessThan
    BY <2>1 DEF LessThan
  <2> QED BY <1>2, <2>1, <2>2
<1> QED BY <1>3

\* A list without repetitions, of members of T.
Listing(s, T) ==
  /\ s \in Seq(T)
  /\ \A i, j \in DOMAIN s : s[i] = s[j] => i = j

\* A list has finitely many members, each from the set it is over.
LEMMA MembersAreFinite ==
  ASSUME NEW T, NEW s \in Seq(T)
  PROVE  IsFiniteSet(ToSet(s)) /\ ToSet(s) \subseteq T
<1>1. DOMAIN s = 1 .. Len(s) /\ Len(s) \in Nat
  OBVIOUS
<1>2. IsFiniteSet(1 .. Len(s))
  BY <1>1, FS_Interval
<1>3. s \in Surjection(1 .. Len(s), ToSet(s))
  BY <1>1 DEF ToSet, Surjection
<1>4. ToSet(s) \subseteq T
  BY <1>1 DEF ToSet
<1> QED BY <1>2, <1>3, <1>4, FS_Surjection

\* A member's rank in a list is a place in it, and no other's.
LEMMA RankInList ==
  ASSUME NEW T, NEW s \in Seq(T), NEW d \in ToSet(s)
  PROVE  Rank(s, d) \in 1 .. Len(s) /\ s[Rank(s, d)] = d
<1> DEFINE X == {i \in DOMAIN s : s[i] = d}
<1>1. X \in SUBSET Nat /\ X # {}
  BY DEF ToSet
<1>2. PICK i \in X : \A j \in X : i <= j
  BY <1>1, Least
<1>3. Rank(s, d) \in X
  BY <1>2 DEF Rank
<1> QED BY <1>3

\* Sorting a finite set by weights, ties by different places, lists it.
LEMMA SortedLists ==
  ASSUME NEW T, IsFiniteSet(T), NEW weight, NEW place,
         \A d \in T : weight[d] \in Int /\ place[d] \in Int,
         \A d, e \in T : place[d] = place[e] => d = e
  PROVE  Listing(Sorted(T, weight, place), T)
<1> DEFINE Before(d) == {e \in T : weight[e] > weight[d] \/ (weight[e] = weight[d] /\ place[e] < place[d])}
           count == [d \in T |-> Cardinality(Before(d))]
           n == Cardinality(T)
           s == Sorted(T, weight, place)
<1>1. \A d \in T : Before(d) \in SUBSET (T \ {d}) /\ IsFiniteSet(Before(d)) /\ Cardinality(Before(d)) \in 0 .. n - 1
  <2> SUFFICES ASSUME NEW d \in T
               PROVE  Before(d) \in SUBSET (T \ {d}) /\ IsFiniteSet(Before(d)) /\ Cardinality(Before(d)) \in 0 .. n - 1
    OBVIOUS
  <2>1. Before(d) \in SUBSET (T \ {d})
    OBVIOUS
  <2>2. IsFiniteSet(T \ {d}) /\ Cardinality(T \ {d}) = n - 1
    BY FS_RemoveElement
  <2> HIDE DEF Before
  <2>3. IsFiniteSet(Before(d)) /\ Cardinality(Before(d)) <= n - 1
    BY <2>1, <2>2, FS_Subset
  <2>4. n \in Nat /\ Cardinality(Before(d)) \in Nat
    BY <2>3, FS_CardinalityType
  <2> QED BY <2>1, <2>3, <2>4
<1>2. ASSUME NEW d \in T, NEW e \in T, d \in Before(e) PROVE count[d] < count[e]
  <2>1. Before(d) \in SUBSET (Before(e) \ {d})
    <3>1. ASSUME NEW x \in Before(d) PROVE x \in Before(e) \ {d}
      <4>1. /\ weight[x] \in Int /\ weight[d] \in Int /\ weight[e] \in Int
            /\ place[x] \in Int /\ place[d] \in Int /\ place[e] \in Int
        BY <3>1
      <4> QED BY <1>2, <3>1, <4>1
    <3> QED BY <3>1
  <2>2. IsFiniteSet(Before(e)) /\ Cardinality(Before(e)) \in Nat
    BY <1>1
  <2> HIDE DEF Before
  <2>3. IsFiniteSet(Before(e) \ {d}) /\ Cardinality(Before(e) \ {d}) = Cardinality(Before(e)) - 1
    BY <1>2, <2>2, FS_RemoveElement
  <2>4. Cardinality(Before(d)) <= Cardinality(Before(e)) - 1
    BY <2>1, <2>3, FS_Subset
  <2>5. Cardinality(Before(d)) \in Nat
    BY <1>1
  <2> QED BY <2>2, <2>4, <2>5
<1>3. \A d, e \in T : d # e => d \in Before(e) \/ e \in Before(d)
  OBVIOUS
<1>4. n \in Nat
  BY FS_CardinalityType
<1>5. count \in [T -> 0 .. n - 1] /\ \A d \in T : count[d] = Cardinality(Before(d))
  BY <1>1
<1>6. \A d, e \in T : count[d] = count[e] => d = e
  <2> SUFFICES ASSUME NEW d \in T, NEW e \in T, count[d] = count[e], d # e PROVE FALSE
    OBVIOUS
  <2>1. count[d] \in Int /\ count[e] \in Int
    BY <1>4, <1>5
  <2> QED BY <1>2, <1>3, <2>1
<1>7. s = [r \in 1 .. n |-> CHOOSE d \in T : count[d] = r - 1]
  <2>1. \A d \in T : Cardinality(Before(d)) = count[d]
    BY <1>5
  <2>2. s = [r \in 1 .. Cardinality(T) |-> CHOOSE d \in T : Cardinality(Before(d)) = r - 1]
    BY DEF Sorted
  <2>3. Cardinality(T) = n
    OBVIOUS
  <2> HIDE DEF Before, count, n, s
  <2> QED BY <2>1, <2>2, <2>3
<1> HIDE DEF Before, count, n, s
<1>8. \A r \in 1 .. n : \E d \in T : count[d] = r - 1
  <2>1. count \in Injection(T, 0 .. n - 1)
    BY <1>5, <1>6 DEF Injection, IsInjective
  <2>2. IsFiniteSet(0 .. n - 1) /\ Cardinality(0 .. n - 1) = n
    BY <1>4, FS_Interval
  <2>3. count \in Surjection(T, 0 .. n - 1)
    BY <2>1, <2>2, FS_Injection DEF n
  <2> QED BY <1>4, <2>3 DEF Surjection
<1>9. \A r \in 1 .. n : s[r] \in T /\ count[s[r]] = r - 1
  BY <1>7, <1>8
<1>10. s \in [1 .. n -> T]
  BY <1>7, <1>9
<1>11. s \in Seq(T) /\ DOMAIN s = 1 .. n
  BY <1>4, <1>10
<1>12. ASSUME NEW i \in DOMAIN s, NEW j \in DOMAIN s, s[i] = s[j] PROVE i = j
  <2>1. count[s[i]] = i - 1 /\ count[s[j]] = j - 1 /\ i \in Int /\ j \in Int
    BY <1>4, <1>9, <1>11
  <2> QED BY <1>12, <2>1
<1> QED BY <1>11, <1>12 DEF Listing, s

\* Min and Max of two integers.
LEMMA Extremes ==
  ASSUME NEW m \in Int, NEW n \in Int
  PROVE  /\ Min({m, n}) = IF m <= n THEN m ELSE n
         /\ Max({m, n}) = IF m >= n THEN m ELSE n
<1>1. PICK x \in {m, n} : \A y \in {m, n} : x <= y
  OBVIOUS
<1>2. Min({m, n}) \in {m, n} /\ \A y \in {m, n} : Min({m, n}) <= y
  BY <1>1 DEF Min
<1>3. PICK z \in {m, n} : \A y \in {m, n} : z >= y
  OBVIOUS
<1>4. Max({m, n}) \in {m, n} /\ \A y \in {m, n} : Max({m, n}) >= y
  BY <1>3 DEF Max
<1> QED BY <1>2, <1>4

\* The pipeline asks its stages for a natural number of candidates, and for the same
\* number on every page the candidate pool covers (pool, pipeline.py).
LEMMA PoolSize ==
  ASSUME IsSearch, NEW p \in Nat
  PROVE  /\ p * Limit \in Nat /\ Pool(p) \in Nat
         /\ p * Limit <= CandidatePool => Pool(p) = Min({CandidatePool, MaxWindow})
<1>1. Limit \in Nat /\ CandidatePool \in Nat /\ MaxWindow \in Nat
  BY DEF IsSearch
<1>2. p * Limit \in Nat
  BY <1>1
<1>3. Max({p * Limit, CandidatePool}) = IF p * Limit >= CandidatePool THEN p * Limit ELSE CandidatePool
  BY <1>1, <1>2, Extremes
<1>4. Max({p * Limit, CandidatePool}) \in Nat
  BY <1>1, <1>2, <1>3
<1>5. Pool(p) \in Nat
  <2> DEFINE x == Max({p * Limit, CandidatePool})
  <2>1. x \in Int /\ MaxWindow \in Int
    BY <1>1, <1>4
  <2>2. Min({x, MaxWindow}) = IF x <= MaxWindow THEN x ELSE MaxWindow
    BY <2>1, Extremes
  <2>3. Pool(p) = Min({x, MaxWindow})
    BY DEF Pool
  <2> QED BY <1>1, <1>4, <2>2, <2>3
<1>6. p * Limit <= CandidatePool => Max({p * Limit, CandidatePool}) = CandidatePool
  BY <1>1, <1>2, <1>3
<1> QED BY <1>2, <1>5, <1>6 DEF Pool

\* Cutting a list short leaves a list, without repetitions if it had none.
LEMMA UptoLists ==
  ASSUME NEW T, NEW s \in Seq(T), NEW n \in Nat
  PROVE  /\ Upto(s, n) \in Seq(T)
         /\ Listing(s, T) => Listing(Upto(s, n), T)
<1> DEFINE k == Min({n, Len(s)})
<1>1. k \in Nat /\ k <= Len(s) /\ DOMAIN s = 1 .. Len(s)
  BY Extremes
<1>2. \A i \in 1 .. k : s[i] \in T /\ i \in DOMAIN s
  BY <1>1
<1>3. Upto(s, n) = SubSeq(s, 1, k)
  BY DEF Upto
<1> HIDE DEF k
<1>4. /\ SubSeq(s, 1, k) \in Seq(T) /\ Len(SubSeq(s, 1, k)) = k
      /\ \A i \in 1 .. k : SubSeq(s, 1, k)[i] = s[i]
  <2>1. 1 \in Int /\ k \in Int
    BY <1>1
  <2>2. /\ SubSeq(s,1,k) \in Seq(T)
        /\ Len(SubSeq(s,1,k)) = IF 1 <= k THEN k-1+1 ELSE 0
        /\ \A i \in 1 .. k-1+1 : SubSeq(s,1,k)[i] = s[1+i-1]
    BY <1>2, <2>1, SubSeqProperties
  <2> QED BY <1>1, <2>2
<1>5. DOMAIN SubSeq(s, 1, k) = 1 .. k
  BY <1>4
<1> QED BY <1>1, <1>2, <1>3, <1>4, <1>5 DEF Listing

\* Reciprocal rank fusion repeats no document, whatever its inputs repeat: each is
\* counted once per list and placed once.
LEMMA FusionLists ==
  ASSUME NEW T, NEW a \in Seq(T), NEW b \in Seq(T)
  PROVE  Listing(ReciprocalRankFusion(a, b), T)
<1> DEFINE found == ToSet(a) \cup ToSet(b)
           score == [d \in found |-> FusionScore(a, b, d)]
           better(d) == {e \in found : Outscores(score[d], score[e])}
           weight == [d \in found |-> Cardinality(better(d))]
           place == [d \in found |-> IF d \in ToSet(a) THEN Rank(a, d) ELSE Len(a) + Rank(b, d)]
<1>1. IsFiniteSet(found) /\ found \subseteq T
  BY MembersAreFinite, FS_Union
<1>2. Len(a) \in Nat /\ Len(b) \in Nat
  OBVIOUS
<1>3. \A d \in ToSet(a) : Rank(a, d) \in 1 .. Len(a) /\ a[Rank(a, d)] = d
  BY RankInList
<1>4. \A d \in ToSet(b) : Rank(b, d) \in 1 .. Len(b) /\ b[Rank(b, d)] = d
  BY RankInList
<1>5. ReciprocalRankFusion(a, b) = Sorted(found, weight, place)
  BY DEF ReciprocalRankFusion
<1>6. \A d \in found : weight[d] \in Int
  <2> SUFFICES ASSUME NEW d \in found PROVE weight[d] \in Int
    OBVIOUS
  <2>1. better(d) \in SUBSET found
    OBVIOUS
  <2>2. weight[d] = Cardinality(better(d))
    OBVIOUS
  <2> HIDE DEF better, found, weight
  <2>3. IsFiniteSet(better(d))
    BY <1>1, <2>1, FS_Subset
  <2>4. Cardinality(better(d)) \in Nat
    BY <2>3, FS_CardinalityType
  <2> QED BY <2>2, <2>4
<1>7. \A d \in found : place[d] \in Int
  BY <1>2, <1>3, <1>4
<1>8. \A d, e \in found : place[d] = place[e] => d = e
  <2> SUFFICES ASSUME NEW d \in found, NEW e \in found, place[d] = place[e] PROVE d = e
    OBVIOUS
  <2>1. CASE d \in ToSet(a) /\ e \in ToSet(a)
    BY <1>3, <2>1
  <2>2. CASE d \in ToSet(a) /\ e \notin ToSet(a)
    <3>1. Rank(a, d) \in 1 .. Len(a) /\ Rank(b, e) \in 1 .. Len(b)
      BY <1>3, <1>4, <2>2
    <3>2. Rank(a, d) = Len(a) + Rank(b, e)
      BY <2>2
    <3> QED BY <1>2, <3>1, <3>2
  <2>3. CASE d \notin ToSet(a) /\ e \in ToSet(a)
    <3>1. Rank(a, e) \in 1 .. Len(a) /\ Rank(b, d) \in 1 .. Len(b)
      BY <1>3, <1>4, <2>3
    <3>2. Rank(a, e) = Len(a) + Rank(b, d)
      BY <2>3
    <3> QED BY <1>2, <3>1, <3>2
  <2>4. CASE d \notin ToSet(a) /\ e \notin ToSet(a)
    <3>1. /\ Rank(b, e) \in 1 .. Len(b) /\ Rank(b, d) \in 1 .. Len(b)
          /\ b[Rank(b, e)] = e /\ b[Rank(b, d)] = d
      BY <1>4, <2>4
    <3>2. Len(a) + Rank(b, e) = Len(a) + Rank(b, d)
      BY <2>4
    <3>3. Rank(b, e) = Rank(b, d)
      BY <1>2, <3>1, <3>2
    <3> QED BY <3>1, <3>3
  <2> QED BY <2>1, <2>2, <2>3, <2>4
<1> HIDE DEF found, weight, place
<1>9. Listing(Sorted(found, weight, place), found)
  BY <1>1, <1>6, <1>7, <1>8, SortedLists
<1>10. \A s : Listing(s, found) => Listing(s, T)
  BY <1>1 DEF Listing
<1> QED BY <1>5, <1>9, <1>10

\* Members of a list, sorted with their ranks in it as ties, are listed once each.
LEMMA ByRankLists ==
  ASSUME NEW T, NEW s \in Seq(T), NEW X, X \subseteq ToSet(s), NEW weight, \A d \in X : weight[d] \in Int
  PROVE  Listing(Sorted(X, weight, [d \in X |-> Rank(s, d)]), X)
<1> DEFINE place == [d \in X |-> Rank(s, d)]
<1>1. IsFiniteSet(X)
  BY MembersAreFinite, FS_Subset
<1>2. \A d \in X : place[d] \in Int /\ s[place[d]] = d
  BY RankInList
<1> HIDE DEF place
<1>3. Listing(Sorted(X, weight, place), X)
  BY <1>1, <1>2, SortedLists
<1> QED BY <1>3 DEF place

\* What the pages of a query are cut from is one list without repetitions, all of it
\* documents the index has: for every outcome of the stages, failures included.
LEMMA RankedLists ==
  ASSUME IsSearch, NEW stages \in [Optional -> Status], NEW p \in Nat
  PROVE  Listing(Ranked(stages, p), Indexed)
<1> DEFINE n == Pool(p)
           a == Bm25Hits(stages, n)
           b == DenseHits(stages, n)
           fused == Fused(stages, p)
           known == ToSet(a) \cup (IF stages["hydrate"] = "failed" THEN {} ELSE Indexed)
           kept == ToSet(fused) \cap known
           merged == Merged(stages, p)
<1>1. n \in Nat
  BY PoolSize
<1> HIDE DEF n
<1>2. a \in Seq(Indexed)
  <2>1. Lexical[stages["translation"] = "ok"] \in Seq(Indexed)
    BY DEF IsSearch
  <2> QED BY <1>1, <2>1, UptoLists DEF Bm25Hits
<1>3. b \in Seq(Doc)
  <2>1. Vectors \in Seq(Doc) /\ <<>> \in Seq(Doc)
    BY DEF IsSearch
  <2> QED BY <1>1, <2>1, UptoLists DEF DenseHits
<1>4. a \in Seq(Doc) /\ Indexed \subseteq Doc
  BY <1>2 DEF IsSearch
<1>5. Listing(ReciprocalRankFusion(a, b), Doc)
  BY <1>3, <1>4, FusionLists
<1>6. fused \in Seq(Doc)
  <2>1. fused = Upto(ReciprocalRankFusion(a, b), n)
    BY DEF Fused, n
  <2> QED BY <1>1, <1>5, <2>1, UptoLists DEF Listing
<1>7. known \subseteq Indexed
  BY <1>2, MembersAreFinite
<1>8. merged = Sorted(kept, [d \in kept |-> 0], [d \in kept |-> Rank(fused, d)])
  BY DEF Merged, n
<1> HIDE DEF a, b, fused, known, merged
<1>9. Listing(merged, kept)
  <2>1. \A d \in kept : [e \in kept |-> 0][d] \in Int
    OBVIOUS
  <2>2. kept \subseteq ToSet(fused)
    OBVIOUS
  <2> HIDE DEF kept
  <2> QED BY <1>6, <1>8, <2>1, <2>2, ByRankLists
<1>10. Listing(merged, Indexed)
  BY <1>7, <1>9 DEF Listing
<1>11. CASE stages["rerank"] = "ok"
  <2> DEFINE X == ToSet(merged)
  <2>1. X \subseteq Indexed
    BY <1>10, MembersAreFinite DEF Listing
  <2>2. \A d \in X : Score[d] \in Int
    BY <1>4, <2>1 DEF IsSearch
  <2>3. merged \in Seq(Indexed) /\ X \subseteq ToSet(merged)
    BY <1>10 DEF Listing
  <2>4. Ranked(stages, p) = Sorted(X, Score, [d \in X |-> Rank(merged, d)])
    BY <1>11 DEF Ranked, merged
  <2> HIDE DEF X
  <2>5. Listing(Ranked(stages, p), X)
    BY <2>2, <2>3, <2>4, ByRankLists
  <2> QED BY <2>1, <2>5 DEF Listing
<1>12. CASE stages["rerank"] # "ok"
  BY <1>10, <1>12 DEF Ranked, merged
<1> QED BY <1>11, <1>12

\* The slice of a page: nothing for a page past the end, and a full page before another.
LEMMA Slices ==
  ASSUME NEW T, NEW s, Listing(s, T), NEW from \in Nat \ {0}, NEW upto \in Nat
  PROVE  LET hits == SubSeq(s, from, Min({upto, Len(s)})) IN
         /\ ToSet(hits) = {s[i] : i \in {j \in DOMAIN s : from <= j /\ j <= upto}}
         /\ Len(hits) = IF from <= Min({upto, Len(s)}) THEN Min({upto, Len(s)}) - from + 1 ELSE 0
         /\ hits # <<>> => from <= Len(s)
<1> DEFINE k == Min({upto, Len(s)})
           hits == SubSeq(s, from, k)
<1>1. s \in Seq(T) /\ Len(s) \in Nat /\ DOMAIN s = 1 .. Len(s)
  BY DEF Listing
<1>2. k = IF upto <= Len(s) THEN upto ELSE Len(s)
  BY <1>1, Extremes
<1>3. k \in Nat /\ k <= Len(s) /\ k <= upto
  BY <1>1, <1>2
<1>4. \A i \in from .. k : s[i] \in T
  BY <1>1, <1>3
<1> HIDE DEF k
<1>5. /\ hits \in Seq(T)
      /\ Len(hits) = IF from <= k THEN k - from + 1 ELSE 0
      /\ \A i \in 1 .. k - from + 1 : hits[i] = s[from + i - 1]
  <2>1. from \in Int /\ k \in Int
    BY <1>3
  <2> QED BY <1>4, <2>1, SubSeqProperties
<1>6. DOMAIN hits = 1 .. Len(hits) /\ Len(hits) \in Nat
  BY <1>5
<1> HIDE DEF hits
<1>7. ASSUME NEW x \in ToSet(hits)
      PROVE  x \in {s[i] : i \in {j \in DOMAIN s : from <= j /\ j <= upto}}
  <2>1. PICK i \in DOMAIN hits : x = hits[i]
    BY <1>7 DEF ToSet
  <2>2. i \in Nat /\ 1 <= i /\ i <= k - from + 1 /\ from <= k
    BY <1>3, <1>5, <1>6
  <2>3. x = s[from + i - 1] /\ from + i - 1 \in 1 .. Len(s)
    BY <1>1, <1>3, <1>5, <2>1, <2>2
  <2> QED BY <1>1, <1>3, <2>2, <2>3
<1>8. ASSUME NEW i \in DOMAIN s, from <= i, i <= upto PROVE s[i] \in ToSet(hits)
  <2>0. i \in Int /\ i <= Len(s) /\ i <= upto /\ from <= i
    BY <1>1, <1>8
  <2>1. i <= k
    BY <1>2, <2>0
  <2>2. i - from + 1 \in 1 .. k - from + 1
    BY <1>3, <2>0, <2>1
  <2>3. hits[i - from + 1] = s[i] /\ i - from + 1 \in DOMAIN hits
    <3>1. from + (i - from + 1) - 1 = i
      BY <1>1, <1>8
    <3>2. from <= k
      BY <1>1, <1>3, <1>8, <2>1
    <3> QED BY <1>1, <1>3, <1>5, <1>6, <2>2, <3>1, <3>2
  <2> QED BY <2>3 DEF ToSet
<1>9. hits # <<>> => from <= Len(s)
  <2>1. hits # <<>> => Len(hits) # 0
    BY <1>5
  <2> QED BY <1>1, <1>3, <1>5, <2>1
<1> QED BY <1>5, <1>7, <1>8, <1>9 DEF hits, k

\* The pages of one outcome show indexed documents only, and those within the candidate
\* pool share no hit and leave no page short before another.
LEMMA PagesOfOneRanking ==
  ASSUME IsSearch, NEW stages \in [Optional -> Status], NEW p \in ResultPage
  PROVE  /\ ToSet(Hits(stages, p)) \subseteq Indexed
         /\ \A q \in InPool : p < q => Tiled(stages, p, q)
<1>1. Limit \in Nat \ {0} /\ CandidatePool \in Nat /\ p \in Nat \ {0}
  BY DEF IsSearch
<1> DEFINE R == Ranked(stages, p)
<1>2. Listing(R, Indexed)
  BY <1>1, RankedLists
<1>3. R \in Seq(Indexed) /\ Len(R) \in Nat /\ DOMAIN R = 1 .. Len(R)
  BY <1>2 DEF Listing
<1> DEFINE From(q) == (q - 1) * Limit + 1
           Slice(q) == SubSeq(R, From(q), Min({q * Limit, Len(R)}))
           In(q) == {R[i] : i \in {j \in DOMAIN R : From(q) <= j /\ j <= q * Limit}}
<1>4. ASSUME NEW q \in Nat \ {0}
      PROVE  From(q) \in Nat \ {0} /\ q * Limit \in Nat /\ q * Limit = (q - 1) * Limit + Limit
  <2>1. q - 1 \in Nat
    OBVIOUS
  <2>2. (q - 1) * Limit \in Nat
    BY <1>1, <2>1
  <2>3. q * Limit = (q - 1) * Limit + Limit
    BY <1>1, <2>1
  <2> QED BY <1>1, <2>2, <2>3
<1> HIDE DEF R
<1>5. ASSUME NEW q \in Nat \ {0}
      PROVE  /\ ToSet(Slice(q)) = In(q)
             /\ Len(Slice(q)) = IF From(q) <= Min({q * Limit, Len(R)})
                                THEN Min({q * Limit, Len(R)}) - From(q) + 1 ELSE 0
             /\ Slice(q) # <<>> => From(q) <= Len(R)
  <2>1. From(q) \in Nat \ {0} /\ q * Limit \in Nat
    BY <1>4
  <2> HIDE DEF From
  <2> QED BY <1>2, <2>1, Slices
<1>6. Hits(stages, p) = Slice(p)
  BY DEF Hits, R
<1>7. ToSet(Hits(stages, p)) \subseteq Indexed
  <2>1. In(p) \subseteq Indexed
    BY <1>3
  <2> HIDE DEF In, Slice
  <2> QED BY <1>1, <1>5, <1>6, <2>1
<1>8. ASSUME NEW q \in InPool, p < q PROVE Tiled(stages, p, q)
  <2>1. q \in Nat \ {0} /\ q * Limit <= CandidatePool
    BY <1>1 DEF InPool
  <2>2. p * Limit <= (q - 1) * Limit
    <3>1. p <= q - 1 /\ p \in Nat /\ q - 1 \in Nat /\ Limit \in Nat
      BY <1>1, <1>8, <2>1
    <3>2. PICK m \in Nat : q - 1 = p + m
      <4>1. (q - 1) - p \in Nat /\ q - 1 = p + ((q - 1) - p)
        BY <3>1
      <4> QED BY <4>1
    <3>3. (p + m) * Limit = p * Limit + m * Limit
      BY <3>1, <3>2
    <3>4. p * Limit \in Nat /\ m * Limit \in Nat
      BY <3>1, <3>2
    <3> QED BY <3>2, <3>3, <3>4
  <2>3. p * Limit \in Nat /\ (q - 1) * Limit \in Nat /\ q * Limit = (q - 1) * Limit + Limit /\ From(q) \in Nat \ {0}
    <3>1. q - 1 \in Nat
      BY <2>1
    <3>2. (q - 1) * Limit \in Nat
      BY <1>1, <3>1
    <3> QED BY <1>1, <1>4, <2>1, <3>2
  <2>4. p * Limit <= CandidatePool
    BY <1>1, <2>1, <2>2, <2>3
  <2>5. Pool(q) = Pool(p)
    BY <1>1, <2>1, <2>4, PoolSize
  <2>6. Ranked(stages, q) = R
    BY <2>5 DEF Ranked, Merged, Fused, R
  <2>7. Hits(stages, q) = Slice(q)
    BY <2>6 DEF Hits
  <2>8. ToSet(Slice(p)) \cap ToSet(Slice(q)) = {}
    <3>1. In(p) \cap In(q) = {}
      <4> SUFFICES ASSUME NEW x \in In(p), x \in In(q) PROVE FALSE
        OBVIOUS
      <4>1. PICK i \in DOMAIN R : x = R[i] /\ i <= p * Limit
        OBVIOUS
      <4>2. PICK j \in DOMAIN R : x = R[j] /\ From(q) <= j
        OBVIOUS
      <4>3. i = j
        BY <1>2, <4>1, <4>2 DEF Listing
      <4>4. i \in Int /\ j \in Int
        BY <1>3
      <4> QED BY <2>2, <2>3, <4>1, <4>2, <4>3, <4>4
    <3> HIDE DEF In, Slice
    <3> QED BY <1>1, <1>5, <2>1, <3>1
  <2>9. ASSUME Slice(q) # <<>> PROVE Len(Slice(p)) = Limit
    <3>1. From(q) <= Len(R)
      BY <1>5, <2>1, <2>9
    <3>2. p * Limit <= Len(R)
      BY <1>3, <2>2, <2>3, <3>1
    <3>3. Min({p * Limit, Len(R)}) = p * Limit
      BY <1>3, <2>3, <3>2, Extremes
    <3>4. From(p) <= p * Limit /\ p * Limit - From(p) + 1 = Limit
      <4>1. p - 1 \in Nat
        BY <1>1
      <4>2. (p - 1) * Limit \in Nat /\ p * Limit = (p - 1) * Limit + Limit
        BY <1>1, <1>4, <4>1
      <4> QED BY <1>1, <2>3, <4>2
    <3> HIDE DEF From
    <3> QED BY <1>1, <1>5, <3>3, <3>4
  <2> HIDE DEF Slice
  <2> QED BY <1>6, <2>7, <2>8, <2>9 DEF Tiled
<1> QED BY <1>7, <1>8

\* So every outcome of the stages, with every page that is let through, is among the
\* sound ones that PagesTile speaks of.
LEMMA AllSound ==
  ASSUME IsSearch, NEW stages \in [Optional -> Status], NEW p \in ResultPage, Valid(p)
  PROVE  <<stages, p>> \in Sound
<1>1. <<stages, p>> \in Outcome
  BY DEF Outcome
<1> QED BY <1>1, PagesOfOneRanking DEF Sound, Listed

-----------------------------------------------------------------------------
(* The invariant.                                                          *)

CallRecord ==
  [at : {"idle", "sending", "waiting", "answered"}, attempt : 0 .. 2,
   page : ResultPage \cup {1}, left : 0 .. Deadline, http : {0, 200, 400, 502, 503, 504},
   degraded : BOOLEAN, hurt : BOOLEAN]
RpcRecord ==
  [at : S!Step, page : ResultPage \cup {1}, left : 0 .. Deadline,
   stages : [S!Optional -> S!Status], hurt : BOOLEAN]

\* What was degraded is told by the answer; a page is asked for until then.
GoodCall(r) ==
  /\ r \in CallRecord
  /\ r.at \in {"sending", "waiting"} => r.page \in ResultPage
  /\ r.at # "answered" => r.http = 0
  /\ r.http = 200 => (r.degraded <=> r.hurt)

\* A stage has no mark before its step, so that none is overwritten.
GoodRpc(r) ==
  /\ r \in RpcRecord
  /\ r.at # "none" => r.page \in ResultPage
  /\ r.at \notin {"none", "queued"} => S!Valid(r.page)
  /\ r.at \in {"none", "queued", "dense"} => r.stages = S!NotRun
  /\ r.at = "translation" => r.stages["translation"] = "none"
  /\ r.at # "rerank" => r.stages["hydrate"] = "none"
  /\ r.stages["rerank"] = "none"
  /\ r.hurt <=> S!Degraded(r.stages)

\* Since the drain began, a handler somebody waits for has had what is gone of the grace.
DrainInv ==
  life = "draining" =>
    \A h \in S!Attempt :
      rpc[h].at # "none" /\ call[h[1]].at = "waiting" /\ call[h[1]].attempt = h[2] =>
        call[h[1]].left + (Grace - grace) <= Deadline

CallsGood == call \in [Call -> CallRecord] /\ \A c \in Call : GoodCall(call[c])
RpcsGood == rpc \in [S!Attempt -> RpcRecord] /\ \A h \in S!Attempt : GoodRpc(rpc[h])
ServerTyped ==
  /\ life \in {"down", "up", "draining"} /\ grace \in 0 .. Grace /\ restarts \in 0 .. MaxRestarts
FuturesTyped == future \in [S!Attempt -> {"none", "running", "ok", "failed"}]
ServiceInv == CallsGood /\ RpcsGood /\ FuturesTyped /\ ServerTyped /\ DrainInv

\* Giving a stage that has no status one degrades the answer exactly when it failed.
LEMMA Marking ==
  ASSUME NEW stages \in [S!Optional -> S!Status], NEW x \in S!Optional, stages[x] = "none", NEW mark
  PROVE  S!Degraded([stages EXCEPT ![x] = mark]) <=> S!Degraded(stages) \/ mark = "failed"
BY DEF S!Degraded

\* A search not yet made and a handler not yet begun are as the invariant wants them.
LEMMA BlankRecords ==
  ASSUME S!IsSearch
  PROVE  /\ GoodCall(S!NotCalled) /\ GoodRpc(S!NoRpc) /\ S!NoRpc.at = "none" /\ S!NotCalled.at = "idle"
         /\ ~S!Degraded(S!NotRun) /\ S!NotRun \in [S!Optional -> S!Status]
<1>1. ~S!Degraded(S!NotRun) /\ S!NotRun \in [S!Optional -> S!Status]
  BY DEF S!Degraded, S!NotRun, S!Optional, S!Status
<1>2. GoodCall(S!NotCalled)
  BY DEF GoodCall, CallRecord, S!NotCalled, S!IsSearch
<1>3. GoodRpc(S!NoRpc)
  <2>1. S!NoRpc \in RpcRecord
    BY <1>1 DEF RpcRecord, S!NoRpc, S!IsSearch, S!Step
  <2> QED BY <1>1, <2>1 DEF GoodRpc, S!NoRpc, S!NotRun, S!Optional
<1> QED BY <1>1, <1>2, <1>3 DEF S!NoRpc, S!NotCalled

\* An answer that is an error carries no claim about stages.
LEMMA GoodAnswers ==
  ASSUME S!IsSearch, NEW http \in {400, 502, 503, 504}
  PROVE  GoodCall(S!Answer(http)) /\ S!Answer(http).at = "answered"
<1> DEFINE x == S!NotCalled
           r == [x EXCEPT !.at = "answered", !.http = http]
<1>1. x \in CallRecord /\ GoodCall(x)
  BY BlankRecords DEF GoodCall
<1>2. S!Answer(http) = r
  BY DEF S!Answer
<1> HIDE DEF x
<1>3. r \in CallRecord /\ r.at = "answered" /\ r.http = http
  <2> DEFINE y == [x EXCEPT !.at = "answered"]
  <2>1. y \in CallRecord /\ y.at = "answered"
    BY <1>1 DEF CallRecord
  <2>2. r = [y EXCEPT !.http = http]
    OBVIOUS
  <2> HIDE DEF y, r
  <2> QED BY <2>1, <2>2 DEF CallRecord
<1> HIDE DEF r
<1> QED BY <1>2, <1>3 DEF GoodCall

\* Calls move on, but start to wait only by Send.
CallsOnward ==
  /\ call' \in [Call -> CallRecord] /\ \A c \in Call : GoodCall(call'[c])
  /\ \A c \in Call : call'[c].at = "waiting" => call'[c] = call[c]

\* A change of one search to a record that does not wait.
LEMMA CallChanges ==
  ASSUME CallsGood, NEW c \in Call, NEW r, GoodCall(r), r.at # "waiting", call' = [call EXCEPT ![c] = r]
  PROVE  CallsOnward
<1>1. \A d \in Call : call'[d] = call[d] \/ call'[d] = r
  BY DEF CallsGood
<1>2. r \in CallRecord
  BY DEF GoodCall
<1> QED BY <1>1, <1>2 DEF CallsGood, CallsOnward

\* Searches that stay as they are.
LEMMA CallsStay == ASSUME CallsGood, call' = call PROVE CallsOnward
BY DEF CallsGood, CallsOnward

\* An error answers its search.
LEMMA AnswerEnds ==
  ASSUME S!IsSearch, CallsGood, NEW c \in Call,
         \E http \in {400, 502, 503, 504} : call' = S!Answered(c, http)
  PROVE  CallsOnward
<1>0. PICK http \in {400, 502, 503, 504} : call' = S!Answered(c, http)
  OBVIOUS
<1> DEFINE r == S!Answer(http)
<1>1. call' = [call EXCEPT ![c] = r]
  BY <1>0 DEF S!Answered
<1>2. GoodCall(r) /\ r.at # "waiting"
  BY GoodAnswers
<1> HIDE DEF r
<1>3. r \in CallRecord
  BY <1>2 DEF GoodCall
<1>4. call' \in [Call -> CallRecord] /\ \A d \in Call : call'[d] = call[d] \/ call'[d] = r
  BY <1>1, <1>3 DEF CallsGood
<1> QED BY <1>2, <1>4 DEF CallsGood, CallsOnward

\* An UNAVAILABLE ends the search or sends it once more (retryPolicy).
LEMMA GivenUp ==
  ASSUME S!IsSearch, CallsGood, NEW c \in Call, call[c].at \in {"sending", "waiting"}, S!Unavailable(c)
  PROVE  CallsOnward
<1>1. CASE call' = S!Answered(c, 503)
  <2>1. \E http \in {400, 502, 503, 504} : call' = S!Answered(c, http)
    BY <1>1
  <2> QED BY <1>1, <2>1, AnswerEnds
<1>2. CASE call[c].attempt = 1 /\ call' = [call EXCEPT ![c].at = "sending", ![c].attempt = 2]
  <2> DEFINE r == [call[c] EXCEPT !.at = "sending", !.attempt = 2]
  <2>1. call' = [call EXCEPT ![c] = r]
    BY <1>2 DEF CallsGood
  <2>2. GoodCall(r) /\ r.at # "waiting"
    <3>1. GoodCall(call[c]) /\ call[c] \in CallRecord
      BY DEF CallsGood
    <3>2. r \in CallRecord /\ r.at = "sending" /\ r.http = call[c].http /\ r.page = call[c].page
      <4> DEFINE y == [call[c] EXCEPT !.at = "sending"]
      <4>1. y \in CallRecord /\ y.at = "sending" /\ y.http = call[c].http /\ y.page = call[c].page
        BY <3>1 DEF CallRecord
      <4>2. r = [y EXCEPT !.attempt = 2]
        OBVIOUS
      <4> HIDE DEF y, r
      <4> QED BY <4>1, <4>2 DEF CallRecord
    <3>3. r.page \in ResultPage /\ r.http = 0
      BY <3>1, <3>2 DEF GoodCall
    <3> HIDE DEF r
    <3> QED BY <3>2, <3>3 DEF GoodCall
  <2> HIDE DEF r
  <2> QED BY <2>1, <2>2, CallChanges
<1> QED BY <1>1, <1>2 DEF S!Unavailable

\* A step of one handler, or of the clients alone.
LEMMA HandlerMoves ==
  ASSUME ServiceInv, CallsOnward, FuturesTyped', UNCHANGED <<life, grace, restarts>>,
         NEW h \in S!Attempt, NEW r, GoodRpc(r), rpc' = [rpc EXCEPT ![h] = r], r.at # "none" => rpc[h].at # "none"
  PROVE  ServiceInv'
<1>1. \A g \in S!Attempt : rpc'[g] = rpc[g] \/ (g = h /\ rpc'[g] = r)
  BY DEF ServiceInv, RpcsGood
<1>2. RpcsGood'
  BY <1>1 DEF ServiceInv, RpcsGood, GoodRpc
<1>3. \A g \in S!Attempt : g[1] \in Call
  BY DEF S!Attempt
<1>4. DrainInv'
  BY <1>1, <1>3 DEF ServiceInv, DrainInv, CallsOnward
<1> QED BY <1>2, <1>4 DEF ServiceInv, ServerTyped, CallsOnward, CallsGood

\* A step of the clients alone: handlers and server stay as they are.
LEMMA ClientMoves ==
  ASSUME ServiceInv, CallsOnward, FuturesTyped', UNCHANGED <<rpc, life, grace, restarts>>
  PROVE  ServiceInv'
<1>1. \A g \in S!Attempt : g[1] \in Call
  BY DEF S!Attempt
<1>2. DrainInv'
  BY <1>1 DEF ServiceInv, DrainInv, CallsOnward
<1> QED BY <1>2 DEF ServiceInv, RpcsGood, ServerTyped, CallsOnward, CallsGood

\* A handler that leaves with an error gives its attempt up, whoever listens.
LEMMA Replies ==
  ASSUME S!IsSearch, ServiceInv, NEW h \in S!Attempt, FuturesTyped', UNCHANGED <<life, grace, restarts>>,
         \/ \E http \in {400, 502, 504} : S!Reply(h, http)
         \/ S!ReplyUnavailable(h)
  PROVE  ServiceInv'
<1>1. h[1] \in Call
  BY DEF S!Attempt
<1>2. CallsOnward
  <2>1. CASE call' = call
    BY <2>1, CallsStay DEF ServiceInv
  <2>2. ASSUME NEW http \in {400, 502, 504}, call' = S!Answered(h[1], http) PROVE CallsOnward
    BY <1>1, <2>2, AnswerEnds DEF ServiceInv
  <2>3. CASE S!Listens(h) /\ S!Unavailable(h[1])
    BY <1>1, <2>3, GivenUp DEF ServiceInv, S!Listens
  <2> QED BY <2>1, <2>2, <2>3 DEF S!Reply, S!ReplyUnavailable
<1>3. rpc' = [rpc EXCEPT ![h] = S!NoRpc]
  BY DEF S!Reply, S!ReplyUnavailable
<1> QED BY <1>2, <1>3, BlankRecords, HandlerMoves

\* A handler whose stage gets a status stays honest: no earlier status is overwritten,
\* and the fault it notes is the failure it records.
LEMMA MarkedIsGood ==
  ASSUME S!IsSearch, ServiceInv, NEW h \in S!Attempt,
         NEW step \in {"translation", "bm25", "rerank"}, NEW x \in S!Optional,
         NEW mark \in {"ok", "skipped", "failed"}, NEW fault \in BOOLEAN, fault <=> mark = "failed",
         step = "translation" => rpc[h].at = "dense" /\ x = "dense",
         step = "bm25" => rpc[h].at = "translation" /\ x = "translation",
         step = "rerank" => rpc[h].at = "merge" /\ x = "hydrate"
  PROVE  GoodRpc(S!Marked(h, step, x, mark, fault)) /\ rpc[h].at # "none"
<1> DEFINE q == rpc[h]
           y == [q EXCEPT !.at = step]
           z == [y EXCEPT !.stages = [q.stages EXCEPT ![x] = mark]]
           r == [z EXCEPT !.hurt = q.hurt \/ fault]
<1>1. q \in RpcRecord /\ GoodRpc(q)
  BY DEF ServiceInv, RpcsGood
<1>2. S!Marked(h, step, x, mark, fault) = r
  BY <1>1 DEF S!Marked, RpcRecord
<1>3. rpc[h].at \in {"dense", "translation", "merge"}
  OBVIOUS
<1> HIDE DEF q
<1>4. q.stages \in [S!Optional -> S!Status] /\ q.hurt \in BOOLEAN
  BY <1>1 DEF RpcRecord
<1>5. y \in RpcRecord /\ y.at = step /\ y.page = q.page /\ y.stages = q.stages /\ y.hurt = q.hurt
  BY <1>1 DEF RpcRecord, S!Step
<1>6. [q.stages EXCEPT ![x] = mark] \in [S!Optional -> S!Status]
  BY <1>4 DEF S!Status
<1> HIDE DEF y
<1>7. /\ z \in RpcRecord /\ z.at = step /\ z.page = q.page /\ z.hurt = q.hurt
      /\ z.stages = [q.stages EXCEPT ![x] = mark]
  BY <1>5, <1>6 DEF RpcRecord
<1> HIDE DEF z
<1>8. /\ r \in RpcRecord /\ r.at = step /\ r.page = q.page /\ r.hurt = (q.hurt \/ fault)
      /\ r.stages = [q.stages EXCEPT ![x] = mark]
  BY <1>7, <1>4 DEF RpcRecord
<1> HIDE DEF r
<1>9. q.stages[x] = "none"
  BY <1>1, <1>3 DEF GoodRpc, q, S!NotRun
<1>10. r.hurt <=> S!Degraded(r.stages)
  BY <1>1, <1>4, <1>8, <1>9, Marking DEF GoodRpc
<1>11. q.at \in {"dense", "translation", "merge"} /\ q.page \in ResultPage /\ S!Valid(q.page)
  BY <1>1, <1>3 DEF GoodRpc, q
<1>12. /\ r.stages["rerank"] = "none"
       /\ step # "rerank" => r.stages["hydrate"] = "none"
       /\ step = "translation" => r.stages["translation"] = "none"
  <2>1. \A o \in S!Optional : o # x => r.stages[o] = q.stages[o]
    BY <1>4, <1>8
  <2>2. q.stages["rerank"] = "none" /\ q.stages["hydrate"] = "none"
    BY <1>1, <1>11 DEF GoodRpc
  <2>3. step = "translation" => q.stages["translation"] = "none"
    BY <1>1 DEF GoodRpc, q, S!NotRun, S!Optional
  <2> QED BY <2>1, <2>2, <2>3 DEF S!Optional
<1>13. GoodRpc(r)
  BY <1>8, <1>10, <1>11, <1>12 DEF GoodRpc
<1> QED BY <1>2, <1>3, <1>13

\* A handler that goes on without a mark.
LEMMA GoneOnIsGood ==
  ASSUME S!IsSearch, ServiceInv, NEW h \in S!Attempt,
         NEW step \in {"dense", "merge", "rerank"}, rpc' = S!Goto(h, step),
         step = "dense" => rpc[h].at = "queued" /\ S!Valid(rpc[h].page),
         step = "merge" => rpc[h].at = "bm25",
         step = "rerank" => rpc[h].at = "merge"
  PROVE  GoodRpc([rpc[h] EXCEPT !.at = step]) /\ rpc[h].at # "none" /\ rpc' = [rpc EXCEPT ![h] = [rpc[h] EXCEPT !.at = step]]
<1> DEFINE q == rpc[h]
           r == [q EXCEPT !.at = step]
<1>1. q \in RpcRecord /\ GoodRpc(q)
  BY DEF ServiceInv, RpcsGood
<1>2. q.at \in {"queued", "bm25", "merge"}
  OBVIOUS
<1>3. rpc' = [rpc EXCEPT ![h] = r]
  BY DEF S!Goto, ServiceInv, RpcsGood
<1>4. S!Valid(q.page)
  BY <1>1, <1>2 DEF GoodRpc
<1>5. step = "dense" => q.at = "queued"
  OBVIOUS
<1> HIDE DEF q
<1>6. r \in RpcRecord /\ r.at = step /\ r.page = q.page /\ r.stages = q.stages /\ r.hurt = q.hurt
  BY <1>1 DEF RpcRecord, S!Step
<1> HIDE DEF r
<1>7. GoodRpc(r)
  BY <1>1, <1>2, <1>4, <1>5, <1>6 DEF GoodRpc, S!NotRun, S!Optional
<1> QED BY <1>2, <1>3, <1>7 DEF r, q

\* An attempt reaches the server, is refused, or finds none: a new handler has as long
\* as its client, and a draining server accepts none.
LEMMA SendKeeps ==
  ASSUME S!IsSearch, ServiceInv, NEW c \in Call, S!Send(c)
  PROVE  ServiceInv'
<1> DEFINE h == <<c, call[c].attempt>>
           q == call[c]
<1>1. q \in CallRecord /\ GoodCall(q) /\ q.at = "sending"
  BY DEF ServiceInv, CallsGood, S!Send
<1>2. FuturesTyped' /\ UNCHANGED <<life, grace, restarts>>
  BY DEF ServiceInv, FuturesTyped, S!Send, S!server
<1>3. ASSUME UNCHANGED rpc, \/ call' = S!Answered(c, 502)
                            \/ S!Unavailable(c)
      PROVE  ServiceInv'
  <2>1. CallsOnward
    <3>1. CASE call' = S!Answered(c, 502)
      <4>1. \E http \in {400, 502, 503, 504} : call' = S!Answered(c, http)
        BY <3>1
      <4> QED BY <4>1, AnswerEnds DEF ServiceInv
    <3>2. CASE S!Unavailable(c)
      BY <1>1, <3>2, GivenUp DEF ServiceInv
    <3> QED BY <1>3, <3>1, <3>2
  <2> QED BY <1>2, <1>3, <2>1, ClientMoves
<1>4. CASE /\ S!Accepts
           /\ rpc' = [rpc EXCEPT ![h] = [S!NoRpc EXCEPT !.at = "queued", !.page = q.page, !.left = q.left]]
           /\ call' = [call EXCEPT ![c].at = "waiting"]
  <2> DEFINE y == [S!NoRpc EXCEPT !.at = "queued"]
             z == [y EXCEPT !.page = q.page]
             r == [z EXCEPT !.left = q.left]
             k == [q EXCEPT !.at = "waiting"]
  <2>1. k \in CallRecord /\ k.at = "waiting" /\ k.page = q.page /\ k.http = q.http
    BY <1>1 DEF CallRecord
  <2>2. call' = [call EXCEPT ![c] = k]
    BY <1>4 DEF ServiceInv, CallsGood
  <2> HIDE DEF k
  <2>3. CallsGood'
    <3>1. GoodCall(k)
      BY <1>1, <2>1 DEF GoodCall
    <3>2. call' \in [Call -> CallRecord] /\ \A d \in Call : call'[d] = call[d] \/ call'[d] = k
      BY <2>1, <2>2 DEF ServiceInv, CallsGood
    <3> QED BY <3>1, <3>2 DEF ServiceInv, CallsGood
  <2>4. rpc' = [rpc EXCEPT ![h] = r]
    BY <1>4
  <2>5. q.page \in ResultPage /\ q.left \in 0 .. Deadline
    BY <1>1 DEF GoodCall, CallRecord
  <2>6. S!NoRpc \in RpcRecord /\ GoodRpc(S!NoRpc) /\ S!NoRpc.stages = S!NotRun
    BY BlankRecords DEF GoodRpc, S!NoRpc
  <2> HIDE DEF q, h
  <2>7. y \in RpcRecord /\ y.at = "queued" /\ y.stages = S!NotRun /\ y.hurt = S!NoRpc.hurt
    BY <2>6 DEF RpcRecord, S!Step
  <2> HIDE DEF y
  <2>8. z \in RpcRecord /\ z.at = "queued" /\ z.stages = S!NotRun /\ z.hurt = S!NoRpc.hurt /\ z.page = q.page
    BY <2>5, <2>7 DEF RpcRecord
  <2> HIDE DEF z
  <2>9. r \in RpcRecord /\ r.at = "queued" /\ r.stages = S!NotRun /\ r.hurt = S!NoRpc.hurt /\ r.page = q.page
    BY <2>5, <2>8 DEF RpcRecord
  <2> HIDE DEF r
  <2>10. GoodRpc(r)
    <3>1. S!NoRpc.hurt <=> S!Degraded(S!NotRun)
      BY <2>6 DEF GoodRpc
    <3> QED BY <2>5, <2>9, <3>1 DEF GoodRpc, S!NotRun, S!Optional
  <2>11. RpcsGood'
    <3>1. rpc' \in [S!Attempt -> RpcRecord] /\ \A g \in S!Attempt : rpc'[g] = rpc[g] \/ rpc'[g] = r
      BY <2>4, <2>9 DEF ServiceInv, RpcsGood
    <3> QED BY <2>10, <3>1 DEF ServiceInv, RpcsGood
  <2>12. DrainInv'
    BY <1>2, <1>4 DEF DrainInv, S!Accepts
  <2> QED BY <1>2, <2>3, <2>11, <2>12 DEF ServiceInv, ServerTyped
<1> QED BY <1>3, <1>4 DEF S!Send

\* A search is made, loses its connection, or runs out of time.
LEMMA ClientsKeep ==
  ASSUME S!IsSearch, ServiceInv, NEW c \in Call,
         \/ S!Disconnect(c) \/ S!DeadlinePasses(c)
         \/ \E p \in ResultPage : S!Search(c, p)
  PROVE  ServiceInv'
<1>1. FuturesTyped' /\ UNCHANGED <<rpc, life, grace, restarts>>
  BY DEF ServiceInv, FuturesTyped, S!Disconnect, S!DeadlinePasses, S!Search, S!server
<1>2. CASE S!Disconnect(c)
  <2>1. CallsOnward
    BY <1>2, GivenUp DEF ServiceInv, S!Disconnect
  <2> QED BY <1>1, <2>1, ClientMoves
<1>3. CASE S!DeadlinePasses(c)
  <2>1. \E http \in {400, 502, 503, 504} : call' = S!Answered(c, http)
    BY <1>3 DEF S!DeadlinePasses
  <2>2. CallsOnward
    BY <2>1, AnswerEnds DEF ServiceInv
  <2> QED BY <1>1, <2>2, ClientMoves
<1>4. ASSUME NEW p \in ResultPage, S!Search(c, p) PROVE ServiceInv'
  <2> DEFINE q == call[c]
             y == [q EXCEPT !.at = "sending"]
             z == [y EXCEPT !.attempt = 1]
             r == [z EXCEPT !.page = p]
  <2>1. q \in CallRecord /\ GoodCall(q) /\ q.at = "idle"
    BY <1>4 DEF ServiceInv, CallsGood, S!Search
  <2>2. call' = [call EXCEPT ![c] = r]
    BY <1>4 DEF ServiceInv, CallsGood, S!Search
  <2>3. q.http = 0
    BY <2>1 DEF GoodCall
  <2> HIDE DEF q
  <2>4. y \in CallRecord /\ y.at = "sending" /\ y.http = 0
    BY <2>1, <2>3 DEF CallRecord
  <2> HIDE DEF y
  <2>5. z \in CallRecord /\ z.at = "sending" /\ z.http = 0
    BY <2>4 DEF CallRecord
  <2> HIDE DEF z
  <2>6. r \in CallRecord /\ r.at = "sending" /\ r.http = 0 /\ r.page = p
    BY <2>5 DEF CallRecord
  <2> HIDE DEF r
  <2>7. GoodCall(r)
    BY <2>6 DEF GoodCall
  <2>8. call' \in [Call -> CallRecord] /\ \A d \in Call : call'[d] = call[d] \/ call'[d] = r
    BY <2>2, <2>6 DEF ServiceInv, CallsGood
  <2>9. CallsOnward
    BY <2>6, <2>7, <2>8 DEF CallsOnward, ServiceInv, CallsGood
  <2> QED BY <1>1, <2>9, ClientMoves
<1> QED BY <1>2, <1>3, <1>4

\* An answer with hits tells what its own handler knows.
LEMMA RespondKeeps ==
  ASSUME S!IsSearch, ServiceInv, NEW h \in S!Attempt, FuturesTyped', UNCHANGED <<life, grace, restarts>>,
         NEW ending, ending.hurt \in BOOLEAN, ending.hurt <=> S!Degraded(ending.stages), S!Respond(h, ending)
  PROVE  ServiceInv'
<1> DEFINE c == h[1]
           D == S!Degraded(ending.stages)
           x == S!Answer(200)
           y == [x EXCEPT !.degraded = D]
           r == [y EXCEPT !.hurt = ending.hurt]
<1>1. c \in Call
  BY DEF S!Attempt
<1>2. rpc' = [rpc EXCEPT ![h] = S!NoRpc]
  BY DEF S!Respond
<1>3. CASE call' = call
  BY <1>2, <1>3, CallsStay, BlankRecords, HandlerMoves DEF ServiceInv
<1>4. CASE call' = [S!Answered(c, 200) EXCEPT ![c].degraded = D, ![c].hurt = ending.hurt]
  <2>1. x \in CallRecord /\ x.at = "answered" /\ x.http = 200
    <3> DEFINE n == S!NotCalled
               m == [n EXCEPT !.at = "answered"]
    <3>1. n \in CallRecord
      BY BlankRecords DEF GoodCall
    <3>2. x = [m EXCEPT !.http = 200]
      BY DEF S!Answer
    <3> HIDE DEF n, x
    <3>3. m \in CallRecord /\ m.at = "answered"
      BY <3>1 DEF CallRecord
    <3> HIDE DEF m
    <3> QED BY <3>2, <3>3 DEF CallRecord
  <2>2. D \in BOOLEAN
    BY DEF S!Degraded
  <2>3. call' = [call EXCEPT ![c] = r]
    BY <1>1, <1>4 DEF S!Answered, ServiceInv, CallsGood
  <2> HIDE DEF x, D
  <2>4. y \in CallRecord /\ y.at = "answered" /\ y.http = 200 /\ y.degraded = D
    BY <2>1, <2>2 DEF CallRecord
  <2> HIDE DEF y
  <2>5. r \in CallRecord /\ r.at = "answered" /\ r.http = 200 /\ r.degraded = D /\ r.hurt = ending.hurt
    BY <2>4 DEF CallRecord
  <2> HIDE DEF r
  <2>6. GoodCall(r)
    BY <2>5 DEF GoodCall, D
  <2>7. call' \in [Call -> CallRecord] /\ \A d \in Call : call'[d] = call[d] \/ call'[d] = r
    BY <2>3, <2>5 DEF ServiceInv, CallsGood
  <2>8. CallsOnward
    BY <2>5, <2>6, <2>7 DEF CallsOnward, ServiceInv, CallsGood
  <2> QED BY <1>2, <2>8, BlankRecords, HandlerMoves
<1> QED BY <1>3, <1>4 DEF S!Respond

\* Each step of the pipeline, and the end of a translation.
LEMMA HandlerKeeps ==
  ASSUME S!IsSearch, ServiceInv, NEW h \in S!Attempt, S!Handle(h) \/ S!TranslationEnds(h)
  PROVE  ServiceInv'
<1>0. UNCHANGED <<life, grace, restarts>>
  BY DEF S!Handle, S!Begin, S!Dense, S!FinishTranslation, S!Bm25, S!Merge, S!Rerank, S!TranslationEnds, S!server
<1>c. call' = call => CallsOnward
  BY CallsStay DEF ServiceInv
<1>f. FuturesTyped'
  <2>1. future' = future \/ \E f \in {"none", "running", "ok", "failed"} : future' = [future EXCEPT ![h] = f]
    BY DEF S!Handle, S!Begin, S!Dense, S!FinishTranslation, S!Bm25, S!Merge, S!Rerank, S!TranslationEnds
  <2> QED BY <2>1 DEF ServiceInv, FuturesTyped
<1>g. ASSUME NEW step \in {"dense", "merge", "rerank"}, rpc' = S!Goto(h, step), call' = call,
             step = "dense" => rpc[h].at = "queued" /\ S!Valid(rpc[h].page),
             step = "merge" => rpc[h].at = "bm25",
             step = "rerank" => rpc[h].at = "merge"
      PROVE  ServiceInv'
  <2> DEFINE r == [rpc[h] EXCEPT !.at = step]
  <2>1. GoodRpc(r) /\ rpc[h].at # "none" /\ rpc' = [rpc EXCEPT ![h] = r]
    BY <1>g, GoneOnIsGood
  <2> HIDE DEF r
  <2> QED BY <1>0, <1>c, <1>f, <1>g, <2>1, HandlerMoves
<1>m. ASSUME NEW step \in {"translation", "bm25", "rerank"}, NEW x \in S!Optional,
             NEW mark \in {"ok", "skipped", "failed"}, NEW fault \in BOOLEAN, fault <=> mark = "failed",
             step = "translation" => rpc[h].at = "dense" /\ x = "dense",
             step = "bm25" => rpc[h].at = "translation" /\ x = "translation",
             step = "rerank" => rpc[h].at = "merge" /\ x = "hydrate",
             S!Mark(h, step, x, mark, fault), call' = call
      PROVE  ServiceInv'
  <2> DEFINE r == S!Marked(h, step, x, mark, fault)
  <2>1. GoodRpc(r) /\ rpc[h].at # "none"
    BY <1>m, MarkedIsGood
  <2>2. rpc' = [rpc EXCEPT ![h] = r]
    BY <1>m DEF S!Mark
  <2> HIDE DEF r
  <2> QED BY <1>0, <1>c, <1>f, <1>m, <2>1, <2>2, HandlerMoves
<1>1. CASE S!Begin(h)
  <2>1. CASE rpc' = [rpc EXCEPT ![h] = S!NoRpc] /\ call' = call
    BY <1>0, <1>c, <1>f, <2>1, BlankRecords, HandlerMoves
  <2>2. CASE S!Reply(h, 400)
    <3>1. \E http \in {400, 502, 504} : S!Reply(h, http)
      BY <2>2
    <3> QED BY <1>0, <1>f, <3>1, Replies
  <2>3. CASE S!Valid(S!PageOf(h)) /\ rpc' = S!Goto(h, "dense") /\ call' = call
    BY <1>1, <1>g, <2>3 DEF S!Begin, S!At, S!PageOf
  <2> QED BY <1>1, <2>1, <2>2, <2>3 DEF S!Begin
<1>2. CASE S!Dense(h)
  <2>1. rpc[h].at = "dense" /\ call' = call /\ "dense" \in S!Optional
    BY <1>2 DEF S!Dense, S!At, S!Optional
  <2>2. CASE S!Mark(h, "translation", "dense", "ok", FALSE)
    BY <1>m, <2>1, <2>2
  <2>3. CASE S!Mark(h, "translation", "dense", "failed", TRUE)
    BY <1>m, <2>1, <2>3
  <2> QED BY <1>2, <2>2, <2>3 DEF S!Dense
<1>3. CASE S!FinishTranslation(h)
  <2>1. rpc[h].at = "translation" /\ call' = call /\ "translation" \in S!Optional
    BY <1>3 DEF S!FinishTranslation, S!At, S!Optional
  <2>2. CASE future[h] \in {"ok", "failed"}
    <3>1. PICK mark \in {"ok", "failed"} : mark = future[h]
      BY <2>2
    <3>2. PICK fault \in BOOLEAN : fault = (mark = "failed")
      OBVIOUS
    <3>3. S!Mark(h, "bm25", "translation", mark, fault)
      BY <1>3, <2>2, <3>1, <3>2 DEF S!FinishTranslation
    <3> QED BY <1>m, <2>1, <3>2, <3>3
  <2>3. CASE future[h] \notin {"ok", "failed"}
    <3>1. S!Mark(h, "bm25", "translation", "skipped", FALSE)
      BY <1>3, <2>3 DEF S!FinishTranslation
    <3> QED BY <1>m, <2>1, <3>1
  <2> QED BY <2>2, <2>3
<1>4. CASE S!Bm25(h)
  <2>1. CASE rpc' = S!Goto(h, "merge") /\ call' = call
    BY <1>4, <1>g, <2>1 DEF S!Bm25, S!At
  <2>2. CASE S!Reply(h, 504) \/ S!Reply(h, 502) \/ S!ReplyUnavailable(h)
    <3>1. (\E http \in {400, 502, 504} : S!Reply(h, http)) \/ S!ReplyUnavailable(h)
      BY <2>2
    <3> QED BY <1>0, <1>f, <3>1, Replies
  <2> QED BY <1>4, <2>1, <2>2 DEF S!Bm25
<1>5. CASE S!Merge(h)
  <2>1. rpc[h].at = "merge" /\ call' = call /\ "hydrate" \in S!Optional
    BY <1>5 DEF S!Merge, S!At, S!Optional
  <2>2. CASE rpc' = S!Goto(h, "rerank")
    BY <1>g, <2>1, <2>2
  <2>3. CASE S!Mark(h, "rerank", "hydrate", "ok", FALSE)
    BY <1>m, <2>1, <2>3
  <2>4. CASE S!Mark(h, "rerank", "hydrate", "failed", TRUE)
    BY <1>m, <2>1, <2>4
  <2> QED BY <1>5, <2>2, <2>3, <2>4 DEF S!Merge
<1>6. CASE S!Rerank(h)
  <2> DEFINE q == rpc[h]
  <2>1. q \in RpcRecord /\ GoodRpc(q)
    BY DEF ServiceInv, RpcsGood
  <2>2. CASE S!Respond(h, q)
    <3>1. q.hurt \in BOOLEAN /\ (q.hurt <=> S!Degraded(q.stages))
      BY <2>1 DEF GoodRpc, RpcRecord
    <3> QED BY <1>0, <1>f, <2>2, <3>1, RespondKeeps
  <2>3. ASSUME NEW mark \in {"ok", "failed"}, NEW fault \in BOOLEAN, fault <=> mark = "failed",
               S!Respond(h, S!Marked(h, "rerank", "rerank", mark, fault))
        PROVE  ServiceInv'
    <3> DEFINE r == S!Marked(h, "rerank", "rerank", mark, fault)
    <3>1. r.stages = [q.stages EXCEPT !["rerank"] = mark] /\ r.hurt = (q.hurt \/ fault)
      BY <2>1 DEF S!Marked, RpcRecord
    <3>2. q.stages \in [S!Optional -> S!Status] /\ q.stages["rerank"] = "none" /\ "rerank" \in S!Optional
      BY <2>1 DEF RpcRecord, GoodRpc, S!Optional
    <3>3. q.hurt \in BOOLEAN /\ (q.hurt <=> S!Degraded(q.stages))
      BY <2>1 DEF GoodRpc, RpcRecord
    <3> HIDE DEF q
    <3>4. S!Degraded([q.stages EXCEPT !["rerank"] = mark]) <=> S!Degraded(q.stages) \/ mark = "failed"
      BY <3>2, Marking
    <3> HIDE DEF r
    <3>5. r.hurt \in BOOLEAN /\ (r.hurt <=> S!Degraded(r.stages))
      BY <2>3, <3>1, <3>3, <3>4
    <3>6. S!Respond(h, r)
      BY <2>3 DEF r
    <3> QED BY <1>0, <1>f, <3>5, <3>6, RespondKeeps
  <2>4. CASE S!Respond(h, S!Marked(h, "rerank", "rerank", "ok", FALSE))
    BY <2>3, <2>4
  <2>5. CASE S!Respond(h, S!Marked(h, "rerank", "rerank", "failed", TRUE))
    BY <2>3, <2>5
  <2> QED BY <1>6, <2>2, <2>4, <2>5 DEF S!Rerank
<1>7. CASE S!TranslationEnds(h)
  BY <1>0, <1>7, <1>c, <1>f, ClientMoves DEF S!TranslationEnds
<1> QED BY <1>1, <1>2, <1>3, <1>4, <1>5, <1>6, <1>7 DEF S!Handle

\* A clock that is at zero stays there.
LEMMA Lessening == ASSUME NEW n \in Nat PROVE S!Less(n) = IF n = 0 THEN 0 ELSE n - 1
BY Extremes DEF S!Less, S!Max, Max

\* Time passes for a draining server as for the searches it holds.
LEMMA TickKeeps ==
  ASSUME S!IsSearch, ServiceInv, S!Tick
  PROVE  ServiceInv'
<1>1. Deadline \in Nat /\ Grace \in Nat
  BY DEF S!IsSearch
<1>2. \A n \in 0 .. Deadline : S!Less(n) \in 0 .. Deadline
  BY <1>1, Lessening
<1>3. \A n \in 0 .. Grace : S!Less(n) \in 0 .. Grace
  BY <1>1, Lessening
<1>4. ASSUME NEW c \in Call
      PROVE  /\ call'[c] \in CallRecord /\ GoodCall(call'[c])
             /\ call'[c].at = call[c].at /\ call'[c].attempt = call[c].attempt
             /\ call[c].at = "waiting" => call'[c].left = S!Less(call[c].left)
  <2> DEFINE q == call[c]
             r == [q EXCEPT !.left = S!Less(q.left)]
  <2>1. q \in CallRecord /\ GoodCall(q)
    BY DEF ServiceInv, CallsGood
  <2>2. call'[c] = (IF S!Pending(c) THEN r ELSE q)
    BY DEF S!Tick
  <2>3. q.left \in 0 .. Deadline
    BY <2>1 DEF CallRecord
  <2>4. q.at = "waiting" => S!Pending(c)
    BY DEF S!Pending
  <2> HIDE DEF q
  <2>5. /\ r \in CallRecord /\ r.at = q.at /\ r.attempt = q.attempt /\ r.page = q.page
        /\ r.http = q.http /\ r.degraded = q.degraded /\ r.hurt = q.hurt /\ r.left = S!Less(q.left)
    BY <1>2, <2>1, <2>3 DEF CallRecord
  <2> HIDE DEF r
  <2>6. GoodCall(r)
    BY <2>1, <2>5 DEF GoodCall
  <2> QED BY <2>1, <2>2, <2>4, <2>5, <2>6 DEF q
<1>5. ASSUME NEW h \in S!Attempt
      PROVE  rpc'[h] \in RpcRecord /\ GoodRpc(rpc'[h]) /\ rpc'[h].at = rpc[h].at
  <2> DEFINE q == rpc[h]
             r == [q EXCEPT !.left = S!Less(q.left)]
  <2>1. q \in RpcRecord /\ GoodRpc(q)
    BY DEF ServiceInv, RpcsGood
  <2>2. rpc'[h] = r
    BY DEF S!Tick
  <2>3. q.left \in 0 .. Deadline
    BY <2>1 DEF RpcRecord
  <2> HIDE DEF q
  <2>4. r \in RpcRecord /\ r.at = q.at /\ r.page = q.page /\ r.stages = q.stages /\ r.hurt = q.hurt
    BY <1>2, <2>1, <2>3 DEF RpcRecord
  <2> HIDE DEF r
  <2>5. GoodRpc(r)
    BY <2>1, <2>4 DEF GoodRpc
  <2> QED BY <2>2, <2>4, <2>5 DEF q
<1>6. CallsGood' /\ RpcsGood'
  BY <1>4, <1>5 DEF S!Tick, CallsGood, RpcsGood
<1>7. FuturesTyped' /\ ServerTyped'
  BY <1>3 DEF ServiceInv, FuturesTyped, ServerTyped, S!Tick
<1>8. DrainInv'
  <2> SUFFICES ASSUME life' = "draining", NEW h \in S!Attempt,
                      rpc'[h].at # "none", call'[h[1]].at = "waiting", call'[h[1]].attempt = h[2]
               PROVE  call'[h[1]].left + (Grace - grace') <= Deadline
    BY DEF DrainInv
  <2>1. h[1] \in Call
    BY DEF S!Attempt
  <2>2. call[h[1]].left + (Grace - grace) <= Deadline
    BY <1>4, <1>5, <2>1 DEF S!Tick, ServiceInv, DrainInv
  <2>3. call'[h[1]].left = S!Less(call[h[1]].left) /\ grace' = S!Less(grace)
    BY <1>4, <2>1 DEF S!Tick
  <2>4. call[h[1]].left \in Nat /\ grace \in Nat /\ grace <= Grace
    BY <1>1, <2>1 DEF ServiceInv, CallsGood, CallRecord, ServerTyped
  <2>5. call[h[1]].left > 0
    BY <1>4, <2>1, <2>4 DEF S!Tick, S!Pending
  <2> QED BY <1>1, <2>2, <2>3, <2>4, <2>5, Lessening
<1> QED BY <1>6, <1>7, <1>8 DEF ServiceInv

\* The server starts, is told to stop, ends or crashes.
LEMMA ServerKeeps ==
  ASSUME S!IsSearch, ServiceInv, S!Serve \/ S!Stop \/ S!Exit \/ S!Crash
  PROVE  ServiceInv'
<1>1. Deadline \in Nat /\ Grace \in Nat /\ MaxRestarts \in Nat
  BY DEF S!IsSearch
<1>2. CASE S!Serve
  BY <1>2 DEF S!Serve, ServiceInv, CallsGood, RpcsGood, FuturesTyped, ServerTyped, DrainInv
<1>3. CASE S!Stop
  <2>1. CallsGood' /\ RpcsGood' /\ FuturesTyped'
    BY <1>3 DEF S!Stop, ServiceInv, CallsGood, RpcsGood, FuturesTyped
  <2>2. ServerTyped'
    BY <1>1, <1>3 DEF S!Stop, ServiceInv, ServerTyped
  <2>3. DrainInv'
    <3>1. \A c \in Call : call[c].left \in 0 .. Deadline
      BY DEF ServiceInv, CallsGood, CallRecord
    <3>2. \A h \in S!Attempt : h[1] \in Call
      BY DEF S!Attempt
    <3> QED BY <1>1, <1>3, <3>1, <3>2 DEF S!Stop, DrainInv
  <2> QED BY <2>1, <2>2, <2>3 DEF ServiceInv
<1>4. ASSUME S!ProcessEnds, restarts' \in 0 .. MaxRestarts PROVE ServiceInv'
  <2>1. RpcsGood' /\ FuturesTyped'
    <3>1. GoodRpc(S!NoRpc) /\ S!NoRpc \in RpcRecord
      BY BlankRecords DEF GoodRpc
    <3> QED BY <1>4, <3>1 DEF S!ProcessEnds, RpcsGood, FuturesTyped
  <2>2. ServerTyped' /\ DrainInv'
    <3>1. life' = "down" /\ grace' = 0
      BY <1>4 DEF S!ProcessEnds
    <3>2. 0 \in 0 .. Grace
      BY <1>1
    <3>3. ServerTyped'
      BY <1>4, <3>1, <3>2 DEF ServerTyped
    <3>4. DrainInv'
      BY <3>1 DEF DrainInv
    <3> QED BY <3>3, <3>4
  <2>3. PICK retried \in SUBSET {c \in S!Cut : call[c].attempt = 1} :
          call' = [c \in Call |->
            IF c \in retried THEN [call[c] EXCEPT !.at = "sending", !.attempt = 2]
            ELSE IF c \in S!Cut THEN S!Answer(503) ELSE call[c]]
    BY <1>4 DEF S!ProcessEnds
  <2>4. GoodCall(S!Answer(503))
    <3>1. \E http \in {400, 502, 503, 504} : http = 503
      OBVIOUS
    <3> QED BY <3>1, GoodAnswers
  <2>5. ASSUME NEW c \in Call PROVE GoodCall(call'[c])
    <3>1. CASE c \in retried
      <4> DEFINE q == call[c]
                 y == [q EXCEPT !.at = "sending"]
                 r == [y EXCEPT !.attempt = 2]
      <4>1. q \in CallRecord /\ GoodCall(q) /\ call'[c] = r
        BY <2>3, <3>1 DEF ServiceInv, CallsGood
      <4>2. q.at = "waiting"
        BY <3>1 DEF S!Cut, S!Handlers
      <4> HIDE DEF q
      <4>3. y \in CallRecord /\ y.at = "sending" /\ y.page = q.page /\ y.http = q.http
        BY <4>1 DEF CallRecord
      <4> HIDE DEF y
      <4>4. r \in CallRecord /\ r.at = "sending" /\ r.page = q.page /\ r.http = q.http
        BY <4>3 DEF CallRecord
      <4> HIDE DEF r
      <4> QED BY <4>1, <4>2, <4>4 DEF GoodCall
    <3>2. CASE c \notin retried
      BY <2>3, <2>4, <3>2 DEF ServiceInv, CallsGood
    <3> QED BY <3>1, <3>2
  <2>6. CallsGood'
    BY <2>3, <2>5 DEF CallsGood, GoodCall
  <2> QED BY <2>1, <2>2, <2>6 DEF ServiceInv
<1>5. CASE S!Exit
  BY <1>4, <1>5 DEF S!Exit, ServiceInv, ServerTyped
<1>6. CASE S!Crash
  <2>1. restarts' \in 0 .. MaxRestarts
    BY <1>1, <1>6 DEF S!Crash, ServiceInv, ServerTyped
  <2> QED BY <1>4, <1>6, <2>1 DEF S!Crash
<1> QED BY <1>2, <1>3, <1>5, <1>6

\* Every step keeps the invariant.
LEMMA ServiceStep == ASSUME S!IsSearch, ServiceInv, [S!Next]_S!vars PROVE ServiceInv'
<1>1. CASE UNCHANGED S!vars
  BY <1>1 DEF S!vars, ServiceInv, CallsGood, RpcsGood, FuturesTyped, ServerTyped, DrainInv
<1>2. CASE S!Next
  BY <1>2, SendKeeps, ClientsKeep, HandlerKeeps, TickKeeps, ServerKeeps DEF S!Next
<1> QED BY <1>1, <1>2

\* It holds before the first search.
LEMMA ServiceInit == ASSUME S!IsSearch, S!Init PROVE ServiceInv
<1>1. /\ S!NotCalled \in CallRecord /\ GoodCall(S!NotCalled)
      /\ S!NoRpc \in RpcRecord /\ GoodRpc(S!NoRpc)
  BY BlankRecords DEF GoodCall, GoodRpc
<1>2. 0 \in 0 .. Grace /\ 0 \in 0 .. MaxRestarts
  BY DEF S!IsSearch
<1> QED BY <1>1, <1>2 DEF S!Init, ServiceInv, CallsGood, RpcsGood, FuturesTyped, ServerTyped, DrainInv

\* The words of SearchAnswers mean the same in the instance.
LEMMA SameWords ==
  /\ S!IsSearch
  /\ S!Attempt = Attempt /\ S!Optional = Optional /\ S!Status = Status /\ S!Step = Step
  /\ \A p : S!Valid(p) = Valid(p)
<1>1. S!IsFiniteSet(Call) = IsFiniteSet(Call)
  BY DEF S!IsFiniteSet, IsFiniteSet
<1>2. S!IsSearch
  BY SearchAssumption, <1>1 DEF IsSearch, S!IsSearch
<1> QED
  BY <1>2 DEF S!Attempt, Attempt, S!Optional, Optional, S!Status, Status, S!Step, Step, S!Valid, Valid

\* The invariant contains the types and honesty; PagesTile follows from AllSound, and
\* the searches a drain would cut are the handlers of DrainInv.
LEMMA SoundFollows == ASSUME ServiceInv PROVE AnswersAreSound
<1>1. ServiceTyped
  BY SameWords DEF ServiceInv, CallsGood, RpcsGood, FuturesTyped, ServerTyped, ServiceTyped, CallRecord, RpcRecord
<1>2. AnswersAreHonest
  BY DEF ServiceInv, CallsGood, GoodCall, AnswersAreHonest
<1>3. PagesTile
  <2> SUFFICES ASSUME NEW h \in Attempt, rpc[h].at = "rerank", NEW ranked \in {"ok", "failed"}
               PROVE  <<[rpc[h].stages EXCEPT !["rerank"] = ranked], rpc[h].page>> \in Sound
    BY DEF PagesTile, At, PageOf
  <2>1. rpc[h] \in RpcRecord /\ rpc[h].page \in ResultPage /\ Valid(rpc[h].page)
    BY SameWords DEF ServiceInv, RpcsGood, GoodRpc
  <2>2. PICK stages \in [Optional -> Status] : stages = [rpc[h].stages EXCEPT !["rerank"] = ranked]
    BY <2>1, SameWords DEF RpcRecord, Status
  <2>3. PICK p \in ResultPage : p = rpc[h].page
    BY <2>1
  <2>4. <<stages, p>> \in Sound
    BY <2>1, <2>3, AllSound, SearchAssumption
  <2> QED BY <2>2, <2>3, <2>4
<1>4. DrainLeavesTheGrace
  <2> SUFFICES ASSUME life = "draining", NEW c \in Cut
               PROVE  call[c].left + (Grace - grace) <= Deadline
    BY DEF DrainLeavesTheGrace
  <2>1. PICK h \in Attempt : /\ c = h[1] /\ rpc[h].at # "none"
                             /\ call[h[1]].at = "waiting" /\ call[h[1]].attempt = h[2]
    BY DEF Cut, Handlers
  <2> QED BY <2>1, SameWords DEF ServiceInv, DrainInv
<1> QED BY <1>1, <1>2, <1>3, <1>4 DEF AnswersAreSound

\* In every state of the service, for any rankings, scores, searches and bounds: an answer
\* is marked degraded exactly when a stage of the attempt behind it failed, pages tile one
\* ranking, and a server that drains leaves each search it holds the whole grace, for any
\* grace and deadline.
THEOREM AnswersSound == S!Spec => []AnswersAreSound
<1>1. S!Init => ServiceInv
  BY ServiceInit, SameWords
<1>2. ServiceInv /\ [S!Next]_S!vars => ServiceInv'
  BY ServiceStep, SameWords
<1>3. ServiceInv => AnswersAreSound
  BY SoundFollows
<1> QED BY <1>1, <1>2, <1>3, PTL DEF S!Spec

\* With a grace no shorter than the deadline, as the shipped settings have them (10 s and
\* 5 s), the end of a drain cuts off nobody who has time left (serve, stop).
THEOREM DrainCutsNobody ==
  ASSUME Grace >= Deadline
  PROVE  S!Spec => [](life = "draining" /\ grace = 0 => \A c \in Cut : call[c].left = 0)
<1>1. S!Init => ServiceInv
  BY ServiceInit, SameWords
<1>2. ServiceInv /\ [S!Next]_S!vars => ServiceInv'
  BY ServiceStep, SameWords
<1>3. ServiceInv => (life = "draining" /\ grace = 0 => \A c \in Cut : call[c].left = 0)
  <2> SUFFICES ASSUME ServiceInv, life = "draining", grace = 0, NEW c \in Cut PROVE call[c].left = 0
    OBVIOUS
  <2>1. c \in Call
    BY DEF Cut, Handlers, Attempt
  <2>2. call[c].left \in 0 .. Deadline
    BY <2>1 DEF ServiceInv, CallsGood, CallRecord
  <2>3. call[c].left + (Grace - grace) <= Deadline
    BY SoundFollows DEF AnswersAreSound, DrainLeavesTheGrace
  <2>4. Deadline \in Nat /\ Grace \in Nat
    BY SearchAssumption DEF IsSearch
  <2> QED BY <2>2, <2>3, <2>4
<1> QED BY <1>1, <1>2, <1>3, PTL DEF S!Spec
=============================================================================
