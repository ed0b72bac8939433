---------------------------- MODULE SilverProofs ----------------------------
(***************************************************************************)
(* Proofs about Silver, for any URLs, texts, workers and bounds.           *)
(***************************************************************************)
EXTENDS Silver, FiniteSetTheorems, WellFoundedInduction, TLAPS

\* What an open transaction has in its hands.
Tx ==
  \A w \in Worker :
    /\ step[w] # "idle" => fetch[w] \in Fetch /\ source[w] \in BronzeId
    /\ HoldsPage(w) => target[w] \in PageId
    /\ step[w] = "commit" => fold[w] < target[w]

TypeInv == TypeOK /\ Tx

-----------------------------------------------------------------------------
(* Lemmas about the operators.                                             *)

\* _fold_duplicate answers with an older page or none.
LEMMA OriginalIsOlder ==
  ASSUME NEW p \in PageId, NEW c
  PROVE  Original(p, c) \in PageId \cup {0} /\ Original(p, c) < p
<1> DEFINE exact == {q \in Exact(p, c) : \A r \in Exact(p, c) : q <= r}
           older == {q \in Near(p, c) : q < p}
           near == {q \in older : \A r \in older \ {q} : Closer(q, r, c)}
           found == IF \E q \in exact : q < p THEN exact ELSE near
<1>1. PageId \subseteq Nat \ {0}
  BY BoundsAssumption DEF PageId
<1>2. Exact(p, c) \subseteq PageId /\ Near(p, c) \subseteq PageId
  BY DEF NearPages, Exact, Near, Canonical, Live
<1>3. \A q \in found : q \in PageId /\ q < p
  <2>1. CASE \E q \in exact : q < p
    <3>1. PICK o \in exact : o < p
      BY <2>1
    <3>2. found = exact
      BY <2>1
    <3>3. \A q \in exact : q \in PageId /\ q <= o
      BY <3>1, <1>2
    <3>4. o \in PageId
      BY <3>1, <3>3
    <3>5. \A q \in exact : q \in PageId /\ q < p
      BY <3>1, <3>3, <3>4, <1>1
    <3> HIDE DEF found, exact
    <3> QED BY <3>2, <3>5
  <2>2. CASE ~ \E q \in exact : q < p
    BY <2>2, <1>1, <1>2
  <2> QED BY <2>1, <2>2
<1>4. Original(p, c) = IF found = {} THEN 0 ELSE CHOOSE q \in found : TRUE
  BY DEF Original
<1> HIDE DEF found
<1>5. CASE found = {}
  BY <1>1, <1>4, <1>5
<1>6. CASE found # {}
  <2>1. (CHOOSE q \in found : TRUE) \in found
    BY <1>6
  <2> QED BY <2>1, <1>3, <1>4, <1>6
<1> QED BY <1>5, <1>6

\* A transaction saves a fetch with a URL and a text.
LEMMA DocTyped ==
  ASSUME TypeInv, NEW w \in Worker, step[w] # "idle"
  PROVE  Doc(w) \in Document /\ Text(w) \in Content
<1>1. Doc(w) \in Document
  BY DEF TypeInv, TypeOK, Tx, Doc
<1>2. Text(w) \in Content
  BY <1>1, TextAssumption DEF Text, Document
<1> QED BY <1>1, <1>2

\* The page a transaction leaves is a page of its URL or the old one, and its
\* source is not older.
LEMMA WrittenTyped ==
  ASSUME TypeInv, NEW w \in Worker, HoldsPage(w)
  PROVE  Written(w) \in Page
<1>1. step[w] # "idle" /\ source[w] \in BronzeId /\ target[w] \in PageId
  BY DEF TypeInv, Tx, HoldsPage
<1>2. Doc(w).url \in Url /\ Text(w) \in Content
  BY <1>1, DocTyped DEF Document
<1> DEFINE p == pages[target[w]]
<1>3. CASE p = NoRow
  <2>1. Written(w) = [url |-> Doc(w).url, content |-> Text(w), source |-> source[w],
                      version |-> 1, dup |-> 0]
    BY <1>3 DEF Written
  <2> QED BY <2>1, <1>1, <1>2 DEF Page
<1>4. CASE p # NoRow /\ IsNotOlder(p, source[w])
  <2>1. p \in Page
    BY <1>1, <1>4 DEF TypeInv, TypeOK
  <2> DEFINE n == IF p.content # Text(w) THEN p.version + 1 ELSE p.version
  <2>2. n \in Nat
    BY <2>1 DEF Page
  <2>3. Written(w) = [p EXCEPT !.content = Text(w), !.source = source[w], !.version = n]
    BY <1>4 DEF Written
  <2> HIDE DEF p, n
  <2> QED BY <2>1, <2>2, <2>3, <1>1, <1>2 DEF Page
<1>5. CASE p # NoRow /\ ~IsNotOlder(p, source[w])
  <2>1. Written(w) = p
    BY <1>5 DEF Written
  <2>2. p \in Page
    BY <1>1, <1>5 DEF TypeInv, TypeOK
  <2> QED BY <2>1, <2>2
<1> QED BY <1>3, <1>4, <1>5

\* The upsert keeps the URL of a page and gives a new one the URL it saves; the
\* source of a page does not go back.
LEMMA WrittenKeeps ==
  ASSUME TypeInv, NEW w \in Worker, HoldsPage(w)
  PROVE  /\ pages[target[w]] = NoRow => Written(w).url = Doc(w).url
         /\ pages[target[w]] # NoRow =>
              /\ Written(w).url = pages[target[w]].url
              /\ Written(w).source >= pages[target[w]].source
<1>1. source[w] \in BronzeId /\ target[w] \in PageId
  BY DEF TypeInv, Tx, HoldsPage
<1> DEFINE p == pages[target[w]]
<1>2. BronzeId \subseteq Nat
  BY BoundsAssumption DEF BronzeId
<1>3. CASE p = NoRow
  <2>1. Written(w) = [url |-> Doc(w).url, content |-> Text(w), source |-> source[w],
                      version |-> 1, dup |-> 0]
    BY <1>3 DEF Written
  <2> QED BY <2>1, <1>3
<1>4. CASE p # NoRow /\ IsNotOlder(p, source[w])
  <2>1. p \in Page
    BY <1>1, <1>4 DEF TypeInv, TypeOK
  <2>2. p.source <= source[w]
    BY <1>4 DEF IsNotOlder
  <2> DEFINE n == IF p.content # Text(w) THEN p.version + 1 ELSE p.version
  <2>3. Written(w) = [p EXCEPT !.content = Text(w), !.source = source[w], !.version = n]
    BY <1>4 DEF Written
  <2> HIDE DEF n
  <2>4. Written(w).url = p.url /\ Written(w).source = source[w]
    BY <2>1, <2>3 DEF Page
  <2> QED BY <2>1, <2>2, <2>4, <1>1, <1>2, <1>4
<1>5. CASE p # NoRow /\ ~IsNotOlder(p, source[w])
  <2>1. Written(w) = p
    BY <1>5 DEF Written
  <2>2. p \in Page
    BY <1>1, <1>5 DEF TypeInv, TypeOK
  <2>3. p.source \in Nat
    BY <2>2, <1>2 DEF Page
  <2> QED BY <2>1, <2>3, <1>5
<1> QED BY <1>3, <1>4, <1>5

\* What a commit writes to the page.
LEMMA CommittedTyped ==
  ASSUME TypeInv, NEW w \in Worker, step[w] = "commit"
  PROVE  /\ target[w] \in PageId
         /\ [Written(w) EXCEPT !.dup = fold[w]] \in Page
         /\ [Written(w) EXCEPT !.dup = fold[w]].url = Written(w).url
         /\ [Written(w) EXCEPT !.dup = fold[w]].source = Written(w).source
         /\ [Written(w) EXCEPT !.dup = fold[w]].dup = fold[w]
<1>1. HoldsPage(w) /\ target[w] \in PageId
  BY DEF TypeInv, Tx, HoldsPage
<1>2. Written(w) \in Page
  BY <1>1, WrittenTyped
<1>3. fold[w] \in PageId \cup {0}
  BY DEF TypeInv, TypeOK
<1> QED BY <1>1, <1>2, <1>3 DEF Page

-----------------------------------------------------------------------------
(* Types.                                                                  *)

LEMMA TypeInit == Init => TypeInv
<1> SUFFICES ASSUME Init PROVE TypeInv
  OBVIOUS
<1>1. TypeOK
  <2>1. quarantines \in 0 .. MaxQuarantines
    BY BoundsAssumption DEF Init
  <2>2. /\ bronze \in [BronzeId -> Document \cup {NoRow}]
        /\ pages \in [PageId -> Page \cup {NoRow}]
    BY DEF Init
  <2>3. /\ step \in [Worker -> {"idle", "read", "upsert", "fold", "commit"}]
        /\ fetch \in [Worker -> Fetch \cup {0}]
        /\ source \in [Worker -> BronzeId \cup {0}]
        /\ previous \in [Worker -> Content \cup {NoHash}]
        /\ target \in [Worker -> PageId \cup {0}]
        /\ fold \in [Worker -> PageId \cup {0}]
    BY DEF Init
  <2> QED BY <2>1, <2>2, <2>3 DEF Init, TypeOK
<1>2. Tx
  BY DEF Init, Tx, HoldsPage
<1> QED BY <1>1, <1>2 DEF TypeInv

LEMMA SaveBronzeTyped ==
  ASSUME TypeInv, NEW w \in Worker, NEW f \in Fetch, SaveBronze(w, f)
  PROVE  TypeInv'
<1>1. PICK b \in BronzeId : source' = [source EXCEPT ![w] = b]
  BY DEF SaveBronze
<1>2. TypeOK'
  <2>1. step' \in [Worker -> {"idle", "read", "upsert", "fold", "commit"}]
    BY DEF TypeInv, TypeOK, SaveBronze
  <2>2. fetch' \in [Worker -> Fetch \cup {0}]
    BY DEF TypeInv, TypeOK, SaveBronze
  <2>3. source' \in [Worker -> BronzeId \cup {0}]
    BY <1>1 DEF TypeInv, TypeOK
  <2>4. outOfTurn' \subseteq Url
    BY DEF TypeInv, TypeOK, SaveBronze, Document
  <2>5. overlapped' \in BOOLEAN /\ crowded' \in BOOLEAN
    BY DEF TypeInv, TypeOK, SaveBronze
  <2> QED BY <2>1, <2>2, <2>3, <2>4, <2>5 DEF TypeInv, TypeOK, SaveBronze, dbVars
<1>3. Tx'
  <2> SUFFICES ASSUME NEW v \in Worker
               PROVE  /\ step'[v] # "idle" => fetch'[v] \in Fetch /\ source'[v] \in BronzeId
                      /\ step'[v] \in {"fold", "commit"} => target'[v] \in PageId
                      /\ step'[v] = "commit" => fold'[v] < target'[v]
    BY DEF Tx, HoldsPage
  <2>1. CASE v = w
    BY <2>1, <1>1 DEF TypeInv, TypeOK, SaveBronze
  <2>2. CASE v # w
    BY <2>2, <1>1 DEF TypeInv, TypeOK, Tx, HoldsPage, SaveBronze
  <2> QED BY <2>1, <2>2
<1> QED BY <1>2, <1>3 DEF TypeInv

LEMMA ReadPreviousTyped ==
  ASSUME TypeInv, NEW w \in Worker, ReadPrevious(w)
  PROVE  TypeInv'
<1>1. TypeOK'
  <2>1. step' \in [Worker -> {"idle", "read", "upsert", "fold", "commit"}]
    BY DEF TypeInv, TypeOK, ReadPrevious
  <2>2. previous' \in [Worker -> Content \cup {NoHash}]
    <3>1. CASE PageOf(Doc(w).url) = {}
      BY <3>1 DEF TypeInv, TypeOK, ReadPrevious
    <3>2. CASE PageOf(Doc(w).url) # {}
      <4> DEFINE p == CHOOSE p \in PageOf(Doc(w).url) : TRUE
      <4>1. p \in PageOf(Doc(w).url)
        BY <3>2
      <4>2. p \in PageId /\ pages[p] # NoRow
        BY <4>1 DEF PageOf, Live
      <4>3. pages[p].content \in Content
        BY <4>2 DEF TypeInv, TypeOK, Page
      <4>4. previous' = [previous EXCEPT ![w] = pages[p].content]
        BY <3>2 DEF ReadPrevious
      <4> HIDE DEF p
      <4> QED BY <4>3, <4>4 DEF TypeInv, TypeOK
    <3> QED BY <3>1, <3>2
  <2> QED BY <2>1, <2>2 DEF TypeInv, TypeOK, ReadPrevious, dbVars, ghosts
<1>2. Tx'
  BY DEF TypeInv, TypeOK, Tx, HoldsPage, ReadPrevious
<1> QED BY <1>1, <1>2 DEF TypeInv

LEMMA UpsertPageTyped ==
  ASSUME TypeInv, NEW w \in Worker, UpsertPage(w)
  PROVE  TypeInv'
<1>1. PICK p \in PageId : target' = [target EXCEPT ![w] = p]
  BY DEF UpsertPage, PageOf, Live
<1>2. TypeOK'
  <2>1. step' \in [Worker -> {"idle", "read", "upsert", "fold", "commit"}]
    BY DEF TypeInv, TypeOK, UpsertPage
  <2>2. target' \in [Worker -> PageId \cup {0}]
    BY <1>1 DEF TypeInv, TypeOK
  <2> QED BY <2>1, <2>2 DEF TypeInv, TypeOK, UpsertPage, dbVars, ghosts
<1>3. Tx'
  BY <1>1 DEF TypeInv, TypeOK, Tx, HoldsPage, UpsertPage
<1> QED BY <1>2, <1>3 DEF TypeInv

LEMMA FoldDuplicateTyped ==
  ASSUME TypeInv, NEW w \in Worker, FoldDuplicate(w)
  PROVE  TypeInv'
<1> DEFINE o == Original(target[w], Written(w).content)
<1>1. target[w] \in PageId
  BY DEF TypeInv, Tx, HoldsPage, FoldDuplicate
<1>2. o \in PageId \cup {0} /\ o < target[w]
  BY <1>1, OriginalIsOlder
<1>3. fold' = [fold EXCEPT ![w] = o]
  BY DEF FoldDuplicate
<1> HIDE DEF o
<1>4. TypeOK'
  <2>1. step' \in [Worker -> {"idle", "read", "upsert", "fold", "commit"}]
    BY DEF TypeInv, TypeOK, FoldDuplicate
  <2>2. fold' \in [Worker -> PageId \cup {0}]
    BY <1>2, <1>3 DEF TypeInv, TypeOK
  <2> QED BY <2>1, <2>2 DEF TypeInv, TypeOK, FoldDuplicate, dbVars, ghosts
<1>5. Tx'
  BY <1>1, <1>2, <1>3 DEF TypeInv, TypeOK, Tx, HoldsPage, FoldDuplicate
<1> QED BY <1>4, <1>5 DEF TypeInv

\* A session that ends holds nothing.
LEMMA EndTyped ==
  ASSUME TypeInv, NEW w \in Worker, End(w)
  PROVE  /\ step' \in [Worker -> {"idle", "read", "upsert", "fold", "commit"}]
         /\ fetch' \in [Worker -> Fetch \cup {0}]
         /\ source' \in [Worker -> BronzeId \cup {0}]
         /\ previous' \in [Worker -> Content \cup {NoHash}]
         /\ target' \in [Worker -> PageId \cup {0}]
         /\ fold' \in [Worker -> PageId \cup {0}]
         /\ Tx'
<1>1. /\ step' \in [Worker -> {"idle", "read", "upsert", "fold", "commit"}]
      /\ fetch' \in [Worker -> Fetch \cup {0}]
      /\ source' \in [Worker -> BronzeId \cup {0}]
      /\ previous' \in [Worker -> Content \cup {NoHash}]
      /\ target' \in [Worker -> PageId \cup {0}]
      /\ fold' \in [Worker -> PageId \cup {0}]
  BY DEF TypeInv, TypeOK, End
<1>2. Tx'
  BY DEF TypeInv, TypeOK, Tx, HoldsPage, End
<1> QED BY <1>1, <1>2

\* _record_source adds at most the row of this transaction.
LEMMA RecordedTyped ==
  ASSUME TypeInv, NEW w \in Worker, step[w] = "commit"
  PROVE  Recorded(w) \subseteq [page : PageId, source : BronzeId, changed : BOOLEAN]
<1>1. source[w] \in BronzeId /\ target[w] \in PageId
  BY DEF TypeInv, Tx, HoldsPage
<1>2. history \subseteq [page : PageId, source : BronzeId, changed : BOOLEAN]
  BY DEF TypeInv, TypeOK
<1> DEFINE row == [page |-> target[w], source |-> source[w],
                   changed |-> previous[w] = NoHash \/ previous[w] # Text(w)]
<1>3. row \in [page : PageId, source : BronzeId, changed : BOOLEAN]
  BY <1>1
<1>4. Recorded(w) \subseteq history \cup {row}
  BY DEF Recorded
<1> QED BY <1>2, <1>3, <1>4

LEMMA CommitTyped ==
  ASSUME TypeInv, NEW w \in Worker, Commit(w)
  PROVE  TypeInv'
<1>1. step[w] = "commit" /\ End(w)
  BY DEF Commit
<1>2. fetch[w] \in Fetch /\ source[w] \in BronzeId
  BY <1>1 DEF TypeInv, Tx
<1>3. bronze' \in [BronzeId -> Document \cup {NoRow}]
  <2>1. Doc(w) \in Document
    BY <1>1, DocTyped
  <2> QED BY <1>2, <2>1 DEF TypeInv, TypeOK, Commit
<1>4. pages' \in [PageId -> Page \cup {NoRow}]
  BY <1>1, CommittedTyped DEF TypeInv, TypeOK, Commit
<1>5. history' \subseteq [page : PageId, source : BronzeId, changed : BOOLEAN]
  BY <1>1, RecordedTyped DEF Commit
<1>6. done' \subseteq Fetch
  BY <1>2 DEF TypeInv, TypeOK, Commit
<1>7. TypeOK'
  BY <1>1, <1>3, <1>4, <1>5, <1>6, EndTyped DEF TypeInv, TypeOK, Commit, ghosts
<1> QED BY <1>1, <1>7, EndTyped DEF TypeInv

LEMMA AbortTyped ==
  ASSUME TypeInv, NEW w \in Worker, Abort(w)
  PROVE  TypeInv'
<1>1. End(w)
  BY DEF Abort
<1>2. TypeOK'
  BY <1>1, EndTyped DEF TypeInv, TypeOK, Abort, ghosts, dbVars
<1> QED BY <1>1, <1>2, EndTyped DEF TypeInv

\* The pages a quarantine deletes and those it frees.
Gone(b) == {p \in Live : pages[p].source = b}
Freed(b) == {p \in Live : pages[p].dup \in Gone(b)}

\* A quarantine deletes, frees or leaves a page, and none that is locked.
LEMMA QuarantinedPage ==
  ASSUME TypeInv, NEW b \in BronzeId, Quarantine(b), NEW p \in PageId
  PROVE  /\ p \in Gone(b) \cup Freed(b) => ~PageLocked(p)
         /\ p \in Gone(b) => pages'[p] = NoRow
         /\ p \in Freed(b) \ Gone(b) => pages'[p] = [pages[p] EXCEPT !.dup = 0]
         /\ p \notin Gone(b) \cup Freed(b) => pages'[p] = pages[p]
BY DEF Quarantine, Gone, Freed

LEMMA QuarantineTyped ==
  ASSUME TypeInv, NEW b \in BronzeId, Quarantine(b)
  PROVE  TypeInv'
<1>1. pages' \in [PageId -> Page \cup {NoRow}]
  <2>1. DOMAIN pages' = PageId /\ pages' = [p \in PageId |-> pages'[p]]
    BY DEF Quarantine
  <2>2. ASSUME NEW p \in PageId PROVE pages'[p] \in Page \cup {NoRow}
    <3>1. pages[p] \in Page \cup {NoRow}
      BY DEF TypeInv, TypeOK
    <3>2. CASE p \in Freed(b) \ Gone(b)
      <4>1. pages[p] \in Page
        BY <3>1, <3>2 DEF Freed, Live
      <4> QED BY <4>1, <3>2, QuarantinedPage DEF Page
    <3> QED BY <3>1, <3>2, QuarantinedPage
  <2> QED BY <2>1, <2>2
<1>2. history' \subseteq [page : PageId, source : BronzeId, changed : BOOLEAN]
  BY DEF TypeInv, TypeOK, Quarantine
<1>3. quarantines' \in 0 .. MaxQuarantines
  BY BoundsAssumption DEF TypeInv, TypeOK, Quarantine
<1>4. outOfTurn' \subseteq Url
  <2>1. \A p \in Live : pages[p].url \in Url
    BY DEF TypeInv, TypeOK, Live, Page
  <2>2. outOfTurn' \subseteq outOfTurn \cup {pages[p].url : p \in Live}
    BY DEF Quarantine
  <2> QED BY <2>1, <2>2 DEF TypeInv, TypeOK
<1>5. TypeOK'
  BY <1>1, <1>2, <1>3, <1>4 DEF TypeInv, TypeOK, Quarantine, txVars
<1>6. Tx'
  BY DEF TypeInv, Tx, HoldsPage, Quarantine, txVars
<1> QED BY <1>5, <1>6 DEF TypeInv

LEMMA TypeStep == TypeInv /\ [Next]_vars => TypeInv'
<1> SUFFICES ASSUME TypeInv, [Next]_vars PROVE TypeInv'
  OBVIOUS
<1>1. ASSUME NEW w \in Worker, NEW f \in Fetch, SaveBronze(w, f) PROVE TypeInv'
  BY <1>1, SaveBronzeTyped
<1>2. ASSUME NEW w \in Worker, ReadPrevious(w) PROVE TypeInv'
  BY <1>2, ReadPreviousTyped
<1>3. ASSUME NEW w \in Worker, UpsertPage(w) PROVE TypeInv'
  BY <1>3, UpsertPageTyped
<1>4. ASSUME NEW w \in Worker, FoldDuplicate(w) PROVE TypeInv'
  BY <1>4, FoldDuplicateTyped
<1>5. ASSUME NEW w \in Worker, Commit(w) PROVE TypeInv'
  BY <1>5, CommitTyped
<1>6. ASSUME NEW w \in Worker, Abort(w) PROVE TypeInv'
  BY <1>6, AbortTyped
<1>7. ASSUME NEW b \in BronzeId, Quarantine(b) PROVE TypeInv'
  BY <1>7, QuarantineTyped
<1>8. CASE UNCHANGED vars
  BY <1>8 DEF vars, TypeInv, TypeOK, Tx, HoldsPage
<1> QED BY <1>1, <1>2, <1>3, <1>4, <1>5, <1>6, <1>7, <1>8 DEF Next, Transaction

\* Every variable keeps its type, for any number of workers and URLs.
THEOREM Typed == Spec => []TypeOK
<1>1. Spec => []TypeInv
  BY TypeInit, TypeStep, PTL DEF Spec
<1>2. TypeInv => TypeOK
  BY DEF TypeInv
<1> QED BY <1>1, <1>2, PTL

-----------------------------------------------------------------------------
(* Folding.                                                                *)

\* Steps other than commits and quarantines leave the tables alone.
LEMMA TablesKept ==
  ASSUME NEW w \in Worker, Transaction(w), ~Commit(w)
  PROVE  pages' = pages
BY DEF Transaction, SaveBronze, ReadPrevious, UpsertPage, FoldDuplicate, Abort, dbVars

\* How a commit changes the pages.
LEMMA CommitPages ==
  ASSUME TypeInv, NEW w \in Worker, Commit(w), NEW p \in PageId
  PROVE  pages'[p] = IF p = target[w] THEN [Written(w) EXCEPT !.dup = fold[w]] ELSE pages[p]
BY DEF TypeInv, TypeOK, Commit

LEMMA CommitOther ==
  ASSUME TypeInv, NEW w \in Worker, Commit(w), NEW p \in PageId, p # target[w]
  PROVE  pages'[p] = pages[p]
BY CommitPages

\* A page is no value a missing row has.
LEMMA PageIsRow == NoRow \notin Page
BY DEF NoRow, Page

LEMMA CommitLive ==
  ASSUME TypeInv, NEW w \in Worker, Commit(w)
  PROVE  Live' = Live \cup {target[w]}
<1>1. step[w] = "commit"
  BY DEF Commit
<1>2. target[w] \in PageId /\ [Written(w) EXCEPT !.dup = fold[w]] # NoRow
  BY <1>1, CommittedTyped, PageIsRow
<1>3. ASSUME NEW p \in PageId PROVE p \in Live' <=> p \in Live \/ p = target[w]
  BY <1>2, CommitPages DEF Live
<1> QED BY <1>2, <1>3 DEF Live

LEMMA QuarantineLive ==
  ASSUME TypeInv, NEW b \in BronzeId, Quarantine(b)
  PROVE  Live' = Live \ Gone(b)
<1> SUFFICES ASSUME NEW p \in PageId PROVE p \in Live' <=> p \in Live /\ p \notin Gone(b)
  BY DEF Live
<1>1. CASE p \in Gone(b)
  BY <1>1, QuarantinedPage DEF Live
<1>2. CASE p \in Freed(b) \ Gone(b)
  <2>1. pages[p] \in Page
    BY <1>2 DEF Freed, Live, TypeInv, TypeOK
  <2>2. [pages[p] EXCEPT !.dup = 0] \in Page
    BY <2>1 DEF Page
  <2> QED BY <1>2, <2>2, QuarantinedPage, PageIsRow DEF Live, Freed
<1>3. CASE p \notin Gone(b) \cup Freed(b)
  BY <1>3, QuarantinedPage DEF Live
<1> QED BY <1>1, <1>2, <1>3

\* A quarantine changes nothing of a page that stays but the fold it is freed from.
LEMMA QuarantineKeeps ==
  ASSUME TypeInv, NEW b \in BronzeId, Quarantine(b), NEW p \in Live'
  PROVE  /\ p \in Live
         /\ pages'[p].url = pages[p].url
         /\ pages'[p].source = pages[p].source
         /\ pages'[p].dup = IF p \in Freed(b) THEN 0 ELSE pages[p].dup
<1>1. p \in Live /\ p \notin Gone(b) /\ p \in PageId
  BY QuarantineLive DEF Live
<1>2. pages[p] \in Page
  BY <1>1 DEF Live, TypeInv, TypeOK
<1>3. CASE p \in Freed(b)
  BY <1>1, <1>2, <1>3, QuarantinedPage DEF Page
<1>4. CASE p \notin Freed(b)
  BY <1>1, <1>4, QuarantinedPage
<1> QED BY <1>1, <1>3, <1>4

LEMMA DuplicateStep == TypeInv /\ DuplicateIsNewer /\ [Next]_vars => DuplicateIsNewer'
<1> SUFFICES ASSUME TypeInv, DuplicateIsNewer, [Next]_vars, NEW p \in Live'
             PROVE  pages'[p].dup < p
  BY DEF DuplicateIsNewer
<1>1. CASE pages' = pages
  BY <1>1 DEF DuplicateIsNewer, Live
<1>2. ASSUME NEW w \in Worker, Commit(w) PROVE pages'[p].dup < p
  <2>1. step[w] = "commit" /\ fold[w] < target[w]
    BY <1>2 DEF Commit, TypeInv, Tx
  <2>2. p \in PageId
    BY DEF Live
  <2>3. CASE p = target[w]
    BY <1>2, <2>1, <2>2, <2>3, CommitPages, CommittedTyped
  <2>4. CASE p # target[w]
    BY <1>2, <2>2, <2>4, CommitOther, CommitLive DEF DuplicateIsNewer
  <2> QED BY <2>3, <2>4
<1>3. ASSUME NEW b \in BronzeId, Quarantine(b) PROVE pages'[p].dup < p
  <2>1. p \in Live /\ p \in PageId
    BY <1>3, QuarantineKeeps DEF Live
  <2>2. 0 < p
    BY <2>1, BoundsAssumption DEF PageId
  <2> QED BY <1>3, <2>1, <2>2, QuarantineKeeps DEF DuplicateIsNewer
<1>4. CASE UNCHANGED vars
  BY <1>1, <1>4 DEF vars
<1> QED BY <1>1, <1>2, <1>3, <1>4, TablesKept DEF Next

\* duplicate_of_id always leads to an older page, so following it ends.
THEOREM FoldsEnd == Spec => []DuplicateIsNewer
<1>1. Init => DuplicateIsNewer
  BY DEF Init, DuplicateIsNewer, Live
<1> QED BY <1>1, TypeInit, TypeStep, DuplicateStep, PTL DEF Spec

LEMMA DanglingStep == TypeInv /\ NoDanglingDuplicate /\ [Next]_vars => NoDanglingDuplicate'
<1> SUFFICES ASSUME TypeInv, NoDanglingDuplicate, [Next]_vars,
                    NEW p \in Live', pages'[p].dup # 0
             PROVE  pages'[p].dup \in Live'
  BY DEF NoDanglingDuplicate
<1>1. CASE pages' = pages
  BY <1>1 DEF NoDanglingDuplicate, Live
<1>2. ASSUME NEW w \in Worker, Commit(w) PROVE pages'[p].dup \in Live'
  <2>1. step[w] = "commit" /\ (fold[w] = 0 \/ fold[w] \in Live)
    BY <1>2 DEF Commit
  <2>2. p \in PageId
    BY DEF Live
  <2>3. CASE p = target[w]
    BY <1>2, <2>1, <2>2, <2>3, CommitPages, CommittedTyped, CommitLive
  <2>4. CASE p # target[w]
    BY <1>2, <2>2, <2>4, CommitOther, CommitLive DEF NoDanglingDuplicate
  <2> QED BY <2>3, <2>4
<1>3. ASSUME NEW b \in BronzeId, Quarantine(b) PROVE pages'[p].dup \in Live'
  <2>1. p \in Live /\ p \notin Freed(b) /\ pages'[p].dup = pages[p].dup
    BY <1>3, QuarantineKeeps
  <2>2. pages[p].dup \in Live
    BY <2>1 DEF NoDanglingDuplicate
  <2>3. pages[p].dup \notin Gone(b)
    BY <2>1 DEF Freed
  <2> QED BY <1>3, <2>1, <2>2, <2>3, QuarantineLive
<1>4. CASE UNCHANGED vars
  BY <1>1, <1>4 DEF vars
<1> QED BY <1>1, <1>2, <1>3, <1>4, TablesKept DEF Next

\* A duplicate's original exists, though originals are deleted at any time.
THEOREM OriginalsExist == Spec => []NoDanglingDuplicate
<1>1. Init => NoDanglingDuplicate
  BY DEF Init, NoDanglingDuplicate, Live
<1> QED BY <1>1, TypeInit, TypeStep, DanglingStep, PTL DEF Spec

-----------------------------------------------------------------------------
(* Sources.                                                                *)

LEMMA SourceStep ==
  TypeInv /\ [Next]_vars =>
    [\A p \in Live : pages'[p] # NoRow => pages'[p].source >= pages[p].source]_vars
<1> SUFFICES ASSUME TypeInv, [Next]_vars, NEW p \in Live, pages'[p] # NoRow
             PROVE  pages'[p].source >= pages[p].source
  OBVIOUS
<1>1. p \in PageId /\ pages[p] \in Page /\ pages[p] # NoRow
  BY DEF Live, TypeInv, TypeOK
<1>2. pages[p].source \in Nat
  BY <1>1, BoundsAssumption DEF Page, BronzeId
<1>3. CASE pages' = pages
  BY <1>2, <1>3
<1>4. ASSUME NEW w \in Worker, Commit(w) PROVE pages'[p].source >= pages[p].source
  <2>1. step[w] = "commit" /\ HoldsPage(w)
    BY <1>4 DEF Commit, HoldsPage
  <2>2. CASE p = target[w]
    BY <1>1, <1>4, <2>1, <2>2, CommitPages, CommittedTyped, WrittenKeeps
  <2>3. CASE p # target[w]
    BY <1>1, <1>2, <1>4, <2>3, CommitOther
  <2> QED BY <2>2, <2>3
<1>5. ASSUME NEW b \in BronzeId, Quarantine(b) PROVE pages'[p].source >= pages[p].source
  <2>1. p \in Live'
    BY <1>1 DEF Live
  <2> QED BY <1>2, <1>5, <2>1, QuarantineKeeps
<1>6. CASE UNCHANGED vars
  BY <1>3, <1>6 DEF vars
<1> QED BY <1>3, <1>4, <1>5, <1>6, TablesKept DEF Next

\* Whatever order rows are saved in, a page never goes back to an older Bronze row.
THEOREM SourcesGrow == Spec => SourceNeverOlder
BY TypeInit, TypeStep, SourceStep, PTL DEF Spec, SourceNeverOlder

-----------------------------------------------------------------------------
(* One page per URL.                                                       *)

\* A locked page is the page of the URL that is saved, and stays so: it is there
\* with this URL, or it is new and the URL has no page.
TargetIsPage ==
  \A w \in Worker : HoldsPage(w) =>
    /\ target[w] \in Live => pages[target[w]].url = Doc(w).url
    /\ target[w] \notin Live => PageOf(Doc(w).url) = {}

\* Two transactions lock different URLs and different pages.
LocksExclude ==
  \A v, w \in Worker : v # w /\ HoldsPage(v) /\ HoldsPage(w) =>
    Doc(v).url # Doc(w).url /\ target[v] # target[w]

UrlInv == UniqueUrl /\ TargetIsPage /\ LocksExclude

\* The statements of a transaction before and after its upsert move no lock.
LEMMA LocksKept ==
  ASSUME UrlInv, pages' = pages, fetches' = fetches,
         \A w \in Worker : HoldsPage(w)' =>
           HoldsPage(w) /\ fetch'[w] = fetch[w] /\ target'[w] = target[w]
  PROVE  UrlInv'
<1>1. Live' = Live /\ \A u : PageOf(u)' = PageOf(u)
  BY DEF Live, PageOf
<1>2. \A w \in Worker : HoldsPage(w)' => Doc(w)' = Doc(w)
  BY DEF Doc
<1>3. UniqueUrl'
  BY <1>1 DEF UrlInv, UniqueUrl
<1>4. TargetIsPage'
  BY <1>1, <1>2 DEF UrlInv, TargetIsPage
<1>5. LocksExclude'
  BY <1>2 DEF UrlInv, LocksExclude
<1> QED BY <1>3, <1>4, <1>5 DEF UrlInv

LEMMA UpsertUrl ==
  ASSUME TypeInv, UrlInv, NEW w \in Worker, UpsertPage(w)
  PROVE  UrlInv'
<1>1. PICK p \in PageId :
        /\ target' = [target EXCEPT ![w] = p]
        /\ \/ p \in PageOf(Doc(w).url)
           \/ PageOf(Doc(w).url) = {} /\ NewId(p, UsedPages)
  BY DEF UpsertPage, PageOf, Live
<1>2. Live' = Live /\ (\A u : PageOf(u)' = PageOf(u)) /\ pages' = pages
  BY DEF Live, PageOf, UpsertPage, dbVars
<1>3. \A v \in Worker : Doc(v)' = Doc(v)
  BY DEF Doc, UpsertPage
<1>4. \A v \in Worker : HoldsPage(v)' <=> HoldsPage(v) \/ v = w
  BY DEF HoldsPage, UpsertPage, TypeInv, TypeOK
<1>5. target'[w] = p /\ \A v \in Worker \ {w} : target'[v] = target[v]
  BY <1>1 DEF TypeInv, TypeOK
<1>6. ~HoldsPage(w)
  BY DEF UpsertPage, HoldsPage
<1>7. NewId(p, UsedPages) => p \notin Live /\ \A v \in Worker : target[v] # p
  <2>1. UsedPages \subseteq Nat
    BY BoundsAssumption DEF UsedPages, TypeInv, TypeOK, Live, PageId
  <2>2. Live \subseteq UsedPages /\ \A v \in Worker : target[v] \in UsedPages
    BY DEF UsedPages
  <2>3. p \in Nat
    BY BoundsAssumption DEF PageId
  <2>4. NewId(p, UsedPages) => \A u \in UsedPages : u # p
    BY <2>1, <2>3 DEF NewId
  <2> QED BY <2>2, <2>4
<1>8. UniqueUrl'
  BY <1>2 DEF UrlInv, UniqueUrl
<1>9. TargetIsPage'
  <2> SUFFICES ASSUME NEW v \in Worker, HoldsPage(v)'
               PROVE  /\ target'[v] \in Live => pages[target'[v]].url = Doc(v).url
                      /\ target'[v] \notin Live => PageOf(Doc(v).url) = {}
    BY <1>2, <1>3 DEF TargetIsPage
  <2>1. CASE v = w
    BY <2>1, <1>1, <1>5, <1>7 DEF PageOf
  <2>2. CASE v # w
    BY <2>2, <1>4, <1>5 DEF UrlInv, TargetIsPage
  <2> QED BY <2>1, <2>2
<1>10. \A v \in Worker \ {w} : HoldsPage(v) => Doc(v).url # Doc(w).url /\ target[v] # p
  <2> SUFFICES ASSUME NEW v \in Worker \ {w}, HoldsPage(v)
               PROVE  Doc(v).url # Doc(w).url /\ target[v] # p
    OBVIOUS
  <2>1. Doc(v).url # Doc(w).url
    BY DEF UpsertPage, UrlLocked
  <2>2. CASE p \in PageOf(Doc(w).url)
    BY <2>1, <2>2 DEF PageOf, UrlInv, TargetIsPage
  <2>3. CASE NewId(p, UsedPages)
    BY <2>1, <2>3, <1>7
  <2> QED BY <2>2, <2>3, <1>1
<1>11. LocksExclude'
  <2> SUFFICES ASSUME NEW u \in Worker, NEW v \in Worker, u # v,
                      HoldsPage(u)', HoldsPage(v)'
               PROVE  Doc(u).url # Doc(v).url /\ target'[u] # target'[v]
    BY <1>3 DEF LocksExclude
  <2>1. CASE u = w
    BY <2>1, <1>4, <1>5, <1>10
  <2>2. CASE v = w
    BY <2>2, <1>4, <1>5, <1>10
  <2>3. CASE u # w /\ v # w
    BY <2>3, <1>4, <1>5 DEF UrlInv, LocksExclude
  <2> QED BY <2>1, <2>2, <2>3
<1> QED BY <1>8, <1>9, <1>11 DEF UrlInv

LEMMA CommitUrl ==
  ASSUME TypeInv, UrlInv, NEW w \in Worker, Commit(w)
  PROVE  UrlInv'
<1> DEFINE t == target[w]
<1>1. HoldsPage(w) /\ t \in PageId /\ step[w] = "commit"
  BY DEF Commit, HoldsPage, TypeInv, Tx
<1>2. pages'[t].url = Doc(w).url
  <2>1. pages'[t].url = Written(w).url
    BY <1>1, CommitPages, CommittedTyped
  <2>2. CASE pages[t] = NoRow
    BY <1>1, <2>1, <2>2, WrittenKeeps
  <2>3. CASE pages[t] # NoRow
    BY <1>1, <2>1, <2>3, WrittenKeeps DEF UrlInv, TargetIsPage, Live
  <2> QED BY <2>2, <2>3
<1>3. \A p \in PageId \ {t} : pages'[p] = pages[p]
  BY CommitOther
<1>4. Live' = Live \cup {t} /\ Live \subseteq PageId
  BY CommitLive DEF Live
<1>5. \A p \in Live : pages[p].url = Doc(w).url => p = t
  BY <1>1 DEF UrlInv, TargetIsPage, UniqueUrl, PageOf
<1>6. \A v \in Worker : HoldsPage(v)' <=> HoldsPage(v) /\ v # w
  BY DEF HoldsPage, Commit, End, TypeInv, TypeOK
<1>7. \A v \in Worker \ {w} : target'[v] = target[v] /\ Doc(v)' = Doc(v)
  BY DEF Commit, End, TypeInv, TypeOK, Doc
<1>8. UniqueUrl'
  <2> SUFFICES ASSUME NEW p \in Live', NEW q \in Live', pages'[p].url = pages'[q].url
               PROVE  p = q
    BY DEF UniqueUrl
  <2>1. CASE p = t
    BY <2>1, <1>2, <1>3, <1>4, <1>5
  <2>2. CASE q = t
    BY <2>2, <1>2, <1>3, <1>4, <1>5
  <2>3. CASE p # t /\ q # t
    BY <2>3, <1>3, <1>4 DEF UrlInv, UniqueUrl
  <2> QED BY <2>1, <2>2, <2>3
<1>9. \A v \in Worker \ {w} : HoldsPage(v) =>
        target[v] # t /\ target[v] \in PageId /\ Doc(v).url # Doc(w).url
  BY <1>1 DEF UrlInv, LocksExclude, TypeInv, Tx
<1>10. TargetIsPage'
  <2> SUFFICES ASSUME NEW v \in Worker, v # w, HoldsPage(v)
               PROVE  /\ target[v] \in Live' => pages'[target[v]].url = Doc(v).url
                      /\ target[v] \notin Live' => PageOf(Doc(v).url)' = {}
    <3>1. ASSUME NEW v \in Worker, HoldsPage(v)'
          PROVE  /\ v # w /\ HoldsPage(v) /\ target'[v] = target[v] /\ Doc(v)' = Doc(v)
                 /\ PageOf(Doc(v).url)' = PageOf(Doc(v).url)'
      BY <3>1, <1>6, <1>7
    <3> QED BY <3>1, <1>6, <1>7 DEF TargetIsPage, PageOf
  <2>1. target[v] \in Live' <=> target[v] \in Live
    BY <1>4, <1>9
  <2>2. CASE target[v] \in Live
    BY <2>1, <2>2, <1>3, <1>9 DEF UrlInv, TargetIsPage
  <2>3. CASE target[v] \notin Live
    <3>1. PageOf(Doc(v).url) = {}
      BY <2>3 DEF UrlInv, TargetIsPage
    <3>2. \A p \in Live' : pages'[p].url # Doc(v).url
      BY <3>1, <1>2, <1>3, <1>4, <1>9 DEF PageOf
    <3>3. Doc(v)' = Doc(v)
      BY <1>7
    <3> QED BY <2>1, <2>3, <3>2, <3>3 DEF PageOf
  <2> QED BY <2>2, <2>3
<1>11. LocksExclude'
  BY <1>6, <1>7 DEF UrlInv, LocksExclude
<1> QED BY <1>8, <1>10, <1>11 DEF UrlInv

LEMMA QuarantineUrl ==
  ASSUME TypeInv, UrlInv, NEW b \in BronzeId, Quarantine(b)
  PROVE  UrlInv'
<1>1. \A w \in Worker : (HoldsPage(w)' <=> HoldsPage(w)) /\ Doc(w)' = Doc(w)
  BY DEF Quarantine, txVars, HoldsPage, Doc
<1>2. target' = target
  BY DEF Quarantine, txVars
<1>3. Live' \subseteq Live /\ \A p \in Live' : pages'[p].url = pages[p].url
  BY QuarantineKeeps
<1>4. \A w \in Worker : HoldsPage(w) => (target[w] \in Live' <=> target[w] \in Live)
  <2> SUFFICES ASSUME NEW w \in Worker, HoldsPage(w) PROVE target[w] \notin Gone(b)
    BY QuarantineLive
  <2>1. target[w] \in PageId /\ PageLocked(target[w])
    BY DEF PageLocked, TypeInv, Tx
  <2> QED BY <2>1, QuarantinedPage
<1>5. UniqueUrl'
  BY <1>3 DEF UrlInv, UniqueUrl
<1>6. TargetIsPage'
  <2> SUFFICES ASSUME NEW w \in Worker, HoldsPage(w)
               PROVE  /\ target[w] \in Live' => pages'[target[w]].url = Doc(w).url
                      /\ target[w] \notin Live' => \A p \in Live' : pages'[p].url # Doc(w).url
    BY <1>1, <1>2 DEF TargetIsPage, PageOf
  <2>1. target[w] \in Live' => pages'[target[w]].url = Doc(w).url
    BY <1>3, <1>4 DEF UrlInv, TargetIsPage
  <2>2. target[w] \notin Live' => \A p \in Live : pages[p].url # Doc(w).url
    BY <1>4 DEF UrlInv, TargetIsPage, PageOf
  <2> QED BY <2>1, <2>2, <1>3
<1>7. LocksExclude'
  BY <1>1, <1>2 DEF UrlInv, LocksExclude
<1> QED BY <1>5, <1>6, <1>7 DEF UrlInv

LEMMA UrlStep == TypeInv /\ UrlInv /\ [Next]_vars => UrlInv'
<1> SUFFICES ASSUME TypeInv, UrlInv, [Next]_vars PROVE UrlInv'
  OBVIOUS
<1>1. ASSUME NEW w \in Worker, NEW f \in Fetch, SaveBronze(w, f) PROVE UrlInv'
  BY <1>1, LocksKept DEF SaveBronze, dbVars, HoldsPage, TypeInv, TypeOK
<1>2. ASSUME NEW w \in Worker, ReadPrevious(w) PROVE UrlInv'
  BY <1>2, LocksKept DEF ReadPrevious, dbVars, HoldsPage, TypeInv, TypeOK
<1>3. ASSUME NEW w \in Worker, UpsertPage(w) PROVE UrlInv'
  BY <1>3, UpsertUrl
<1>4. ASSUME NEW w \in Worker, FoldDuplicate(w) PROVE UrlInv'
  BY <1>4, LocksKept DEF FoldDuplicate, dbVars, HoldsPage, TypeInv, TypeOK
<1>5. ASSUME NEW w \in Worker, Commit(w) PROVE UrlInv'
  BY <1>5, CommitUrl
<1>6. ASSUME NEW w \in Worker, Abort(w) PROVE UrlInv'
  BY <1>6, LocksKept DEF Abort, End, dbVars, HoldsPage, TypeInv, TypeOK
<1>7. ASSUME NEW b \in BronzeId, Quarantine(b) PROVE UrlInv'
  BY <1>7, QuarantineUrl
<1>8. CASE UNCHANGED vars
  BY <1>8, LocksKept DEF vars, HoldsPage
<1> QED BY <1>1, <1>2, <1>3, <1>4, <1>5, <1>6, <1>7, <1>8 DEF Next, Transaction

\* However many transactions insert a URL at once, it has one page.
THEOREM OnePagePerUrl == Spec => []UniqueUrl
<1>1. Init => UrlInv
  BY DEF Init, UrlInv, UniqueUrl, TargetIsPage, LocksExclude, Live, HoldsPage
<1>2. UrlInv => UniqueUrl
  BY DEF UrlInv
<1> QED BY <1>1, <1>2, TypeInit, TypeStep, UrlStep, PTL DEF Spec

\* Pages agree: one of a URL, folded only into pages that are older and there.
THEOREM PagesStand == Spec => []PagesAgree
<1>1. UniqueUrl /\ DuplicateIsNewer /\ NoDanglingDuplicate => PagesAgree
  BY DEF PagesAgree
<1> QED BY <1>1, OnePagePerUrl, FoldsEnd, OriginalsExist, PTL

-----------------------------------------------------------------------------
(* The fold.                                                               *)

Below == {s \in Nat \X Nat : s[1] < s[2]}

\* Below is < on the naturals, as a set of pairs.
LEMMA BelowIsLess == Below = OpToRel(<, Nat)
BY DEF Below, OpToRel

\* Some of some naturals is the least.
LEMMA LeastIs ==
  ASSUME NEW I, I \subseteq Nat, I # {}
  PROVE  \E i \in I : \A j \in I : i <= j
<1>1. IsWellFoundedOn(Below, Nat)
  BY NatLessThanWellFounded, BelowIsLess, Zenon
<1>2. PICK x \in I : \A y \in I : <<y, x>> \notin Below
  BY <1>1, WFMin
<1>3. ASSUME NEW y \in I PROVE x <= y
  <2>1. x \in Nat /\ y \in Nat
    OBVIOUS
  <2>2. y < x => <<y, x>> \in Below
    BY <2>1 DEF Below
  <2> QED BY <1>2, <2>1, <2>2
<1> QED BY <1>3

\* SimHash bits of a live page and a text.
LEMMA BitsTyped ==
  ASSUME TypeInv, NEW q \in Live, NEW c \in Content
  PROVE  q \in PageId /\ q \in Nat /\ pages[q].content \in Content /\ Bits(q, c) \in Nat
<1>1. q \in PageId /\ pages[q] \in Page
  BY DEF Live, TypeInv, TypeOK
<1>2. pages[q].content \in Content
  BY <1>1 DEF Page
<1>3. \A d \in Content : Distance[<<d, c>>] \in Nat
  BY DistanceAssumption
<1>4. Bits(q, c) \in Nat
  BY <1>2, <1>3, Zenon DEF Bits
<1>5. q \in Nat
  BY <1>1, BoundsAssumption DEF PageId
<1> QED BY <1>1, <1>2, <1>4, <1>5

\* Among some candidates one is closer than all others.
LEMMA ClosestIs ==
  ASSUME TypeInv, NEW c \in Content, NEW S, S \subseteq Live, S # {}
  PROVE  \E q \in S : \A r \in S \ {q} : Closer(q, r, c)
<1> DEFINE B == {Bits(q, c) : q \in S}
<1>1. \A q \in S : q \in Nat /\ Bits(q, c) \in Nat
  BY BitsTyped
<1>2. B \subseteq Nat /\ B # {}
  BY <1>1
<1>3. PICK b \in B : \A d \in B : b <= d
  BY <1>2, LeastIs
<1> DEFINE M == {q \in S : Bits(q, c) = b}
<1>4. M \subseteq Nat /\ M # {}
  BY <1>1, <1>3
<1>5. PICK q \in M : \A r \in M : q <= r
  BY <1>4, LeastIs
<1>6. ASSUME NEW r \in S \ {q} PROVE Closer(q, r, c)
  <2>1. Bits(q, c) = b /\ b <= Bits(r, c) /\ b \in Nat /\ Bits(r, c) \in Nat
    BY <1>1, <1>2, <1>3, <1>5
  <2>2. CASE Bits(r, c) = b
    <3>1. q <= r /\ q # r /\ q \in Nat /\ r \in Nat
      BY <1>1, <1>5, <2>2
    <3> QED BY <2>1, <2>2, <3>1 DEF Closer
  <2>3. CASE Bits(r, c) # b
    BY <2>1, <2>3 DEF Closer
  <2> QED BY <2>2, <2>3
<1> QED BY <1>5, <1>6

\* find_near_duplicates loses nobody when no more are near than its limit.
LEMMA NearIsAll ==
  ASSUME TypeInv, NEW p \in PageId, NEW c \in Content,
         Cardinality(NearPages(p, c)) <= NearLimit
  PROVE  Near(p, c) = NearPages(p, c)
<1> DEFINE N == NearPages(p, c)
<1>1. IsFiniteSet(PageId)
  BY BoundsAssumption, FS_Interval DEF PageId
<1>2. IsFiniteSet(N) /\ Cardinality(N) \in Nat
  <2>1. N \in SUBSET PageId
    BY DEF NearPages, Canonical, Live
  <2>2. IsFiniteSet(N)
    BY <1>1, <2>1, FS_Subset
  <2> QED BY <2>2, FS_CardinalityType
<1>3. ASSUME NEW q \in N PROVE Cardinality({r \in N : Closer(r, q, c)}) < NearLimit
  <2> DEFINE C == {r \in N : Closer(r, q, c)}
  <2>1. q \notin C
    <3>1. q \in Live
      BY DEF NearPages, Canonical
    <3>2. q \in Nat /\ Bits(q, c) \in Nat
      BY <3>1, BitsTyped
    <3> QED BY <3>2 DEF Closer
  <2>2. C \in SUBSET (N \ {q})
    BY <2>1
  <2>3. IsFiniteSet(N \ {q}) /\ Cardinality(N \ {q}) = Cardinality(N) - 1
    BY <1>2, FS_RemoveElement
  <2>4. Cardinality(C) <= Cardinality(N) - 1 /\ IsFiniteSet(C)
    BY <2>2, <2>3, FS_Subset
  <2>5. Cardinality(C) \in Nat
    BY <2>4, FS_CardinalityType
  <2> QED BY <1>2, <2>4, <2>5, BoundsAssumption
<1> QED BY <1>3 DEF Near

\* _fold_duplicate answers with a canonical page that is near, when there is an older one.
LEMMA OriginalIsNear ==
  ASSUME TypeInv, NEW p \in PageId, NEW c \in Content,
         Cardinality(NearPages(p, c)) <= NearLimit
  PROVE  /\ Original(p, c) # 0 =>
              Original(p, c) \in Canonical \ {p} /\ Bits(Original(p, c), c) <= MaxDistance
         /\ Original(p, c) = 0 => \A q \in NearPages(p, c) : ~ (q < p)
<1> DEFINE exact == {q \in Exact(p, c) : \A r \in Exact(p, c) : q <= r}
           older == {q \in Near(p, c) : q < p}
           near == {q \in older : \A r \in older \ {q} : Closer(q, r, c)}
           found == IF \E q \in exact : q < p THEN exact ELSE near
<1>1. Original(p, c) = IF found = {} THEN 0 ELSE CHOOSE q \in found : TRUE
  BY DEF Original
<1>2. Near(p, c) = NearPages(p, c)
  BY NearIsAll
<1>3. NearPages(p, c) \subseteq Live /\ NearPages(p, c) \subseteq Canonical \ {p}
  BY DEF NearPages, Canonical
<1>4. Exact(p, c) \subseteq NearPages(p, c)
  <2> SUFFICES ASSUME NEW q \in Exact(p, c) PROVE Bits(q, c) <= MaxDistance
    BY DEF NearPages, Exact
  <2>1. pages[q].content = c
    BY DEF Exact
  <2>2. Bits(q, c) = 0
    BY <2>1, DistanceAssumption, Zenon DEF Bits
  <2> QED BY <2>2 DEF MaxDistance
<1>5. found \subseteq NearPages(p, c)
  BY <1>2, <1>4
<1>6. (\E q \in NearPages(p, c) : q < p) => found # {}
  <2>1. CASE \E q \in exact : q < p
    BY <2>1
  <2>2. CASE ~ \E q \in exact : q < p
    <3>1. older \subseteq Live
      BY <1>2, <1>3
    <3>2. older # {} => near # {}
      <4> HIDE DEF older
      <4> QED BY <3>1, ClosestIs
    <3>3. (\E q \in NearPages(p, c) : q < p) => older # {}
      BY <1>2
    <3> QED BY <2>2, <3>2, <3>3
  <2> QED BY <2>1, <2>2
<1>7. 0 \notin NearPages(p, c)
  BY <1>3, BoundsAssumption DEF Live, PageId
<1> HIDE DEF found
<1>8. CASE found = {}
  BY <1>1, <1>6, <1>8
<1>9. CASE found # {}
  <2>1. Original(p, c) \in found
    BY <1>1, <1>9
  <2>2. Original(p, c) \in NearPages(p, c)
    BY <1>5, <2>1
  <2> QED BY <1>3, <1>7, <2>2 DEF NearPages
<1> QED BY <1>8, <1>9

-----------------------------------------------------------------------------
(* What keeps folds apart and near.                                        *)

\* The text a page holds is the one its URL keeps.
TextsKept ==
  \A p \in Live : \E f \in Fetch :
    pages[p].url = fetches[f].url /\ pages[p].content = TextOf[fetches[f].body]

\* At most one transaction is open.
OneAtATime == \A v, w \in Worker : step[v] # "idle" /\ step[w] # "idle" => v = w

\* A page about to be created is the newest.
NewIsNewest ==
  \A w \in Worker : HoldsPage(w) /\ target[w] \notin Live => \A q \in Live : q < target[w]

\* What the fold found is still so at the commit.
FoldIsFresh ==
  \A w \in Worker : step[w] = "commit" =>
    /\ fold[w] = Original(target[w], Written(w).content)
    /\ Cardinality(NearPages(target[w], Written(w).content)) <= NearLimit

CanonicalApart ==
  \A p, q \in Canonical : Bits(p, pages[q].content) <= MaxDistance => p = q

FoldInv ==
  Undisturbed =>
    /\ TextsKept /\ OneAtATime /\ NewIsNewest /\ FoldIsFresh
    /\ CanonicalApart /\ \A p \in Live : WellFolded(p)

\* What was undisturbed after a step was so before it.
LEMMA UndisturbedBefore ==
  ASSUME TypeInv, [Next]_vars, Undisturbed'
  PROVE  Undisturbed /\ ~ \E b \in BronzeId : Quarantine(b)
<1>1. fetches' = fetches
  BY DEF Next, Transaction, SaveBronze, ReadPrevious, UpsertPage, FoldDuplicate, Commit,
     Abort, Quarantine, vars
<1>2. ~overlapped' /\ ~crowded' => ~overlapped /\ ~crowded
  BY Zenon DEF Next, Transaction, SaveBronze, ReadPrevious, UpsertPage, FoldDuplicate, Commit,
     Abort, Quarantine, vars, ghosts
<1>3. quarantines' = quarantines \/ quarantines' = quarantines + 1
  BY DEF Next, Transaction, SaveBronze, ReadPrevious, UpsertPage, FoldDuplicate, Commit,
     Abort, Quarantine, vars, ghosts
<1>4. quarantines \in Nat
  BY DEF TypeInv, TypeOK
<1>5. ~ \E b \in BronzeId : Quarantine(b)
  BY <1>4 DEF Quarantine, Undisturbed
<1> QED BY <1>1, <1>2, <1>3, <1>4, <1>5 DEF Undisturbed, Calm

\* The text of a save is the one its page has.
LEMMA TextIsKept ==
  ASSUME TypeInv, UrlInv, Calm, TextsKept, NEW w \in Worker, HoldsPage(w)
  PROVE  /\ Written(w).content = Text(w)
         /\ target[w] \in Live => pages[target[w]].content = Text(w)
<1>1. step[w] # "idle" /\ fetch[w] \in Fetch /\ target[w] \in PageId /\ source[w] \in BronzeId
  BY DEF HoldsPage, TypeInv, Tx
<1>2. Text(w) = TextOf[fetches[fetch[w]].body] /\ Doc(w).url = fetches[fetch[w]].url
  BY DEF Text, Doc
<1>3. target[w] \in Live => pages[target[w]].content = Text(w)
  <2> SUFFICES ASSUME target[w] \in Live PROVE pages[target[w]].content = Text(w)
    OBVIOUS
  <2>1. PICK f \in Fetch : /\ pages[target[w]].url = fetches[f].url
                           /\ pages[target[w]].content = TextOf[fetches[f].body]
    BY DEF TextsKept
  <2>2. pages[target[w]].url = Doc(w).url
    BY DEF UrlInv, TargetIsPage
  <2> QED BY <1>1, <1>2, <2>1, <2>2 DEF Calm
<1> DEFINE p == pages[target[w]]
<1>4. CASE p = NoRow
  BY <1>3, <1>4 DEF Live, Written
<1>5. CASE p # NoRow
  <2>1. target[w] \in Live /\ p \in Page
    BY <1>1, <1>5 DEF Live, TypeInv, TypeOK
  <2>2. p.content = Text(w)
    BY <1>3, <2>1
  <2>3. CASE IsNotOlder(p, source[w])
    <3>1. Written(w) = [p EXCEPT !.content = Text(w), !.source = source[w],
                                 !.version = p.version]
      BY <1>5, <2>2, <2>3 DEF Written
    <3> HIDE DEF p
    <3> QED BY <1>3, <2>1, <3>1 DEF Page
  <2>4. CASE ~IsNotOlder(p, source[w])
    <3>1. Written(w) = p
      BY <1>5, <2>4 DEF Written
    <3> QED BY <1>3, <2>2, <3>1
  <2> QED BY <2>3, <2>4
<1> QED BY <1>4, <1>5

\* The statements before a transaction's commit leave the rows, and what the folds found.
LEMMA RowsKept ==
  ASSUME TypeInv, FoldInv, Undisturbed, Undisturbed', pages' = pages, fetches' = fetches,
         OneAtATime',
         \A w \in Worker : HoldsPage(w)' /\ target'[w] \notin Live =>
           \A q \in Live : q < target'[w],
         \A w \in Worker : step'[w] = "commit" =>
           /\ fold'[w] = Original(target'[w], Written(w)'.content)
           /\ Cardinality(NearPages(target'[w], Written(w)'.content)) <= NearLimit
  PROVE  FoldInv'
<1>1. Live' = Live /\ Canonical' = Canonical
  BY DEF Live, Canonical
<1>2. ASSUME NEW p, NEW c
      PROVE  /\ Bits(p, c)' = Bits(p, c)
             /\ NearPages(p, c)' = NearPages(p, c)
             /\ Original(p, c)' = Original(p, c)
  <2>1. \A q, d : Bits(q, d)' = Bits(q, d)
    BY Zenon DEF Bits
  <2>2. NearPages(p, c)' = NearPages(p, c)
    BY <1>1, <2>1 DEF NearPages
  <2>3. Exact(p, c)' = Exact(p, c)
    BY <1>1 DEF Exact
  <2>4. \A q, r : Closer(q, r, c)' <=> Closer(q, r, c)
    BY <2>1 DEF Closer
  <2>5. Near(p, c)' = Near(p, c)
    BY <2>2, <2>4 DEF Near
  <2>6. Original(p, c)' = Original(p, c)
    <3> DEFINE exact == {q \in Exact(p, c) : \A r \in Exact(p, c) : q <= r}
               older == {q \in Near(p, c) : q < p}
               near == {q \in older : \A r \in older \ {q} : Closer(q, r, c)}
               found == IF \E q \in exact : q < p THEN exact ELSE near
    <3>1. exact' = exact /\ older' = older
      BY <2>3, <2>5
    <3>2. near' = near
      <4> HIDE DEF older
      <4> QED BY <2>4, <3>1
    <3>3. found' = found
      <4> HIDE DEF exact, near
      <4> QED BY <3>1, <3>2
    <3>4. Original(p, c) = IF found = {} THEN 0 ELSE CHOOSE q \in found : TRUE
      BY DEF Original
    <3>5. Original(p, c)' = IF found' = {} THEN 0 ELSE CHOOSE q \in found' : TRUE
      BY DEF Original
    <3> HIDE DEF found
    <3> QED BY <3>3, <3>4, <3>5
  <2> QED BY <2>1, <2>2, <2>6
<1>3. TextsKept'
  BY <1>1 DEF FoldInv, TextsKept
<1>4. CanonicalApart'
  BY <1>1 DEF FoldInv, CanonicalApart, Bits
<1>5. \A p \in Live' : WellFolded(p)'
  BY <1>1 DEF FoldInv, WellFolded, Bits
<1>6. NewIsNewest'
  BY <1>1 DEF NewIsNewest
<1>7. FoldIsFresh'
  <2> SUFFICES ASSUME NEW w \in Worker, step'[w] = "commit"
               PROVE  /\ fold'[w] = Original(target[w], Written(w).content)'
                      /\ Cardinality(NearPages(target[w], Written(w).content))' <= NearLimit
    BY DEF FoldIsFresh
  <2> DEFINE t == target'[w]
             c == Written(w)'.content
  <2>1. fold'[w] = Original(t, c) /\ Cardinality(NearPages(t, c)) <= NearLimit
    OBVIOUS
  <2>2. Original(target[w], Written(w).content)' = Original(t, c)
    BY <1>1 DEF Bits, NearPages, Original, Exact, Near, Closer
  <2>3. NearPages(target[w], Written(w).content)' = NearPages(t, c)
    BY <1>1 DEF Bits, NearPages
  <2> QED BY <2>1, <2>2, <2>3
<1> QED BY <1>3, <1>4, <1>5, <1>6, <1>7 DEF FoldInv

\* Where nothing a save writes changes, it leaves the same page.
LEMMA WrittenSame ==
  ASSUME NEW w \in Worker, pages' = pages, fetches' = fetches,
         fetch'[w] = fetch[w], source'[w] = source[w], target'[w] = target[w]
  PROVE  Written(w)' = Written(w)
BY DEF Written, Doc, Text, IsNotOlder

\* A transaction begins, goes on without a row changing, or is given up.
LEMMA StatementFold ==
  ASSUME TypeInv, FoldInv, Undisturbed, Undisturbed', NEW w \in Worker,
         Transaction(w), ~Commit(w)
  PROVE  FoldInv'
<1>1. pages' = pages /\ fetches' = fetches
  BY TablesKept DEF Transaction, SaveBronze, ReadPrevious, UpsertPage, FoldDuplicate, Abort
<1>2. OneAtATime /\ NewIsNewest /\ FoldIsFresh
  BY DEF FoldInv
<1>3. ASSUME NEW f \in Fetch, SaveBronze(w, f) PROVE FoldInv'
  <2>1. \A v \in Worker : step[v] = "idle"
    BY <1>3, Zenon DEF SaveBronze, Undisturbed, Calm
  <2>2. step' = [step EXCEPT ![w] = "read"]
    BY <1>3 DEF SaveBronze
  <2>3. \A v \in Worker : step'[v] = IF v = w THEN "read" ELSE "idle"
    BY <2>1, <2>2 DEF TypeInv, TypeOK
  <2>4. OneAtATime' /\ \A v \in Worker : ~HoldsPage(v)' /\ step'[v] # "commit"
    BY <2>3 DEF OneAtATime, HoldsPage
  <2> QED BY <1>1, <2>4, RowsKept
<1>4. CASE ReadPrevious(w)
  <2>1. \A v \in Worker : step'[v] = IF v = w THEN "upsert" ELSE step[v]
    BY <1>4 DEF ReadPrevious, TypeInv, TypeOK
  <2>2. step[w] = "read" /\ UNCHANGED <<fetch, source, target, fold>>
    BY <1>4 DEF ReadPrevious
  <2>3. OneAtATime'
    BY <1>2, <2>1, <2>2 DEF OneAtATime
  <2>4. \A v \in Worker : Written(v)' = Written(v)
    BY <1>1, <2>2, WrittenSame
  <2> QED BY <1>1, <1>2, <2>1, <2>2, <2>3, <2>4, RowsKept DEF NewIsNewest, FoldIsFresh, HoldsPage
<1>5. CASE UpsertPage(w)
  <2>1. \A v \in Worker : step'[v] = IF v = w THEN "fold" ELSE step[v]
    BY <1>5 DEF UpsertPage, TypeInv, TypeOK
  <2>2. step[w] = "upsert" /\ UNCHANGED <<fetch, source, fold>>
    BY <1>5 DEF UpsertPage
  <2>3. OneAtATime' /\ \A v \in Worker : v # w => step'[v] = "idle"
    BY <1>2, <2>1, <2>2 DEF OneAtATime
  <2>4. PICK p \in PageId :
          /\ target' = [target EXCEPT ![w] = p]
          /\ \/ p \in PageOf(Doc(w).url)
             \/ NewId(p, UsedPages)
    BY <1>5 DEF UpsertPage, PageOf, Live
  <2>5. p \notin Live => \A q \in Live : q < p
    BY <2>4 DEF PageOf, NewId, UsedPages
  <2>6. target'[w] = p
    BY <2>4 DEF TypeInv, TypeOK
  <2>7. \A v \in Worker : HoldsPage(v)' /\ target'[v] \notin Live =>
          \A q \in Live : q < target'[v]
    BY <2>3, <2>5, <2>6 DEF HoldsPage
  <2>8. \A v \in Worker : step'[v] # "commit"
    BY <2>1, <2>3
  <2> QED BY <1>1, <2>3, <2>7, <2>8, RowsKept
<1>6. CASE FoldDuplicate(w)
  <2> DEFINE o == Original(target[w], Written(w).content)
             n == Cardinality(NearPages(target[w], Written(w).content))
  <2>1. \A v \in Worker : step'[v] = IF v = w THEN "commit" ELSE step[v]
    BY <1>6 DEF FoldDuplicate, TypeInv, TypeOK
  <2>2. step[w] = "fold" /\ UNCHANGED <<fetch, source, target>> /\ fold' = [fold EXCEPT ![w] = o]
    BY <1>6 DEF FoldDuplicate
  <2>3. OneAtATime' /\ \A v \in Worker : v # w => step'[v] = "idle"
    BY <1>2, <2>1, <2>2 DEF OneAtATime
  <2>4. ~ (n > NearLimit)
    BY <1>6, Zenon DEF FoldDuplicate, Undisturbed
  <2>5. n \in Nat
    <3>1. IsFiniteSet(PageId)
      BY BoundsAssumption, FS_Interval DEF PageId
    <3>2. NearPages(target[w], Written(w).content) \in SUBSET PageId
      BY DEF NearPages, Canonical, Live
    <3> QED BY <3>1, <3>2, FS_Subset, FS_CardinalityType
  <2>6. n <= NearLimit
    BY <2>4, <2>5, BoundsAssumption
  <2>7. fold'[w] = o /\ target'[w] = target[w]
    BY <2>2 DEF TypeInv, TypeOK
  <2>8. Written(w)' = Written(w)
    BY <1>1, <2>2, WrittenSame
  <2>9. \A v \in Worker : HoldsPage(v)' /\ target'[v] \notin Live =>
          \A q \in Live : q < target'[v]
    BY <1>2, <2>1, <2>2 DEF HoldsPage, NewIsNewest
  <2>10. \A v \in Worker : step'[v] = "commit" =>
           /\ fold'[v] = Original(target'[v], Written(v)'.content)
           /\ Cardinality(NearPages(target'[v], Written(v)'.content)) <= NearLimit
    BY <2>3, <2>6, <2>7, <2>8
  <2> QED BY <1>1, <2>3, <2>9, <2>10, RowsKept
<1>7. CASE Abort(w)
  <2>1. step' = [step EXCEPT ![w] = "idle"] /\ step[w] # "idle"
    BY <1>7 DEF Abort, End
  <2>2. \A v \in Worker : step'[v] = "idle"
    BY <1>2, <2>1 DEF OneAtATime, TypeInv, TypeOK
  <2>3. OneAtATime' /\ \A v \in Worker : ~HoldsPage(v)' /\ step'[v] # "commit"
    BY <2>2 DEF OneAtATime, HoldsPage
  <2> QED BY <1>1, <2>3, RowsKept
<1> QED BY <1>3, <1>4, <1>5, <1>6, <1>7 DEF Transaction

\* The commit keeps the text of every page and adds at most its own page to the
\* canonical ones, far from them all; a page that was folded stays folded.
LEMMA CommitFold ==
  ASSUME TypeInv, UrlInv, DuplicateIsNewer, FoldInv, Undisturbed, Undisturbed',
         NEW w \in Worker, Commit(w)
  PROVE  /\ FoldInv'
         /\ \A p \in Live : pages[p].dup # 0 => pages'[p].dup # 0
<1> DEFINE t == target[w]
           c == Written(w).content
           o == fold[w]
<1>1. step[w] = "commit" /\ HoldsPage(w) /\ t \in PageId
  BY DEF Commit, HoldsPage, TypeInv, Tx
<1>2. c \in Content
  BY <1>1, WrittenTyped DEF Page
<1>3. c = Text(w) /\ (t \in Live => pages[t].content = c)
  BY <1>1, TextIsKept DEF FoldInv, Undisturbed
<1>4. pages'[t].content = c /\ pages'[t].dup = o /\ pages'[t].url = Doc(w).url
  <2>1. pages'[t] = [Written(w) EXCEPT !.dup = o] /\ Written(w) \in Page
    BY <1>1, CommitPages, WrittenTyped
  <2>2. Written(w).url = Doc(w).url
    BY <1>1, WrittenKeeps DEF UrlInv, TargetIsPage, Live
  <2> QED BY <2>1, <2>2 DEF Page
<1>5. \A p \in Live : p # t => pages'[p] = pages[p]
  BY CommitOther DEF Live
<1>6. Live' = Live \cup {t}
  BY CommitLive
<1>7. o = Original(t, c) /\ Cardinality(NearPages(t, c)) <= NearLimit
  BY <1>1 DEF FoldInv, FoldIsFresh
<1> HIDE DEF t, c, o
<1>8. /\ o # 0 => o \in Canonical \ {t} /\ Bits(o, c) <= MaxDistance
      /\ o = 0 => \A q \in NearPages(t, c) : ~ (q < t)
  BY <1>1, <1>2, <1>7, OriginalIsNear
<1>9. \A p \in Live : pages'[p].content = pages[p].content
  BY <1>3, <1>4, <1>5
<1>10. \A p \in Live : \A d : Bits(p, d)' = Bits(p, d)
  BY <1>9 DEF Bits
<1>11. t \in Canonical => o = 0
  <2> SUFFICES ASSUME t \in Canonical, o # 0 PROVE FALSE
    OBVIOUS
  <2>1. pages[t].content = c /\ o \in Canonical /\ o # t
    BY <1>3, <1>8 DEF Canonical
  <2> QED BY <1>8, <2>1 DEF FoldInv, CanonicalApart
<1>12. t \in Live /\ t \notin Canonical => o # 0
  <2> SUFFICES ASSUME t \in Live, t \notin Canonical, o = 0 PROVE FALSE
    OBVIOUS
  <2> DEFINE d == pages[t].dup
  <2>1. d # 0 /\ WellFolded(t) /\ d < t
    BY DEF Canonical, FoldInv, DuplicateIsNewer
  <2>2. d \in Canonical /\ Bits(d, c) <= MaxDistance
    BY <1>3, <2>1 DEF WellFolded
  <2>3. d \in NearPages(t, c)
    BY <2>2 DEF NearPages
  <2> QED BY <1>8, <2>1, <2>3
<1>13. t \notin Live /\ o = 0 => \A q \in Canonical : ~ (Bits(q, c) <= MaxDistance)
  <2> SUFFICES ASSUME t \notin Live, o = 0, NEW q \in Canonical, Bits(q, c) <= MaxDistance
               PROVE  FALSE
    OBVIOUS
  <2>1. q \in Live /\ q # t
    BY DEF Canonical
  <2>2. q < t
    BY <1>1, <2>1 DEF FoldInv, NewIsNewest, t
  <2> QED BY <1>8, <2>1, <2>2 DEF NearPages
<1>14. Canonical' = IF o = 0 THEN Canonical \cup {t} ELSE Canonical
  <2>1. \A p \in Live : p # t => (p \in Canonical' <=> p \in Canonical)
    BY <1>5, <1>6 DEF Canonical
  <2>2. t \in Canonical' <=> o = 0
    BY <1>4, <1>6 DEF Canonical
  <2>3. t \in Canonical => o = 0
    BY <1>11
  <2>4. Canonical \subseteq Live /\ Canonical' \subseteq Live \cup {t}
    BY <1>6 DEF Canonical
  <2> QED BY <2>1, <2>2, <2>3, <2>4
<1>15. CanonicalApart'
  <2> SUFFICES ASSUME NEW p \in Canonical', NEW q \in Canonical', p # q,
                      Bits(p, pages[q].content)' <= MaxDistance
               PROVE  FALSE
    BY DEF CanonicalApart
  <2>1. CASE p \in Canonical /\ q \in Canonical
    <3>1. p \in Live /\ q \in Live
      BY <2>1 DEF Canonical
    <3>2. Bits(p, pages[q].content)' = Bits(p, pages[q].content)
      BY <1>9, <3>1 DEF Bits
    <3> QED BY <2>1, <3>2 DEF FoldInv, CanonicalApart
  <2>2. CASE ~ (p \in Canonical /\ q \in Canonical)
    <3>1. o = 0 /\ t \notin Canonical
      BY <2>2, <1>14
    <3>2. t \notin Live
      BY <3>1, <1>12
    <3>3. PICK r \in Canonical : {p, q} = {r, t}
      BY <2>2, <3>1, <1>14
    <3>4. r \in Live /\ pages[r].content \in Content
      BY BitsTyped, <1>2 DEF Canonical
    <3>5. pages'[r].content = pages[r].content
      BY <1>9, <3>4
    <3>6. Bits(p, pages[q].content)' = Distance[<<pages'[p].content, pages'[q].content>>]
      BY DEF Bits
    <3>7. Distance[<<pages'[p].content, pages'[q].content>>] = Distance[<<pages[r].content, c>>]
      <4>1. Distance[<<pages[r].content, c>>] = Distance[<<c, pages[r].content>>]
        BY <3>4, <1>2, DistanceAssumption
      <4>2. \/ p = r /\ q = t
            \/ p = t /\ q = r
        BY <3>3
      <4> QED BY <3>5, <1>4, <4>1, <4>2
    <3> QED BY <3>1, <3>2, <3>6, <3>7, <1>13 DEF Bits
  <2> QED BY <2>1, <2>2
<1>16. \A p \in Live' : WellFolded(p)'
  <2> SUFFICES ASSUME NEW p \in Live', pages'[p].dup # 0
               PROVE  /\ pages'[p].dup \in Canonical'
                      /\ Bits(pages[p].dup, pages[p].content)' <= MaxDistance
    BY DEF WellFolded
  <2>1. CASE p = t
    <3>1. o \in Canonical /\ Bits(o, c) <= MaxDistance /\ o \in Live
      BY <1>4, <1>8, <2>1 DEF Canonical
    <3>2. Bits(pages[p].dup, pages[p].content)' = Distance[<<pages'[o].content, c>>]
      BY <1>4, <2>1 DEF Bits
    <3>3. Distance[<<pages'[o].content, c>>] = Bits(o, c)
      BY <3>1, <1>9 DEF Bits
    <3> QED BY <1>4, <1>14, <2>1, <3>1, <3>2, <3>3
  <2>2. CASE p # t
    <3> DEFINE d == pages[p].dup
    <3>1. p \in Live /\ pages'[p] = pages[p]
      BY <1>5, <1>6, <2>2
    <3>2. d \in Canonical /\ Bits(d, pages[p].content) <= MaxDistance /\ d \in Live
      BY <3>1 DEF FoldInv, WellFolded, Canonical
    <3>3. Bits(pages[p].dup, pages[p].content)' = Distance[<<pages'[d].content, pages[p].content>>]
      BY <3>1 DEF Bits
    <3>4. Distance[<<pages'[d].content, pages[p].content>>] = Bits(d, pages[p].content)
      BY <3>2, <1>9 DEF Bits
    <3>5. pages'[p].dup = d
      BY <3>1
    <3> QED BY <1>14, <3>2, <3>3, <3>4, <3>5
  <2> QED BY <2>1, <2>2
<1>17. TextsKept'
  <2> SUFFICES ASSUME NEW p \in Live'
               PROVE  \E f \in Fetch : /\ pages'[p].url = fetches[f].url
                                       /\ pages'[p].content = TextOf[fetches[f].body]
    BY DEF TextsKept, Commit
  <2>1. CASE p = t
    BY <1>1, <1>3, <1>4, <2>1 DEF Text, Doc, TypeInv, Tx, t
  <2>2. CASE p # t
    BY <1>5, <1>6, <2>2 DEF FoldInv, TextsKept
  <2> QED BY <2>1, <2>2
<1>18. \A v \in Worker : step'[v] = "idle"
  <2>1. step' = [step EXCEPT ![w] = "idle"]
    BY DEF Commit, End
  <2> QED BY <1>1, <2>1 DEF FoldInv, OneAtATime, TypeInv, TypeOK
<1>19. OneAtATime' /\ NewIsNewest' /\ FoldIsFresh'
  BY <1>18 DEF OneAtATime, NewIsNewest, FoldIsFresh, HoldsPage
<1>20. \A p \in Live : pages[p].dup # 0 => pages'[p].dup # 0
  BY <1>4, <1>5, <1>12 DEF Canonical
<1> QED BY <1>15, <1>16, <1>17, <1>19, <1>20 DEF FoldInv

LEMMA FoldStep ==
  TypeInv /\ UrlInv /\ DuplicateIsNewer /\ FoldInv /\ [Next]_vars =>
    /\ FoldInv'
    /\ Undisturbed' => \A p \in Live : pages[p].dup # 0 => pages'[p].dup # 0
<1> SUFFICES ASSUME TypeInv, UrlInv, DuplicateIsNewer, FoldInv, [Next]_vars, Undisturbed'
             PROVE  FoldInv' /\ \A p \in Live : pages[p].dup # 0 => pages'[p].dup # 0
  BY DEF FoldInv
<1>1. Undisturbed /\ ~ \E b \in BronzeId : Quarantine(b)
  BY UndisturbedBefore
<1>2. ASSUME NEW w \in Worker, Commit(w)
      PROVE  FoldInv' /\ \A p \in Live : pages[p].dup # 0 => pages'[p].dup # 0
  BY <1>1, <1>2, CommitFold
<1>3. ASSUME NEW w \in Worker, Transaction(w), ~Commit(w)
      PROVE  FoldInv' /\ \A p \in Live : pages[p].dup # 0 => pages'[p].dup # 0
  <2>1. FoldInv'
    BY <1>1, <1>3, StatementFold
  <2> QED BY <1>3, <2>1, TablesKept
<1>4. CASE UNCHANGED vars
  <2>1. pages' = pages /\ fetches' = fetches /\ step' = step /\ target' = target /\ fold' = fold
    BY <1>4 DEF vars
  <2>2. \A w \in Worker : Written(w)' = Written(w)
    BY <1>4, WrittenSame DEF vars
  <2>3. OneAtATime' /\ NewIsNewest /\ FoldIsFresh
    BY <1>1, <2>1 DEF FoldInv, OneAtATime
  <2>4. FoldInv'
    BY <1>1, <2>1, <2>2, <2>3, RowsKept DEF NewIsNewest, FoldIsFresh, HoldsPage
  <2> QED BY <2>1, <2>4
<1> QED BY <1>1, <1>2, <1>3, <1>4 DEF Next

\* While undisturbed, mirrored and near texts have one canonical page, every other is
\* folded into a canonical page that is near, and stays folded when saved again.
THEOREM MirrorsFolded == Spec => FoldingHolds
<1>1. Init => FoldInv
  BY DEF Init, FoldInv, TextsKept, OneAtATime, NewIsNewest, FoldIsFresh, CanonicalApart,
     HoldsPage, Canonical, Live
<1>2. Init => DuplicateIsNewer /\ UrlInv
  BY DEF Init, DuplicateIsNewer, UrlInv, UniqueUrl, TargetIsPage, LocksExclude, Live, HoldsPage
<1>3. FoldInv => MirrorsAreFolded /\ CalmFoldedIsNear
  BY DEF FoldInv, MirrorsAreFolded, CalmFoldedIsNear, CanonicalApart
<1>4. TypeInv /\ UrlInv /\ DuplicateIsNewer /\ FoldInv /\ [Next]_vars => [StaysFolded]_vars
  BY FoldStep DEF StaysFolded
<1> QED BY <1>1, <1>2, <1>3, <1>4, TypeInit, TypeStep, UrlStep, DuplicateStep, FoldStep, PTL
    DEF Spec, FoldingHolds

-----------------------------------------------------------------------------
(* Turn and history.                                                       *)

Opened(w) == step[w] # "idle"

\* Open transactions save different documents to different Bronze rows; a row is the
\* one of its document, and some committed save made it.
BronzeInv ==
  /\ \A v, w \in Worker : v # w /\ Opened(v) /\ Opened(w) =>
       Doc(v) # Doc(w) /\ source[v] # source[w]
  /\ \A w \in Worker : Opened(w) =>
       \/ bronze[source[w]] = Doc(w)
       \/ bronze[source[w]] = NoRow /\ \A b \in BronzeId : bronze[b] # Doc(w)
  /\ \A b, c \in BronzeId : bronze[b] # NoRow /\ bronze[b] = bronze[c] => b = c
  /\ \A b \in BronzeId : bronze[b] # NoRow => \E f \in done : bronze[b] = fetches[f]

\* History belongs to live pages and committed Bronze rows, and has each page's source.
HistoryInv ==
  /\ IsFiniteSet(history)
  /\ \A h \in history : h.page \in Live /\ bronze[h.source] # NoRow
  /\ \A p \in Live : \E h \in history : h.page = p /\ h.source = pages[p].source

\* The URL has one open transaction, which saves the next fetch or the last one saved.
SavedInOrder(u) ==
  \A w \in Worker : Opened(w) /\ Doc(w).url = u =>
    /\ \A v \in Worker : Opened(v) /\ Doc(v).url = u => v = w
    /\ \A g \in Fetch : fetches[g].url = u =>
         (g < fetch[w] => g \in done) /\ (g > fetch[w] => g \notin done)

\* previous_hash is that of the page when the transaction commits.
PreviousIsShown(u) ==
  \A w \in Worker : step[w] \notin {"idle", "read"} /\ Doc(w).url = u =>
    /\ PageOf(u) = {} => previous[w] = NoHash
    /\ \A p \in PageOf(u) : previous[w] = pages[p].content

\* The page is the last fetch saved, and was built from its Bronze row.
ShowsLastSaved(u) ==
  \A p \in PageOf(u) : \E f \in done :
    /\ fetches[f].url = u /\ \A g \in done : fetches[g].url = u => g <= f
    /\ pages[p].content = TextOf[fetches[f].body]
    /\ bronze[pages[p].source] = fetches[f]

\* A save is of the row the page was built from, or of a new one with a greater id.
SourceIsNewer(u) ==
  \A w \in Worker : Opened(w) /\ Doc(w).url = u =>
    \A p \in PageOf(u) :
      \/ pages[p].source = source[w]
      \/ pages[p].source < source[w] /\ bronze[source[w]] = NoRow

ChangesIn(rows, p) == {h \in rows : h.page = p /\ h.changed}
Changes(p) == ChangesIn(history, p)

TurnIs(u) ==
  /\ SavedInOrder(u) /\ PreviousIsShown(u)
  /\ ~Reverts(u) =>
       /\ ShowsLastSaved(u) /\ SourceIsNewer(u)
       /\ \A p \in PageOf(u) : pages[p].version = Cardinality(Changes(p))

TurnInv == BronzeInv /\ HistoryInv /\ \A u \in Url \ outOfTurn : TurnIs(u)

\* A document is no missing row.
LEMMA DocumentIsRow == NoRow \notin Document
BY DEF NoRow, Document

\* Statements that write no row and open no transaction.
LEMMA BronzeKept ==
  ASSUME BronzeInv, bronze' = bronze, done' = done, fetches' = fetches,
         \A w \in Worker : Opened(w)' =>
           Opened(w) /\ fetch'[w] = fetch[w] /\ source'[w] = source[w]
  PROVE  BronzeInv'
<1>1. \A w \in Worker : Opened(w)' => Doc(w)' = Doc(w)
  BY DEF Doc
<1>2. \A v, w \in Worker : v # w /\ Opened(v)' /\ Opened(w)' =>
        Doc(v)' # Doc(w)' /\ source'[v] # source'[w]
  BY <1>1 DEF BronzeInv
<1>3. \A w \in Worker : Opened(w)' =>
        \/ bronze'[source'[w]] = Doc(w)'
        \/ bronze'[source'[w]] = NoRow /\ \A b \in BronzeId : bronze'[b] # Doc(w)'
  BY <1>1 DEF BronzeInv
<1> QED BY <1>2, <1>3 DEF BronzeInv

LEMMA SaveBronzeRow ==
  ASSUME TypeInv, BronzeInv, NEW w \in Worker, NEW f \in Fetch, SaveBronze(w, f)
  PROVE  BronzeInv'
<1>1. step[w] = "idle" /\ \A v \in Worker : Opened(v)' <=> Opened(v) \/ v = w
  BY DEF SaveBronze, Opened, TypeInv, TypeOK
<1>2. UNCHANGED <<fetches, bronze, done>>
  BY DEF SaveBronze, dbVars
<1>3. /\ Doc(w)' = fetches[f]
      /\ \A v \in Worker : v # w => Doc(v)' = Doc(v) /\ source'[v] = source[v]
  BY DEF SaveBronze, Doc, TypeInv, TypeOK
<1>4. fetches[f] \in Document
  BY DEF TypeInv, TypeOK
<1>5. \A v \in Worker : Opened(v) => Doc(v) # fetches[f] /\ v # w
  BY <1>1 DEF SaveBronze, BronzeLocked, HoldsBronze, Opened
<1>6. PICK b \in BronzeId :
        /\ source' = [source EXCEPT ![w] = b]
        /\ \/ bronze[b] = fetches[f]
           \/ NewId(b, UsedBronze) /\ \A c \in BronzeId : bronze[c] # fetches[f]
  BY DEF SaveBronze
<1>7. source'[w] = b
  BY <1>6 DEF TypeInv, TypeOK
<1>8. NewId(b, UsedBronze) => bronze[b] = NoRow /\ \A v \in Worker : source[v] # b
  <2>1. b \in Nat
    BY BoundsAssumption DEF BronzeId
  <2>2. NewId(b, UsedBronze) => b \notin UsedBronze
    BY <2>1 DEF NewId
  <2>3. \A v \in Worker : source[v] \in UsedBronze
    BY DEF UsedBronze
  <2>4. bronze[b] # NoRow => b \in UsedBronze
    BY DEF UsedBronze
  <2> QED BY <2>2, <2>3, <2>4
<1>9. \A v \in Worker : Opened(v) => source[v] # b
  <2> SUFFICES ASSUME NEW v \in Worker, Opened(v), source[v] = b, bronze[b] = fetches[f]
               PROVE  FALSE
    BY <1>6, <1>8
  <2>1. bronze[source[v]] # NoRow
    BY <1>4, DocumentIsRow
  <2>2. bronze[source[v]] = Doc(v)
    BY <2>1 DEF BronzeInv
  <2> QED BY <1>5, <2>2
<1>10. \A u, v \in Worker : u # v /\ Opened(u)' /\ Opened(v)' =>
         Doc(u)' # Doc(v)' /\ source'[u] # source'[v]
  <2> SUFFICES ASSUME NEW u \in Worker, NEW v \in Worker, u # v, Opened(u)', Opened(v)'
               PROVE  Doc(u)' # Doc(v)' /\ source'[u] # source'[v]
    OBVIOUS
  <2>1. CASE u = w
    BY <2>1, <1>1, <1>3, <1>5, <1>7, <1>9
  <2>2. CASE v = w
    BY <2>2, <1>1, <1>3, <1>5, <1>7, <1>9
  <2>3. CASE u # w /\ v # w
    BY <2>3, <1>1, <1>3 DEF BronzeInv
  <2> QED BY <2>1, <2>2, <2>3
<1>11. \A v \in Worker : Opened(v)' =>
         \/ bronze'[source'[v]] = Doc(v)'
         \/ bronze'[source'[v]] = NoRow /\ \A c \in BronzeId : bronze'[c] # Doc(v)'
  <2> SUFFICES ASSUME NEW v \in Worker, Opened(v)'
               PROVE  \/ bronze[source'[v]] = Doc(v)'
                      \/ bronze[source'[v]] = NoRow /\ \A c \in BronzeId : bronze[c] # Doc(v)'
    BY <1>2
  <2>1. CASE v = w
    BY <2>1, <1>3, <1>6, <1>7, <1>8
  <2>2. CASE v # w
    BY <2>2, <1>1, <1>3 DEF BronzeInv
  <2> QED BY <2>1, <2>2
<1> QED BY <1>2, <1>10, <1>11 DEF BronzeInv

\* What a commit makes of the Bronze rows.
LEMMA CommitRow ==
  ASSUME TypeInv, BronzeInv, NEW w \in Worker, Commit(w)
  PROVE  /\ Opened(w) /\ source[w] \in BronzeId /\ Doc(w) \in Document /\ fetch[w] \in Fetch
         /\ bronze'[source[w]] = Doc(w)
         /\ \A b \in BronzeId : bronze[b] # NoRow => bronze'[b] = bronze[b]
         /\ \A b \in BronzeId : b # source[w] => bronze'[b] = bronze[b]
<1>1. Opened(w) /\ source[w] \in BronzeId /\ Doc(w) \in Document /\ fetch[w] \in Fetch
  BY DocTyped DEF Commit, Opened, TypeInv, Tx
<1>2. bronze' = [bronze EXCEPT ![source[w]] = Doc(w)]
  BY DEF Commit
<1>3. bronze'[source[w]] = Doc(w) /\ \A b \in BronzeId : b # source[w] => bronze'[b] = bronze[b]
  BY <1>1, <1>2 DEF TypeInv, TypeOK
<1>4. bronze[source[w]] = NoRow \/ bronze[source[w]] = Doc(w)
  BY <1>1 DEF BronzeInv
<1> QED BY <1>1, <1>3, <1>4

LEMMA CommitBronze ==
  ASSUME TypeInv, BronzeInv, NEW w \in Worker, Commit(w)
  PROVE  BronzeInv'
<1> DEFINE s == source[w]
           d == Doc(w)
<1>1. /\ Opened(w) /\ s \in BronzeId /\ d \in Document /\ fetch[w] \in Fetch
      /\ bronze'[s] = d
      /\ \A b \in BronzeId : b # s => bronze'[b] = bronze[b]
  BY CommitRow
<1>2. \A v \in Worker : Opened(v)' =>
        v # w /\ Opened(v) /\ source'[v] = source[v] /\ Doc(v)' = Doc(v)
  BY DEF Commit, End, Opened, Doc, TypeInv, TypeOK
<1>3. done' = done \cup {fetch[w]} /\ fetches' = fetches /\ d = fetches[fetch[w]]
  BY DEF Commit, Doc
<1>4. bronze[s] = d \/ \A b \in BronzeId : bronze[b] # d
  BY <1>1 DEF BronzeInv
<1>5. \A v \in Worker : v # w /\ Opened(v) => Doc(v) # d /\ source[v] # s /\ source[v] \in BronzeId
  BY <1>1 DEF BronzeInv, Opened, TypeInv, Tx
<1> HIDE DEF s, d
<1>6. \A v \in Worker : Opened(v)' =>
        \/ bronze'[source'[v]] = Doc(v)'
        \/ bronze'[source'[v]] = NoRow /\ \A b \in BronzeId : bronze'[b] # Doc(v)'
  <2> SUFFICES ASSUME NEW v \in Worker, Opened(v)'
               PROVE  \/ bronze'[source[v]] = Doc(v)
                      \/ bronze'[source[v]] = NoRow /\ \A b \in BronzeId : bronze'[b] # Doc(v)
    BY <1>2
  <2>1. bronze'[source[v]] = bronze[source[v]] /\ Doc(v) # d
    BY <1>1, <1>2, <1>5
  <2>2. \/ bronze[source[v]] = Doc(v)
        \/ bronze[source[v]] = NoRow /\ \A b \in BronzeId : bronze[b] # Doc(v)
    BY <1>2 DEF BronzeInv
  <2> QED BY <1>1, <2>1, <2>2
<1>7. \A u, v \in Worker : u # v /\ Opened(u)' /\ Opened(v)' =>
        Doc(u)' # Doc(v)' /\ source'[u] # source'[v]
  BY <1>2 DEF BronzeInv
<1>8. \A b, c \in BronzeId : bronze'[b] # NoRow /\ bronze'[b] = bronze'[c] => b = c
  BY <1>1, <1>4 DEF BronzeInv
<1>9. \A b \in BronzeId : bronze'[b] # NoRow => \E f \in done' : bronze'[b] = fetches'[f]
  BY <1>1, <1>3 DEF BronzeInv
<1> QED BY <1>6, <1>7, <1>8, <1>9 DEF BronzeInv

LEMMA BronzeStep == TypeInv /\ BronzeInv /\ [Next]_vars => BronzeInv'
<1> SUFFICES ASSUME TypeInv, BronzeInv, [Next]_vars PROVE BronzeInv'
  OBVIOUS
<1>1. ASSUME NEW w \in Worker, NEW f \in Fetch, SaveBronze(w, f) PROVE BronzeInv'
  BY <1>1, SaveBronzeRow
<1>2. ASSUME NEW w \in Worker, ReadPrevious(w) PROVE BronzeInv'
  BY <1>2, BronzeKept DEF ReadPrevious, dbVars, Opened, TypeInv, TypeOK
<1>3. ASSUME NEW w \in Worker, UpsertPage(w) PROVE BronzeInv'
  BY <1>3, BronzeKept DEF UpsertPage, dbVars, Opened, TypeInv, TypeOK
<1>4. ASSUME NEW w \in Worker, FoldDuplicate(w) PROVE BronzeInv'
  BY <1>4, BronzeKept DEF FoldDuplicate, dbVars, Opened, TypeInv, TypeOK
<1>5. ASSUME NEW w \in Worker, Commit(w) PROVE BronzeInv'
  BY <1>5, CommitBronze
<1>6. ASSUME NEW w \in Worker, Abort(w) PROVE BronzeInv'
  BY <1>6, BronzeKept DEF Abort, End, dbVars, Opened, TypeInv, TypeOK
<1>7. ASSUME NEW b \in BronzeId, Quarantine(b) PROVE BronzeInv'
  BY <1>7, BronzeKept DEF Quarantine, txVars, Opened
<1>8. CASE UNCHANGED vars
  BY <1>8, BronzeKept DEF vars, dbVars, txVars, Opened
<1> QED BY <1>1, <1>2, <1>3, <1>4, <1>5, <1>6, <1>7, <1>8 DEF Next, Transaction

\* What a commit adds to the history of its page.
NewRow(w) == [page |-> target[w], source |-> source[w],
              changed |-> previous[w] = NoHash \/ previous[w] # Text(w)]
HasRow(w) == \E h \in history : h.page = target[w] /\ h.source = source[w]

LEMMA RecordedIs ==
  ASSUME NEW w \in Worker, Commit(w)
  PROVE  history' = IF HasRow(w) THEN history ELSE history \cup {NewRow(w)}
BY DEF Commit, Recorded, HasRow, NewRow

LEMMA CommitHistory ==
  ASSUME TypeInv, BronzeInv, HistoryInv, NEW w \in Worker, Commit(w)
  PROVE  HistoryInv'
<1>1. /\ source[w] \in BronzeId /\ Doc(w) \in Document
      /\ bronze'[source[w]] = Doc(w)
      /\ \A b \in BronzeId : bronze[b] # NoRow => bronze'[b] = bronze[b]
  BY CommitRow
<1>2. Live' = Live \cup {target[w]}
  BY CommitLive
<1>3. IsFiniteSet(history')
  BY RecordedIs, FS_AddElement DEF HistoryInv
<1>4. \A h \in history' : h.page \in Live' /\ bronze'[h.source] # NoRow
  <2> SUFFICES ASSUME NEW h \in history' PROVE h.page \in Live' /\ bronze'[h.source] # NoRow
    OBVIOUS
  <2>1. CASE h \in history
    <3>1. h.page \in Live /\ bronze[h.source] # NoRow /\ h.source \in BronzeId
      BY <2>1 DEF HistoryInv, TypeInv, TypeOK
    <3> QED BY <1>1, <1>2, <3>1
  <2>2. CASE h \notin history
    <3>1. h = NewRow(w)
      BY <2>2, RecordedIs
    <3> QED BY <1>1, <1>2, <3>1, DocumentIsRow DEF NewRow
  <2> QED BY <2>1, <2>2
<1>5. ASSUME NEW p \in Live' PROVE \E h \in history' : h.page = p /\ h.source = pages'[p].source
  <2>1. history \subseteq history'
    BY RecordedIs
  <2>2. CASE p # target[w]
    <3>1. p \in Live /\ pages'[p] = pages[p]
      BY <1>2, <2>2, CommitOther DEF Live
    <3> QED BY <2>1, <3>1 DEF HistoryInv
  <2>3. CASE p = target[w]
    <3>1. step[w] = "commit" /\ HoldsPage(w) /\ p \in PageId
      BY <2>3 DEF Commit, HoldsPage, Live
    <3>2. pages'[p].source = Written(w).source
      BY <2>3, <3>1, CommitPages, CommittedTyped
    <3>3. CASE Written(w).source = source[w]
      <4>1. \E h \in history' : h.page = target[w] /\ h.source = source[w]
        <5>1. CASE HasRow(w)
          BY <2>1, <5>1 DEF HasRow
        <5>2. CASE ~HasRow(w)
          <6>1. NewRow(w) \in history'
            BY <5>2, RecordedIs
          <6>2. NewRow(w).page = target[w] /\ NewRow(w).source = source[w]
            BY DEF NewRow
          <6> QED BY <6>1, <6>2
        <5> QED BY <5>1, <5>2
      <4> QED BY <2>3, <3>2, <3>3, <4>1
    <3>4. CASE Written(w).source # source[w]
      <4>1. pages[p] # NoRow /\ Written(w) = pages[p]
        <5>1. CASE pages[p] = NoRow
          BY <2>3, <3>4, <5>1 DEF Written
        <5>2. CASE pages[p] # NoRow /\ IsNotOlder(pages[p], source[w])
          <6> DEFINE q == pages[p]
                     n == IF q.content # Text(w) THEN q.version + 1 ELSE q.version
          <6>1. Written(w) = [q EXCEPT !.content = Text(w), !.source = source[w], !.version = n]
            BY <2>3, <5>2 DEF Written
          <6>2. q \in Page
            BY <3>1, <5>2 DEF TypeInv, TypeOK
          <6> HIDE DEF q, n
          <6> QED BY <3>4, <6>1, <6>2 DEF Page
        <5>3. CASE pages[p] # NoRow /\ ~IsNotOlder(pages[p], source[w])
          BY <2>3, <5>3 DEF Written
        <5> QED BY <5>1, <5>2, <5>3
      <4>2. p \in Live
        BY <3>1, <4>1 DEF Live
      <4> QED BY <2>1, <3>2, <4>1, <4>2 DEF HistoryInv
    <3> QED BY <3>3, <3>4
  <2> QED BY <2>2, <2>3
<1> QED BY <1>3, <1>4, <1>5 DEF HistoryInv

LEMMA QuarantineHistory ==
  ASSUME TypeInv, HistoryInv, NEW b \in BronzeId, Quarantine(b)
  PROVE  HistoryInv'
<1>1. history' = {h \in history : h.page \notin Gone(b)} /\ bronze' = bronze
  BY DEF Quarantine, Gone
<1>2. Live' = Live \ Gone(b)
  BY QuarantineLive
<1>3. IsFiniteSet(history')
  BY <1>1, FS_Subset DEF HistoryInv
<1>4. \A p \in Live' : pages'[p].source = pages[p].source
  BY QuarantineKeeps
<1> QED BY <1>1, <1>2, <1>3, <1>4 DEF HistoryInv

LEMMA HistoryStep == TypeInv /\ BronzeInv /\ HistoryInv /\ [Next]_vars => HistoryInv'
<1> SUFFICES ASSUME TypeInv, BronzeInv, HistoryInv, [Next]_vars PROVE HistoryInv'
  OBVIOUS
<1>1. CASE UNCHANGED <<history, pages, bronze>>
  BY <1>1 DEF HistoryInv, Live
<1>2. ASSUME NEW w \in Worker, Commit(w) PROVE HistoryInv'
  BY <1>2, CommitHistory
<1>3. ASSUME NEW b \in BronzeId, Quarantine(b) PROVE HistoryInv'
  BY <1>3, QuarantineHistory
<1>4. ASSUME NEW w \in Worker, Transaction(w), ~Commit(w)
      PROVE  UNCHANGED <<history, pages, bronze>>
  BY <1>4 DEF Transaction, SaveBronze, ReadPrevious, UpsertPage, FoldDuplicate, Abort, dbVars
<1>5. CASE UNCHANGED vars
  BY <1>1, <1>5 DEF vars
<1> QED BY <1>1, <1>2, <1>3, <1>4, <1>5 DEF Next

\* A step that saves nothing of a URL, and deletes its page only while nothing of it is
\* being saved, leaves what holds of it.
LEMMA TurnKept ==
  ASSUME NEW u \in Url, TypeInv, TurnIs(u), fetches' = fetches,
         \A g \in Fetch : fetches[g].url = u => (g \in done' <=> g \in done),
         done' \subseteq Fetch,
         \A p \in PageOf(u)' :
           /\ p \in PageOf(u)
           /\ pages'[p].content = pages[p].content
           /\ pages'[p].source = pages[p].source
           /\ pages'[p].version = pages[p].version
           /\ Changes(p)' = Changes(p)
           /\ bronze[pages[p].source] # NoRow => bronze'[pages[p].source] = bronze[pages[p].source],
         \A w \in Worker : Opened(w)' /\ Doc(w)'.url = u =>
           /\ Opened(w) /\ fetch'[w] = fetch[w] /\ source'[w] = source[w]
           /\ bronze'[source[w]] = bronze[source[w]]
           /\ step'[w] # "read" => step[w] # "read" /\ previous'[w] = previous[w]
           /\ PageOf(u)' = PageOf(u)
  PROVE  TurnIs(u)'
<1>1. \A w \in Worker : Opened(w)' /\ Doc(w)'.url = u => Doc(w)' = Doc(w) /\ Doc(w).url = u
  BY DEF Doc
<1>2. SavedInOrder(u)'
  <2> SUFFICES ASSUME NEW w \in Worker, Opened(w)', Doc(w)'.url = u
               PROVE  /\ \A v \in Worker : Opened(v)' /\ Doc(v)'.url = u => v = w
                      /\ \A g \in Fetch : fetches[g].url = u =>
                           (g < fetch'[w] => g \in done') /\ (g > fetch'[w] => g \notin done')
    BY DEF SavedInOrder
  <2>1. Opened(w) /\ Doc(w).url = u /\ fetch'[w] = fetch[w]
    BY <1>1
  <2>2. SavedInOrder(u)
    BY DEF TurnIs
  <2>3. \A v \in Worker : Opened(v)' /\ Doc(v)'.url = u => Opened(v) /\ Doc(v).url = u
    BY <1>1
  <2> QED BY <2>1, <2>2, <2>3 DEF SavedInOrder
<1>3. PreviousIsShown(u)'
  <2> SUFFICES ASSUME NEW w \in Worker, step'[w] \notin {"idle", "read"}, Doc(w)'.url = u
               PROVE  /\ PageOf(u)' = {} => previous'[w] = NoHash
                      /\ \A p \in PageOf(u)' : previous'[w] = pages'[p].content
    BY DEF PreviousIsShown
  <2>1. Opened(w)' /\ step'[w] # "read"
    BY DEF Opened
  <2>2. Opened(w) /\ step[w] # "read" /\ previous'[w] = previous[w] /\ PageOf(u)' = PageOf(u)
    BY <2>1
  <2>3. Doc(w).url = u
    BY <1>1, <2>1
  <2> QED BY <2>2, <2>3 DEF TurnIs, PreviousIsShown, Opened
<1>4. Reverts(u)' <=> Reverts(u)
  BY DEF Reverts
<1>5. ASSUME ~Reverts(u)
      PROVE  /\ ShowsLastSaved(u)' /\ SourceIsNewer(u)'
             /\ \A p \in PageOf(u)' : pages'[p].version = Cardinality(Changes(p))'
  <2>1. /\ ShowsLastSaved(u) /\ SourceIsNewer(u)
        /\ \A p \in PageOf(u) : pages[p].version = Cardinality(Changes(p))
    BY <1>5 DEF TurnIs
  <2>2. ShowsLastSaved(u)'
    <3> SUFFICES ASSUME NEW p \in PageOf(u)'
                 PROVE  \E f \in done' :
                          /\ fetches[f].url = u /\ \A g \in done' : fetches[g].url = u => g <= f
                          /\ pages'[p].content = TextOf[fetches[f].body]
                          /\ bronze'[pages'[p].source] = fetches[f]
      BY DEF ShowsLastSaved
    <3>1. PICK f \in done :
            /\ fetches[f].url = u /\ \A g \in done : fetches[g].url = u => g <= f
            /\ pages[p].content = TextOf[fetches[f].body]
            /\ bronze[pages[p].source] = fetches[f]
      BY <2>1 DEF ShowsLastSaved
    <3>2. f \in Fetch /\ fetches[f] \in Document
      BY DEF TypeInv, TypeOK
    <3>3. f \in done' /\ \A g \in done' : fetches[g].url = u => g <= f
      BY <3>1, <3>2
    <3>4. bronze[pages[p].source] # NoRow
      BY <3>1, <3>2, DocumentIsRow
    <3> QED BY <3>1, <3>3, <3>4
  <2>3. SourceIsNewer(u)'
    <3> SUFFICES ASSUME NEW w \in Worker, Opened(w)', Doc(w)'.url = u, NEW p \in PageOf(u)'
                 PROVE  \/ pages'[p].source = source'[w]
                        \/ pages'[p].source < source'[w] /\ bronze'[source'[w]] = NoRow
      BY DEF SourceIsNewer
    <3>1. Opened(w) /\ Doc(w).url = u /\ p \in PageOf(u)
      BY <1>1
    <3> QED BY <2>1, <3>1 DEF SourceIsNewer
  <2> QED BY <2>1, <2>2, <2>3
<1> QED BY <1>2, <1>3, <1>4, <1>5 DEF TurnIs

\* A save that keeps the turn of its URL.
LEMMA SaveTurn ==
  ASSUME TypeInv, BronzeInv, NEW u \in Url \ outOfTurn', TurnIs(u),
         NEW w \in Worker, NEW f \in Fetch, SaveBronze(w, f)
  PROVE  TurnIs(u)'
<1>1. UNCHANGED <<fetches, done, bronze, pages, history, previous>>
  BY DEF SaveBronze, dbVars
<1>2. /\ step[w] = "idle" /\ step' = [step EXCEPT ![w] = "read"]
      /\ fetch' = [fetch EXCEPT ![w] = f]
  BY DEF SaveBronze
<1>3. PICK b \in BronzeId :
        /\ source' = [source EXCEPT ![w] = b]
        /\ \/ bronze[b] = fetches[f]
           \/ NewId(b, UsedBronze) /\ \A c \in BronzeId : bronze[c] # fetches[f]
  BY DEF SaveBronze
<1>4. /\ step'[w] = "read" /\ fetch'[w] = f /\ source'[w] = b
      /\ \A v \in Worker : v # w =>
           step'[v] = step[v] /\ fetch'[v] = fetch[v] /\ source'[v] = source[v]
  BY <1>2, <1>3 DEF TypeInv, TypeOK
<1>5. PageOf(u)' = PageOf(u) /\ \A p : Changes(p)' = Changes(p)
  BY <1>1 DEF PageOf, Live, Changes, ChangesIn
<1>6. Doc(w)' = fetches[f]
  BY <1>1, <1>4 DEF Doc
<1>7. CASE fetches[f].url # u
  <2>1. \A v \in Worker : Opened(v)' /\ Doc(v)'.url = u => v # w
    BY <1>6, <1>7
  <2>2. done' \subseteq Fetch
    BY <1>1 DEF TypeInv, TypeOK
  <2>3. \A v \in Worker : Opened(v)' /\ Doc(v)'.url = u =>
          /\ Opened(v) /\ fetch'[v] = fetch[v] /\ source'[v] = source[v]
          /\ bronze'[source[v]] = bronze[source[v]]
          /\ step'[v] # "read" => step[v] # "read" /\ previous'[v] = previous[v]
          /\ PageOf(u)' = PageOf(u)
    BY <1>1, <1>4, <1>5, <2>1 DEF Opened
  <2> QED BY <1>1, <1>5, <2>2, <2>3, TurnKept
<1>8. CASE fetches[f].url = u
  <2>1. InTurn(f)
    BY <1>8 DEF SaveBronze
  <2>2. /\ \A g \in Fetch : fetches[g].url = u => (g < f => g \in done) /\ (g > f => g \notin done)
        /\ \A v \in Worker : step[v] # "idle" => fetches[fetch[v]].url # u
    BY <1>8, <2>1 DEF InTurn, TypeInv, Tx
  <2>3. \A v \in Worker : Opened(v)' /\ Doc(v)'.url = u => v = w
    <3> SUFFICES ASSUME NEW v \in Worker, Opened(v)', Doc(v)'.url = u, v # w PROVE FALSE
      OBVIOUS
    <3>1. Opened(v) /\ Doc(v).url = u
      BY <1>1, <1>4 DEF Opened, Doc
    <3> QED BY <2>2, <3>1 DEF Opened, Doc
  <2>4. SavedInOrder(u)'
    BY <1>1, <1>4, <2>2, <2>3 DEF SavedInOrder
  <2>5. PreviousIsShown(u)'
    <3> SUFFICES ASSUME NEW v \in Worker, step'[v] \notin {"idle", "read"}, Doc(v)'.url = u
                 PROVE  FALSE
      BY DEF PreviousIsShown
    <3> QED BY <1>4, <2>3 DEF Opened
  <2>6. Reverts(u)' <=> Reverts(u)
    BY <1>1 DEF Reverts
  <2>7. ASSUME ~Reverts(u)
        PROVE  /\ ShowsLastSaved(u)' /\ SourceIsNewer(u)'
               /\ \A p \in PageOf(u)' : pages'[p].version = Cardinality(Changes(p))'
    <3>1. /\ ShowsLastSaved(u)
          /\ \A p \in PageOf(u) : pages[p].version = Cardinality(Changes(p))
      BY <2>7 DEF TurnIs
    <3>2. ShowsLastSaved(u)'
      BY <1>1, <1>5, <3>1 DEF ShowsLastSaved
    <3>3. ASSUME NEW p \in PageOf(u)
          PROVE  pages[p].source = b \/ (pages[p].source < b /\ bronze[b] = NoRow)
      <4> DEFINE s == pages[p].source
      <4>1. PICK g \in done :
              /\ fetches[g].url = u /\ \A h \in done : fetches[h].url = u => h <= g
              /\ bronze[s] = fetches[g]
        BY <3>1 DEF ShowsLastSaved
      <4>2. p \in PageId /\ pages[p] \in Page
        BY DEF PageOf, Live, TypeInv, TypeOK
      <4>3. s \in BronzeId
        BY <4>2 DEF Page
      <4>4. g \in Fetch /\ bronze[s] # NoRow
        BY <4>1, DocumentIsRow DEF TypeInv, TypeOK
      <4>5. CASE bronze[b] = fetches[f]
        <5>1. PICK h \in done : bronze[b] = fetches[h]
          BY <4>5, DocumentIsRow DEF BronzeInv, TypeInv, TypeOK
        <5>2. h \in Fetch /\ fetches[h].url = u /\ fetches[h].body = fetches[f].body /\ h <= g
          BY <1>8, <4>1, <4>5, <5>1 DEF TypeInv, TypeOK
        <5>3. fetches[g].body = fetches[f].body
          <6>1. g <= f
            <7>1. ~ (g > f)
              BY <2>2, <4>1, <4>4
            <7> QED BY <7>1, <4>4, BoundsAssumption DEF Fetch
          <6>2. g = f \/ g = h \/ (h < g /\ g < f)
            BY <4>4, <5>2, <6>1, BoundsAssumption DEF Fetch
          <6>3. h < g /\ g < f => fetches[g].body = fetches[f].body
            BY <1>8, <2>7, <4>1, <4>4, <5>2 DEF Reverts
          <6> QED BY <5>2, <6>2, <6>3
        <5>4. fetches[g] = fetches[f]
          <6>1. fetches[g] \in Document /\ fetches[f] \in Document
            BY <4>4 DEF TypeInv, TypeOK
          <6> QED BY <6>1, <5>3, <4>1, <1>8 DEF Document
        <5> QED BY <4>1, <4>3, <4>4, <4>5, <5>4 DEF BronzeInv
      <4>6. CASE NewId(b, UsedBronze)
        <5>1. s \in UsedBronze
          BY <4>3, <4>4 DEF UsedBronze
        <5>2. s < b
          BY <4>6, <5>1 DEF NewId
        <5>3. bronze[b] = NoRow
          <6>1. b \in Nat
            BY BoundsAssumption DEF BronzeId
          <6>2. bronze[b] # NoRow => b \in UsedBronze
            BY DEF UsedBronze
          <6> QED BY <4>6, <6>1, <6>2 DEF NewId
        <5> QED BY <5>2, <5>3
      <4> QED BY <1>3, <4>5, <4>6
    <3>4. SourceIsNewer(u)'
      BY <1>1, <1>4, <1>5, <2>3, <3>3 DEF SourceIsNewer
    <3> QED BY <1>1, <1>5, <3>1, <3>2, <3>4
  <2> QED BY <2>4, <2>5, <2>6, <2>7 DEF TurnIs
<1> QED BY <1>7, <1>8

\* previous_hash is read while no other save of the URL is open.
LEMMA ReadTurn ==
  ASSUME TypeInv, UrlInv, NEW u \in Url, TurnIs(u), NEW w \in Worker, ReadPrevious(w)
  PROVE  TurnIs(u)'
<1>1. UNCHANGED <<fetches, done, bronze, pages, history, fetch, source>>
  BY DEF ReadPrevious, dbVars
<1>2. step[w] = "read" /\ \A v \in Worker : step'[v] = IF v = w THEN "upsert" ELSE step[v]
  BY DEF ReadPrevious, TypeInv, TypeOK
<1>3. \A v \in Worker : v # w => previous'[v] = previous[v]
  BY DEF ReadPrevious, TypeInv, TypeOK
<1>4. /\ PageOf(u)' = PageOf(u) /\ \A p : Changes(p)' = Changes(p)
      /\ \A v : Doc(v)' = Doc(v)
      /\ \A v \in Worker : Opened(v)' <=> Opened(v)
  BY <1>1, <1>2 DEF PageOf, Live, Changes, Doc, Opened
<1>5. CASE Doc(w).url # u
  <2>1. done' \subseteq Fetch
    BY <1>1 DEF TypeInv, TypeOK
  <2>2. \A v \in Worker : Opened(v)' /\ Doc(v)'.url = u =>
          /\ Opened(v) /\ fetch'[v] = fetch[v] /\ source'[v] = source[v]
          /\ bronze'[source[v]] = bronze[source[v]]
          /\ step'[v] # "read" => step[v] # "read" /\ previous'[v] = previous[v]
          /\ PageOf(u)' = PageOf(u)
    BY <1>1, <1>2, <1>3, <1>4, <1>5
  <2> QED BY <1>1, <1>4, <2>1, <2>2, TurnKept
<1>6. CASE Doc(w).url = u
  <2>1. \A v \in Worker : Opened(v) /\ Doc(v).url = u => v = w
    BY <1>2, <1>6 DEF TurnIs, SavedInOrder, Opened
  <2>2. /\ PageOf(u) = {} => previous'[w] = NoHash
        /\ \A p \in PageOf(u) : previous'[w] = pages[p].content
    <3>1. previous'[w] = IF PageOf(u) = {} THEN NoHash
                         ELSE pages[CHOOSE p \in PageOf(u) : TRUE].content
      BY <1>6 DEF ReadPrevious, TypeInv, TypeOK
    <3>2. \A p, q \in PageOf(u) : p = q
      BY DEF UrlInv, UniqueUrl, PageOf
    <3>3. PageOf(u) # {} => (CHOOSE p \in PageOf(u) : TRUE) \in PageOf(u)
      OBVIOUS
    <3> QED BY <3>1, <3>2, <3>3
  <2>3. PreviousIsShown(u)'
    <3> SUFFICES ASSUME NEW v \in Worker, step'[v] \notin {"idle", "read"}, Doc(v)'.url = u
                 PROVE  v = w
      BY <1>1, <1>4, <2>2 DEF PreviousIsShown
    <3>1. Opened(v)
      BY <1>4 DEF Opened
    <3> QED BY <1>4, <2>1, <3>1
  <2>4. SavedInOrder(u)'
    <3>1. SavedInOrder(u)
      BY DEF TurnIs
    <3> QED BY <1>1, <1>4, <3>1 DEF SavedInOrder
  <2>5. Reverts(u)' <=> Reverts(u)
    BY <1>1 DEF Reverts
  <2>6. ASSUME ~Reverts(u)
        PROVE  /\ ShowsLastSaved(u)' /\ SourceIsNewer(u)'
               /\ \A p \in PageOf(u)' : pages'[p].version = Cardinality(Changes(p))'
    <3>1. /\ ShowsLastSaved(u) /\ SourceIsNewer(u)
          /\ \A p \in PageOf(u) : pages[p].version = Cardinality(Changes(p))
      BY <2>6 DEF TurnIs
    <3>2. ShowsLastSaved(u)'
      BY <1>1, <1>4, <3>1 DEF ShowsLastSaved
    <3>3. SourceIsNewer(u)'
      BY <1>1, <1>4, <3>1 DEF SourceIsNewer
    <3> QED BY <1>1, <1>4, <3>1, <3>2, <3>3
  <2> QED BY <2>3, <2>4, <2>5, <2>6 DEF TurnIs
<1> QED BY <1>5, <1>6

\* A commit of another URL.
LEMMA CommitElsewhere ==
  ASSUME TypeInv, BronzeInv, UrlInv, NEW u \in Url, TurnIs(u),
         NEW w \in Worker, Commit(w), Doc(w).url # u
  PROVE  TurnIs(u)'
<1>1. /\ Opened(w) /\ source[w] \in BronzeId /\ fetch[w] \in Fetch
      /\ \A b \in BronzeId : bronze[b] # NoRow => bronze'[b] = bronze[b]
      /\ \A b \in BronzeId : b # source[w] => bronze'[b] = bronze[b]
  BY CommitRow
<1>2. HoldsPage(w) /\ target[w] \in PageId
  BY DEF Commit, HoldsPage, TypeInv, Tx
<1>3. fetches' = fetches /\ done' = done \cup {fetch[w]} /\ fetches[fetch[w]].url # u
  BY DEF Commit, Doc
<1>4. \A p \in PageId : p # target[w] => pages'[p] = pages[p]
  BY CommitOther
<1>5. target[w] \notin PageOf(u) /\ target[w] \notin PageOf(u)'
  <2>1. pages'[target[w]].url = Written(w).url
    <3>1. step[w] = "commit"
      BY DEF Commit
    <3> QED BY <1>2, <3>1, CommitPages, CommittedTyped
  <2>2. Written(w).url = Doc(w).url /\ (target[w] \in Live => pages[target[w]].url = Doc(w).url)
    BY <1>2, WrittenKeeps DEF UrlInv, TargetIsPage, Live
  <2> QED BY <2>1, <2>2 DEF PageOf
<1>6. PageOf(u)' = PageOf(u)
  BY <1>4, <1>5 DEF PageOf, Live
<1>7. \A p \in PageOf(u) : pages'[p] = pages[p] /\ pages[p] \in Page
  BY <1>4, <1>5 DEF PageOf, Live, TypeInv, TypeOK
<1>8. ASSUME NEW p \in PageOf(u) PROVE Changes(p)' = Changes(p)
  <2>1. \A h : h \in history' /\ h \notin history => h = NewRow(w)
    BY RecordedIs
  <2>2. history \subseteq history'
    BY RecordedIs
  <2>3. NewRow(w).page # p
    BY <1>5 DEF NewRow
  <2> QED BY <2>1, <2>2, <2>3 DEF Changes, ChangesIn
<1>9. \A v \in Worker : Opened(v)' =>
        /\ v # w /\ Opened(v) /\ fetch'[v] = fetch[v] /\ source'[v] = source[v]
        /\ step'[v] = step[v] /\ previous'[v] = previous[v]
  BY DEF Commit, End, Opened, TypeInv, TypeOK
<1>10. \A v \in Worker : Opened(v)' => bronze'[source[v]] = bronze[source[v]]
  <2> SUFFICES ASSUME NEW v \in Worker, Opened(v)'
               PROVE  bronze'[source[v]] = bronze[source[v]]
    OBVIOUS
  <2>1. source[v] # source[w] /\ source[v] \in BronzeId
    BY <1>1, <1>9 DEF BronzeInv, Opened, TypeInv, Tx
  <2> QED BY <1>1, <2>1
<1>11. \A p \in PageOf(u) :
         bronze[pages[p].source] # NoRow => bronze'[pages[p].source] = bronze[pages[p].source]
  BY <1>1, <1>7 DEF Page
<1>12. done' \subseteq Fetch
  BY <1>1, <1>3 DEF TypeInv, TypeOK
<1> QED BY <1>3, <1>6, <1>7, <1>8, <1>9, <1>10, <1>11, <1>12, TurnKept

\* What a commit that keeps its turn makes of its page, and what its history row says.
LEMMA CommitShows ==
  ASSUME TypeInv, BronzeInv, HistoryInv, UrlInv, NEW u \in Url, TurnIs(u),
         NEW w \in Worker, Commit(w), Doc(w).url = u
  PROVE  /\ PageOf(u) \subseteq {target[w]}
         /\ NewRow(w).changed <=>
              \/ pages[target[w]] = NoRow
              \/ pages[target[w]].content # Text(w)
         /\ ~Reverts(u) =>
              /\ pages'[target[w]].content = Text(w)
              /\ pages'[target[w]].source = source[w]
              /\ pages'[target[w]].version = Cardinality(ChangesIn(history', target[w]))
<1> DEFINE t == target[w]
           s == source[w]
           p == pages[t]
<1>1. step[w] = "commit" /\ HoldsPage(w) /\ Opened(w) /\ t \in PageId /\ s \in BronzeId
  BY DEF Commit, HoldsPage, Opened, TypeInv, Tx
<1>2. Text(w) \in Content
  BY <1>1, DocTyped DEF Opened
<1>3. /\ PageOf(u) \subseteq {t}
      /\ t \in Live <=> t \in PageOf(u)
      /\ t \in Live <=> p # NoRow
  BY <1>1 DEF UrlInv, TargetIsPage, UniqueUrl, PageOf, Live
<1>4. /\ PageOf(u) = {} => previous[w] = NoHash
      /\ t \in PageOf(u) => previous[w] = p.content
  BY <1>1 DEF TurnIs, PreviousIsShown
<1>5. p # NoRow => p \in Page
  BY <1>1 DEF TypeInv, TypeOK
<1>6. NewRow(w).changed <=> p = NoRow \/ p.content # Text(w)
  <2>1. NewRow(w).changed <=> previous[w] = NoHash \/ previous[w] # Text(w)
    BY DEF NewRow
  <2>2. CASE p = NoRow
    BY <1>3, <1>4, <2>1, <2>2
  <2>3. CASE p # NoRow
    <3>1. previous[w] = p.content /\ p.content # NoHash
      BY <1>3, <1>4, <1>5, <2>3, TextAssumption DEF Page
    <3> QED BY <2>1, <2>3, <3>1
  <2> QED BY <2>2, <2>3
<1>7. ASSUME ~Reverts(u)
      PROVE  /\ pages'[t].content = Text(w) /\ pages'[t].source = s
             /\ pages'[t].version = Cardinality(ChangesIn(history', t))
  <2>1. /\ ShowsLastSaved(u) /\ SourceIsNewer(u)
        /\ \A q \in PageOf(u) : pages[q].version = Cardinality(Changes(q))
    BY <1>7 DEF TurnIs
  <2>2. Written(w) \in Page /\ pages'[t] = [Written(w) EXCEPT !.dup = fold[w]]
    BY <1>1, WrittenTyped, CommitPages
  <2>3. /\ pages'[t].content = Written(w).content /\ pages'[t].source = Written(w).source
        /\ pages'[t].version = Written(w).version
    BY <2>2 DEF Page
  <2>4. IsFiniteSet(Changes(t))
    <3>1. Changes(t) \in SUBSET history
      BY DEF Changes, ChangesIn
    <3> QED BY <3>1, FS_Subset DEF HistoryInv
  <2>5. ASSUME ~HasRow(w)
        PROVE  Cardinality(ChangesIn(history', t)) =
                 IF NewRow(w).changed THEN Cardinality(Changes(t)) + 1 ELSE Cardinality(Changes(t))
    <3>1. history' = history \cup {NewRow(w)} /\ NewRow(w).page = t /\ NewRow(w).source = s
      BY <2>5, RecordedIs DEF NewRow
    <3>2. NewRow(w) \notin history
      BY <2>5, <3>1 DEF HasRow
    <3>3. Changes(t) = ChangesIn(history, t)
      BY DEF Changes
    <3>4. CASE NewRow(w).changed
      <4>1. ChangesIn(history', t) = ChangesIn(history, t) \cup {NewRow(w)}
        BY <3>1, <3>4 DEF ChangesIn
      <4>2. NewRow(w) \notin ChangesIn(history, t)
        BY <3>2 DEF ChangesIn
      <4>3. Cardinality(ChangesIn(history, t) \cup {NewRow(w)}) =
              Cardinality(ChangesIn(history, t)) + 1
        <5>1. IsFiniteSet(ChangesIn(history, t))
          BY <2>4, <3>3
        <5> HIDE DEF t
        <5> QED BY <5>1, <4>2, FS_AddElement
      <4> QED BY <3>3, <3>4, <4>1, <4>3
    <3>5. CASE ~NewRow(w).changed
      <4>1. ChangesIn(history', t) = ChangesIn(history, t)
        BY <3>1, <3>5 DEF ChangesIn
      <4> QED BY <3>3, <3>5, <4>1
    <3> QED BY <3>4, <3>5
  <2>6. CASE p = NoRow
    <3>1. Written(w) = [url |-> Doc(w).url, content |-> Text(w), source |-> s,
                        version |-> 1, dup |-> 0]
      BY <2>6 DEF Written
    <3>2. \A h \in history : h.page # t
      BY <1>3, <2>6 DEF HistoryInv
    <3>3. Changes(t) = {} /\ ~HasRow(w)
      BY <3>2 DEF Changes, ChangesIn, HasRow
    <3>4. Cardinality(ChangesIn(history', t)) = 1
      BY <1>6, <2>5, <2>6, <3>3, FS_EmptySet
    <3> QED BY <2>3, <3>1, <3>4
  <2>7. CASE p # NoRow
    <3>1. t \in PageOf(u) /\ p \in Page /\ p.source \in BronzeId
      BY <1>3, <1>5, <2>7 DEF Page
    <3>2. BronzeId \subseteq Nat
      BY BoundsAssumption DEF BronzeId
    <3>3. p.source = s \/ (p.source < s /\ bronze[s] = NoRow)
      BY <1>1, <2>1, <3>1 DEF SourceIsNewer
    <3>4. IsNotOlder(p, s)
      BY <1>1, <3>1, <3>2, <3>3 DEF IsNotOlder
    <3> DEFINE n == IF p.content # Text(w) THEN p.version + 1 ELSE p.version
    <3>5. Written(w) = [p EXCEPT !.content = Text(w), !.source = s, !.version = n]
      BY <2>7, <3>4 DEF Written
    <3>6. Written(w).content = Text(w) /\ Written(w).source = s /\ Written(w).version = n
      <4> HIDE DEF p, n
      <4> QED BY <3>1, <3>5 DEF Page
    <3>7. p.version = Cardinality(Changes(t))
      BY <2>1, <3>1
    <3>8. CASE p.source = s
      <4>1. HasRow(w)
        BY <1>3, <2>7, <3>8 DEF HistoryInv, HasRow
      <4>2. history' = history
        BY <4>1, RecordedIs
      <4>3. PICK f \in done : /\ p.content = TextOf[fetches[f].body]
                             /\ bronze[s] = fetches[f]
        BY <2>1, <3>1, <3>8 DEF ShowsLastSaved
      <4>4. bronze[s] # NoRow
        BY <4>3, DocumentIsRow DEF TypeInv, TypeOK
      <4>5. bronze[s] = Doc(w)
        BY <1>1, <4>4 DEF BronzeInv
      <4>6. p.content = Text(w)
        BY <4>3, <4>5 DEF Text
      <4> QED BY <2>3, <3>6, <3>7, <4>2, <4>6 DEF Changes
    <3>9. CASE p.source < s /\ bronze[s] = NoRow
      <4>1. ~HasRow(w)
        BY <3>9 DEF HistoryInv, HasRow
      <4>2. NewRow(w).changed <=> p.content # Text(w)
        BY <1>6, <2>7
      <4> QED BY <2>3, <2>5, <3>6, <3>7, <4>1, <4>2
    <3> QED BY <3>3, <3>8, <3>9
  <2> QED BY <2>6, <2>7
<1> QED BY <1>3, <1>6, <1>7

LEMMA CommitTurn ==
  ASSUME TypeInv, BronzeInv, HistoryInv, UrlInv, NEW u \in Url, TurnIs(u),
         NEW w \in Worker, Commit(w)
  PROVE  TurnIs(u)'
<1>1. CASE Doc(w).url # u
  BY <1>1, CommitElsewhere
<1>2. CASE Doc(w).url = u
  <2>1. Opened(w) /\ fetch[w] \in Fetch /\ source[w] \in BronzeId /\ bronze'[source[w]] = Doc(w)
    BY CommitRow
  <2>2. \A v \in Worker : ~ (Opened(v)' /\ Doc(v)'.url = u)
    <3> SUFFICES ASSUME NEW v \in Worker, Opened(v)', Doc(v)'.url = u PROVE FALSE
      OBVIOUS
    <3>1. v # w /\ Opened(v) /\ Doc(v)' = Doc(v)
      BY DEF Commit, End, Opened, Doc, TypeInv, TypeOK
    <3> QED BY <1>2, <2>1, <3>1 DEF TurnIs, SavedInOrder
  <2>3. SavedInOrder(u)' /\ PreviousIsShown(u)' /\ SourceIsNewer(u)'
    BY <2>2 DEF SavedInOrder, PreviousIsShown, SourceIsNewer, Opened
  <2>4. fetches' = fetches /\ done' = done \cup {fetch[w]} /\ Doc(w) = fetches[fetch[w]]
    BY DEF Commit, Doc
  <2>5. \A p \in PageOf(u)' : p = target[w]
    <3>1. PageOf(u) \subseteq {target[w]}
      BY <1>2, CommitShows
    <3> QED BY <3>1, CommitOther DEF PageOf, Live
  <2>6. Reverts(u)' <=> Reverts(u)
    BY <2>4 DEF Reverts
  <2>7. ASSUME ~Reverts(u)
        PROVE  /\ ShowsLastSaved(u)'
               /\ \A p \in PageOf(u)' : pages'[p].version = Cardinality(Changes(p))'
    <3>1. /\ pages'[target[w]].content = Text(w) /\ pages'[target[w]].source = source[w]
          /\ pages'[target[w]].version = Cardinality(ChangesIn(history', target[w]))
      BY <1>2, <2>7, CommitShows
    <3>2. \A g \in done' : fetches[g].url = u => g <= fetch[w]
      <4> SUFFICES ASSUME NEW g \in done', fetches[g].url = u PROVE g <= fetch[w]
        OBVIOUS
      <4>1. g \in Fetch
        BY <2>1, <2>4 DEF TypeInv, TypeOK
      <4>2. g \in done \/ g = fetch[w]
        BY <2>4
      <4>3. ~ (g > fetch[w])
        BY <1>2, <2>1, <4>1, <4>2, BoundsAssumption DEF TurnIs, SavedInOrder, Fetch
      <4> QED BY <2>1, <4>1, <4>3, BoundsAssumption DEF Fetch
    <3>3. ShowsLastSaved(u)'
      <4> SUFFICES ASSUME NEW p \in PageOf(u)'
                   PROVE  \E f \in done' :
                            /\ fetches'[f].url = u
                            /\ \A g \in done' : fetches'[g].url = u => g <= f
                            /\ pages'[p].content = TextOf[fetches'[f].body]
                            /\ bronze'[pages'[p].source] = fetches'[f]
        BY DEF ShowsLastSaved
      <4>1. p = target[w] /\ fetch[w] \in done'
        BY <2>4, <2>5
      <4>2. pages'[p].content = TextOf[fetches'[fetch[w]].body]
        BY <2>4, <3>1, <4>1 DEF Text
      <4>3. bronze'[pages'[p].source] = fetches'[fetch[w]]
        BY <2>1, <2>4, <3>1, <4>1
      <4> QED BY <1>2, <2>4, <3>2, <4>1, <4>2, <4>3
    <3>4. ASSUME NEW p \in PageOf(u)' PROVE pages'[p].version = Cardinality(Changes(p))'
      BY <2>5, <3>1, <3>4 DEF Changes
    <3> QED BY <3>3, <3>4
  <2> QED BY <2>3, <2>6, <2>7 DEF TurnIs
<1> QED BY <1>1, <1>2

\* A deletion of the page of a URL that is being saved costs the URL its turn.
LEMMA QuarantineTurn ==
  ASSUME TypeInv, NEW u \in Url \ outOfTurn', TurnIs(u), NEW b \in BronzeId, Quarantine(b)
  PROVE  TurnIs(u)'
<1>1. UNCHANGED <<fetches, done, bronze, step, fetch, source, previous>>
  BY DEF Quarantine, txVars
<1>2. \A w \in Worker : (Opened(w)' <=> Opened(w)) /\ Doc(w)' = Doc(w)
  BY <1>1 DEF Opened, Doc
<1>3. PageOf(u)' = PageOf(u) \ Gone(b)
  <2>1. Live' = Live \ Gone(b) /\ \A p \in Live' : pages'[p].url = pages[p].url
    BY QuarantineLive, QuarantineKeeps
  <2> QED BY <2>1 DEF PageOf
<1>4. ASSUME NEW p \in PageOf(u)'
      PROVE  /\ pages'[p].content = pages[p].content
             /\ pages'[p].source = pages[p].source
             /\ pages'[p].version = pages[p].version
             /\ Changes(p)' = Changes(p)
  <2>1. p \in PageId /\ p \notin Gone(b) /\ pages[p] \in Page
    BY <1>3 DEF PageOf, Live, TypeInv, TypeOK
  <2>2. pages'[p] = pages[p] \/ pages'[p] = [pages[p] EXCEPT !.dup = 0]
    BY <2>1, QuarantinedPage
  <2>3. history' = {h \in history : h.page \notin Gone(b)}
    BY DEF Quarantine, Gone
  <2>4. Changes(p)' = Changes(p)
    BY <2>1, <2>3 DEF Changes, ChangesIn
  <2> QED BY <2>1, <2>2, <2>4 DEF Page
<1>5. ASSUME NEW w \in Worker, Opened(w), Doc(w).url = u PROVE PageOf(u)' = PageOf(u)
  <2>1. Open(u)
    BY <1>5 DEF Open, Opened
  <2>2. outOfTurn' = outOfTurn \cup {pages[p].url : p \in {q \in Gone(b) : Open(pages[q].url)}}
    BY DEF Quarantine, Gone
  <2>3. \A p \in Gone(b) : pages[p].url # u
    BY <2>1, <2>2
  <2> QED BY <1>3, <2>3 DEF PageOf
<1>6. done' \subseteq Fetch
  BY <1>1 DEF TypeInv, TypeOK
<1> QED BY <1>1, <1>2, <1>3, <1>4, <1>5, <1>6, TurnKept

\* The other statements move nothing of it.
LEMMA StatementTurn ==
  ASSUME TypeInv, NEW u \in Url, TurnIs(u), NEW w \in Worker,
         UpsertPage(w) \/ FoldDuplicate(w) \/ Abort(w)
  PROVE  TurnIs(u)'
<1>1. UNCHANGED <<fetches, done, bronze, pages, history>>
  BY DEF UpsertPage, FoldDuplicate, Abort, dbVars
<1>2. PageOf(u)' = PageOf(u) /\ \A p : Changes(p)' = Changes(p)
  BY <1>1 DEF PageOf, Live, Changes
<1>3. \A v \in Worker : Opened(v)' =>
        /\ Opened(v) /\ fetch'[v] = fetch[v] /\ source'[v] = source[v]
        /\ previous'[v] = previous[v] /\ (step'[v] # "read" => step[v] # "read")
  <2>1. CASE UpsertPage(w)
    BY <2>1 DEF UpsertPage, Opened, TypeInv, TypeOK
  <2>2. CASE FoldDuplicate(w)
    BY <2>2 DEF FoldDuplicate, Opened, TypeInv, TypeOK
  <2>3. CASE Abort(w)
    BY <2>3 DEF Abort, End, Opened, TypeInv, TypeOK
  <2> QED BY <2>1, <2>2, <2>3
<1>4. done' \subseteq Fetch
  BY <1>1 DEF TypeInv, TypeOK
<1> QED BY <1>1, <1>2, <1>3, <1>4, TurnKept

LEMMA TurnStep ==
  TypeInv /\ UrlInv /\ TurnInv /\ [Next]_vars => TurnInv'
<1> SUFFICES ASSUME TypeInv, UrlInv, TurnInv, [Next]_vars, NEW u \in Url \ outOfTurn'
             PROVE  TurnIs(u)'
  BY BronzeStep, HistoryStep DEF TurnInv
<1>1. outOfTurn \subseteq outOfTurn'
  BY DEF Next, Transaction, SaveBronze, ReadPrevious, UpsertPage, FoldDuplicate, Commit, Abort,
     Quarantine, vars, ghosts
<1>2. BronzeInv /\ HistoryInv /\ TurnIs(u)
  BY <1>1 DEF TurnInv
<1>3. ASSUME NEW w \in Worker, NEW f \in Fetch, SaveBronze(w, f) PROVE TurnIs(u)'
  BY <1>2, <1>3, SaveTurn
<1>4. ASSUME NEW w \in Worker, ReadPrevious(w) PROVE TurnIs(u)'
  BY <1>2, <1>4, ReadTurn
<1>5. ASSUME NEW w \in Worker, UpsertPage(w) \/ FoldDuplicate(w) \/ Abort(w) PROVE TurnIs(u)'
  BY <1>2, <1>5, StatementTurn
<1>6. ASSUME NEW w \in Worker, Commit(w) PROVE TurnIs(u)'
  BY <1>2, <1>6, CommitTurn
<1>7. ASSUME NEW b \in BronzeId, Quarantine(b) PROVE TurnIs(u)'
  BY <1>2, <1>7, QuarantineTurn
<1>8. CASE UNCHANGED vars
  <2>1. PageOf(u)' = PageOf(u) /\ \A p : Changes(p)' = Changes(p)
    BY <1>8 DEF vars, dbVars, PageOf, Live, Changes
  <2>2. done' \subseteq Fetch
    BY <1>8 DEF vars, TypeInv, TypeOK
  <2> QED BY <1>2, <1>8, <2>1, <2>2, TurnKept DEF vars, Opened
<1> QED BY <1>3, <1>4, <1>5, <1>6, <1>7, <1>8 DEF Next, Transaction

\* What a commit writes into the history is true.
LEMMA HistoryIsTrue ==
  TypeInv /\ UrlInv /\ TurnInv /\ [Next]_vars => ChangedIsTrue
<1> SUFFICES ASSUME TypeInv, UrlInv, TurnInv, [Next]_vars,
                    NEW h \in history' \ history, bronze'[h.source].url \notin outOfTurn
             PROVE  h.changed <=> \/ pages[h.page] = NoRow
                                  \/ pages[h.page].content # TextOf[bronze'[h.source].body]
  BY DEF ChangedIsTrue
<1>1. PICK w \in Worker : Commit(w)
  BY DEF Next, Transaction, SaveBronze, ReadPrevious, UpsertPage, FoldDuplicate, Abort,
     Quarantine, vars, dbVars
<1>2. h = NewRow(w)
  BY <1>1, RecordedIs
<1>3. Doc(w) \in Document /\ bronze'[source[w]] = Doc(w)
  BY <1>1, CommitRow DEF TurnInv
<1>4. h.page = target[w] /\ h.source = source[w]
  BY <1>2 DEF NewRow
<1>5. Doc(w).url \in Url \ outOfTurn
  BY <1>3, <1>4 DEF Document
<1>6. NewRow(w).changed <=> pages[target[w]] = NoRow \/ pages[target[w]].content # Text(w)
  BY <1>1, <1>5, CommitShows DEF TurnInv
<1> QED BY <1>2, <1>3, <1>4, <1>6 DEF Text

LEMMA TurnShows ==
  ASSUME TypeInv, TurnInv
  PROVE  ShowsLastFetchForward /\ VersionsAreRecorded
<1>1. ShowsLastFetchForward
  <2> SUFFICES ASSUME NEW f \in Fetch, IsLast(f), fetches[f].url \notin outOfTurn,
                      ~Reverts(fetches[f].url),
                      \A g \in Fetch : fetches[g].url = fetches[f].url => g \in done,
                      NEW p \in PageOf(fetches[f].url)
               PROVE  pages[p].content = TextOf[fetches[f].body]
    BY DEF ShowsLastFetchForward, Shown
  <2> DEFINE u == fetches[f].url
  <2>1. u \in Url \ outOfTurn
    BY DEF TypeInv, TypeOK, Document
  <2>2. PICK g \in done : /\ fetches[g].url = u /\ \A h \in done : fetches[h].url = u => h <= g
                          /\ pages[p].content = TextOf[fetches[g].body]
    BY <2>1 DEF TurnInv, TurnIs, ShowsLastSaved
  <2>3. g \in Fetch /\ f <= g
    BY <2>2 DEF TypeInv, TypeOK
  <2>4. g = f
    <3>1. g \notin f + 1 .. MaxFetches
      BY <2>2 DEF IsLast
    <3> QED BY <2>3, <3>1, BoundsAssumption DEF Fetch
  <2> QED BY <2>2, <2>4
<1>2. VersionsAreRecorded
  <2> SUFFICES ASSUME NEW p \in Live, pages[p].url \notin outOfTurn, ~Reverts(pages[p].url)
               PROVE  pages[p].version = Cardinality({h \in history : h.page = p /\ h.changed})
    BY DEF VersionsAreRecorded
  <2>1. pages[p].url \in Url \ outOfTurn /\ p \in PageOf(pages[p].url)
    BY DEF PageOf, Live, TypeInv, TypeOK, Page
  <2> QED BY <2>1 DEF TurnInv, TurnIs, Changes, ChangesIn
<1> QED BY <1>1, <1>2

\* While the saves of a URL keep their turn, and no body comes back, its page shows the
\* last fetch once all are saved, its versions are the changes recorded, and each change
\* is recorded when there was one: through aborts, retries and quarantines.
THEOREM TurnIsTrue == Spec => InTurnIsTrue
<1>1. Init => TurnInv
  <2> SUFFICES ASSUME Init PROVE TurnInv
    OBVIOUS
  <2>1. \A w \in Worker : ~Opened(w) /\ step[w] = "idle"
    BY DEF Init, Opened
  <2>2. Live = {} /\ \A u : PageOf(u) = {}
    BY DEF Init, Live, PageOf
  <2>3. BronzeInv
    BY <2>1 DEF Init, BronzeInv
  <2>4. HistoryInv
    BY <2>2, FS_EmptySet DEF Init, HistoryInv
  <2>5. \A u \in Url : TurnIs(u)
    BY <2>1, <2>2 DEF TurnIs, SavedInOrder, PreviousIsShown, ShowsLastSaved, SourceIsNewer
  <2> QED BY <2>3, <2>4, <2>5 DEF TurnInv
<1>2. Init => UrlInv
  BY DEF Init, UrlInv, UniqueUrl, TargetIsPage, LocksExclude, Live, HoldsPage
<1>3. TypeInv /\ UrlInv /\ TurnInv /\ TypeInv' /\ TurnInv' /\ [Next]_vars =>
        [ShowsLastFetchForward' /\ VersionsAreRecorded' /\ ChangedIsTrue]_vars
  <2>1. TypeInv /\ TurnInv => ShowsLastFetchForward /\ VersionsAreRecorded
    BY TurnShows
  <2>2. TypeInv' /\ TurnInv' => ShowsLastFetchForward' /\ VersionsAreRecorded'
    BY <2>1, PTL
  <2> QED BY <2>2, HistoryIsTrue
<1> QED BY <1>1, <1>2, <1>3, TypeInit, TypeStep, UrlStep, TurnStep, PTL DEF Spec, InTurnIsTrue
=============================================================================
