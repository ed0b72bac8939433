------------------------------- MODULE Silver -------------------------------
(***************************************************************************)
(* Bronze and Silver in PostgreSQL: save_transformed runs one transaction  *)
(* per page of the crawl, which upserts the Bronze row, upserts the Silver *)
(* page of the URL and folds it into an older page with the same text.     *)
(* Several ETL workers do this at once, for any fetch, again and again.    *)
(*                                                                         *)
(* Isolation is READ COMMITTED: a statement sees what is committed when it *)
(* starts; a row upserted stays locked until the transaction ends, also    *)
(* when the upsert's WHERE refused the change.  What a transaction writes  *)
(* is therefore applied at its commit, from values its locks keep fixed.   *)
(***************************************************************************)
EXTENDS Integers, FiniteSets, FiniteSetsExt

CONSTANTS
  Url,             \* normalized_url / canonical_url
  Body,            \* what a fetch returns, told apart by the scraper's content_hash
  Content,         \* texts after extraction, told apart by content_sha256
  TextOf,          \* the text of a body
  Distance,        \* differing SimHash bits of two texts
  NearLimit,       \* limit of find_near_duplicates
  Worker,          \* sessions saving pages at the same time
  MaxFetches,      \* bound: pages fetched
  MaxBronze,       \* bound: crawled_documents.id
  MaxPages,        \* bound: pages.id
  MaxQuarantines   \* bound: pages taken out by quarantine

NoHash == "no page"

ASSUME TextAssumption == TextOf \in [Body -> Content] /\ NoHash \notin Content
ASSUME DistanceAssumption ==
  /\ Distance \in [Content \X Content -> Nat]
  /\ \A c \in Content : Distance[<<c, c>>] = 0
  /\ \A c, d \in Content : Distance[<<c, d>>] = Distance[<<d, c>>]
ASSUME BoundsAssumption ==
  {NearLimit, MaxFetches, MaxBronze, MaxPages, MaxQuarantines} \subseteq Nat

VARIABLES
  fetches,     \* what the crawler fetches, in order: [url, body]; the input
  done,        \* fetches some transaction saved and committed
  bronze,      \* crawled_documents: id -> [url, body], NoRow
  pages,       \* pages: id -> [url, content, source, version, dup], NoRow
  history,     \* page_sources: [page, source, changed]
  step,        \* next statement of each worker's transaction
  fetch,       \* the fetch it saves
  source,      \* id of its Bronze row
  previous,    \* previous_hash, read before the page is locked
  target,      \* id of the page it has locked
  fold,        \* the original it found, 0 for none
  quarantines, \* pages quarantined so far
  outOfTurn,   \* URLs of which a fetch was saved out of order, or while another save or
               \* a deletion of its page ran
  overlapped,  \* two transactions have been open at the same time
  crowded      \* a fold has had more near candidates than NearLimit

txVars == <<step, fetch, source, previous, target, fold>>
dbVars == <<done, bronze, pages, history>>
ghosts == <<quarantines, outOfTurn, overlapped, crowded>>
vars == <<fetches, done, bronze, pages, history, step, fetch,
          source, previous, target, fold, quarantines, outOfTurn, overlapped, crowded>>

NoRow == [none |-> TRUE]
MaxDistance == 3

Fetch == 1 .. MaxFetches
BronzeId == 1 .. MaxBronze
PageId == 1 .. MaxPages
Document == [url : Url, body : Body]
Page == [url : Url, content : Content, source : BronzeId,
         version : Nat, dup : PageId \cup {0}]

TypeOK ==
  /\ fetches \in [Fetch -> Document]
  /\ done \subseteq Fetch
  /\ bronze \in [BronzeId -> Document \cup {NoRow}]
  /\ pages \in [PageId -> Page \cup {NoRow}]
  /\ history \subseteq [page : PageId, source : BronzeId, changed : BOOLEAN]
  /\ step \in [Worker -> {"idle", "read", "upsert", "fold", "commit"}]
  /\ fetch \in [Worker -> Fetch \cup {0}]
  /\ source \in [Worker -> BronzeId \cup {0}]
  /\ previous \in [Worker -> Content \cup {NoHash}]
  /\ target \in [Worker -> PageId \cup {0}]
  /\ fold \in [Worker -> PageId \cup {0}]
  /\ quarantines \in 0 .. MaxQuarantines
  /\ outOfTurn \subseteq Url /\ overlapped \in BOOLEAN /\ crowded \in BOOLEAN

Init ==
  /\ fetches \in [Fetch -> Document]
  /\ done = {}
  /\ bronze = [b \in BronzeId |-> NoRow]
  /\ pages = [p \in PageId |-> NoRow]
  /\ history = {}
  /\ step = [w \in Worker |-> "idle"]
  /\ fetch = [w \in Worker |-> 0]
  /\ source = [w \in Worker |-> 0]
  /\ previous = [w \in Worker |-> NoHash]
  /\ target = [w \in Worker |-> 0]
  /\ fold = [w \in Worker |-> 0]
  /\ quarantines = 0 /\ outOfTurn = {} /\ overlapped = FALSE /\ crowded = FALSE

-----------------------------------------------------------------------------
Live == {p \in PageId : pages[p] # NoRow}
PageOf(u) == {p \in Live : pages[p].url = u}
Canonical == {p \in Live : pages[p].dup = 0}

\* What worker w is saving.
Doc(w) == fetches[fetch[w]]
Text(w) == TextOf[Doc(w).body]

\* Row locks: the Bronze row from the first statement on, the page from its upsert on.
HoldsBronze(w) == step[w] # "idle"
HoldsPage(w) == step[w] \in {"fold", "commit"}
BronzeLocked(d) == \E v \in Worker : HoldsBronze(v) /\ Doc(v) = d
UrlLocked(u) == \E v \in Worker : HoldsPage(v) /\ Doc(v).url = u
Open(u) == \E v \in Worker : step[v] # "idle" /\ Doc(v).url = u
PageLocked(p) == \E v \in Worker : HoldsPage(v) /\ target[v] = p

\* Mutant of IsNotOlder: the page always follows the last writer.
AnySource(page, b) == page.source \in Nat /\ b \in Nat

\* The sequences behind the ids, up to gaps: above every id anybody can still name.
UsedBronze == {b \in BronzeId : bronze[b] # NoRow} \cup {source[v] : v \in Worker} \cup {0}
UsedPages == Live \cup {target[v] : v \in Worker} \cup {fold[v] : v \in Worker} \cup {0}
NewId(id, used) == id - 1 \in used /\ \A u \in used : u < id

\* _is_not_older: the incoming row may replace the page.
IsNotOlder(page, b) == page.source <= b

\* The page as w's transaction leaves it, before the fold.
Written(w) ==
  LET p == pages[target[w]]
  IN CASE p = NoRow ->
            [url |-> Doc(w).url, content |-> Text(w), source |-> source[w],
             version |-> 1, dup |-> 0]
       [] p # NoRow /\ IsNotOlder(p, source[w]) ->
            [p EXCEPT !.content = Text(w), !.source = source[w],
                      !.version = IF p.content # Text(w) THEN @ + 1 ELSE @]
       [] OTHER -> p

\* Canonical pages other than p within MaxDistance bits of a text.
Bits(q, c) == Distance[<<pages[q].content, c>>]
NearPages(p, c) == {q \in Canonical \ {p} : Bits(q, c) <= MaxDistance}

Exact(p, c) == {q \in Canonical \ {p} : pages[q].content = c}
Closer(q, r, c) == Bits(q, c) < Bits(r, c) \/ (Bits(q, c) = Bits(r, c) /\ q < r)

\* Mutant of Near: one page fewer than the limit.
NearOneFewer(p, c) ==
  {q \in NearPages(p, c) :
     Cardinality({r \in NearPages(p, c) : Closer(r, q, c)}) < NearLimit - 1}

\* find_near_duplicates with its limit: closest first, the older one of two as close.
Near(p, c) ==
  {q \in NearPages(p, c) :
     Cardinality({r \in NearPages(p, c) : Closer(r, q, c)}) < NearLimit}

\* _fold_duplicate: the page p of text c is folded into, 0 for none.
Original(p, c) ==
  LET exact == {q \in Exact(p, c) : \A r \in Exact(p, c) : q <= r}
      older == {q \in Near(p, c) : q < p}
      near == {q \in older : \A r \in older \ {q} : Closer(q, r, c)}
      found == IF \E q \in exact : q < p THEN exact ELSE near
  IN IF found = {} THEN 0 ELSE CHOOSE q \in found : TRUE

-----------------------------------------------------------------------------
(* The fetches of a URL.                                                   *)

IsLast(f) == \A g \in f + 1 .. MaxFetches : fetches[g].url # fetches[f].url

\* f is saved alone among the fetches of its URL, after all older ones and before
\* any newer one.
InTurn(f) ==
  LET same == {g \in Fetch : fetches[g].url = fetches[f].url}
  IN /\ \A g \in same : (g < f => g \in done) /\ (g > f => g \notin done)
     /\ \A v \in Worker : step[v] # "idle" => fetch[v] \notin same

-----------------------------------------------------------------------------
(* save_transformed, statement by statement.                               *)

\* BronzeRepository.save_document: the row of (normalized_url, content_hash), or
\* a new one.
SaveBronze(w, f) ==
  LET known == {b \in BronzeId : bronze[b] = fetches[f]}
  IN /\ step[w] = "idle"
     /\ ~BronzeLocked(fetches[f])
     /\ step' = [step EXCEPT ![w] = "read"]
     /\ fetch' = [fetch EXCEPT ![w] = f]
     /\ \/ \E b \in known :
             source' = [source EXCEPT ![w] = b]
        \/ \E b \in BronzeId :
             known = {} /\ NewId(b, UsedBronze) /\ source' = [source EXCEPT ![w] = b]
     /\ outOfTurn' = IF InTurn(f) THEN outOfTurn ELSE outOfTurn \cup {fetches[f].url}
     /\ overlapped' = (overlapped \/ \E v \in Worker : step[v] # "idle")
     /\ UNCHANGED <<fetches, dbVars, previous, target, fold, quarantines, crowded>>

\* save_page reads previous_hash, without a lock.
ReadPrevious(w) ==
  /\ step[w] = "read"
  /\ step' = [step EXCEPT ![w] = "upsert"]
  /\ previous' = [previous EXCEPT ![w] =
       IF PageOf(Doc(w).url) = {} THEN NoHash
       ELSE pages[CHOOSE p \in PageOf(Doc(w).url) : TRUE].content]
  /\ UNCHANGED <<fetches, dbVars, fetch, source, target, fold, ghosts>>

\* INSERT ... ON CONFLICT (canonical_url) DO UPDATE ... WHERE: waits for other
\* transactions on this URL, then holds its page.
UpsertPage(w) ==
  /\ step[w] = "upsert"
  /\ ~UrlLocked(Doc(w).url)
  /\ step' = [step EXCEPT ![w] = "fold"]
  /\ \/ \E p \in PageOf(Doc(w).url) :
          target' = [target EXCEPT ![w] = p]
     \/ /\ PageOf(Doc(w).url) = {}
        /\ \E p \in PageId : NewId(p, UsedPages) /\ target' = [target EXCEPT ![w] = p]
  /\ UNCHANGED <<fetches, dbVars, fetch, source, previous, fold, ghosts>>

\* _fold_duplicate, also when the upsert was refused.
FoldDuplicate(w) ==
  /\ step[w] = "fold"
  /\ step' = [step EXCEPT ![w] = "commit"]
  /\ fold' = [fold EXCEPT ![w] = Original(target[w], Written(w).content)]
  /\ crowded' = (crowded \/ Cardinality(NearPages(target[w], Written(w).content)) > NearLimit)
  /\ UNCHANGED <<fetches, dbVars, fetch, source, previous, target,
                 quarantines, outOfTurn, overlapped>>

\* The session ends, with or without its changes.
End(w) ==
  /\ step' = [step EXCEPT ![w] = "idle"]
  /\ fetch' = [fetch EXCEPT ![w] = 0]
  /\ source' = [source EXCEPT ![w] = 0]
  /\ previous' = [previous EXCEPT ![w] = NoHash]
  /\ target' = [target EXCEPT ![w] = 0]
  /\ fold' = [fold EXCEPT ![w] = 0]

\* Mutant of Recorded: a source that comes back is recorded again.
RecordedAgain(w) ==
  LET row == [page |-> target[w], source |-> source[w],
              changed |-> previous[w] = NoHash \/ previous[w] # Text(w)]
  IN {h \in history : h.page # row.page \/ h.source # row.source} \cup {row}

\* Mutant of Recorded: the row names no source, 0 for NULL.
RecordedNull(w) ==
  history \cup {[page |-> target[w], source |-> 0,
                 changed |-> previous[w] = NoHash \/ previous[w] # Text(w)]}

\* _record_source: one row per source of the page, the first one stays.
Recorded(w) ==
  LET row == [page |-> target[w], source |-> source[w],
              changed |-> previous[w] = NoHash \/ previous[w] # Text(w)]
  IN IF \E h \in history : h.page = row.page /\ h.source = row.source
     THEN history ELSE history \cup {row}

\* The commit; the foreign key refuses a duplicate_of_id that is gone.
Commit(w) ==
  /\ step[w] = "commit"
  /\ fold[w] = 0 \/ fold[w] \in Live
  /\ bronze' = [bronze EXCEPT ![source[w]] = Doc(w)]
  /\ pages' = [pages EXCEPT ![target[w]] = [Written(w) EXCEPT !.dup = fold[w]]]
  /\ history' = Recorded(w)
  /\ done' = done \cup {fetch[w]}
  /\ End(w)
  /\ UNCHANGED <<fetches, ghosts>>

\* Any error before the commit, and a killed worker: nothing is applied.
Abort(w) ==
  /\ step[w] # "idle"
  /\ End(w)
  /\ UNCHANGED <<fetches, dbVars, ghosts>>

\* Mutant of Quarantine: duplicates keep pointing at the deleted page.
QuarantineKeepingFolds(b) ==
  /\ quarantines < MaxQuarantines
  /\ bronze[b] # NoRow /\ ~BronzeLocked(bronze[b])
  /\ LET gone == {p \in Live : pages[p].source = b}
     IN /\ \A p \in gone : ~PageLocked(p)
        /\ pages' = [p \in PageId |-> IF p \in gone THEN NoRow ELSE pages[p]]
        /\ history' = {h \in history : h.page \notin gone}
        /\ outOfTurn' = outOfTurn \cup {pages[p].url : p \in {q \in gone : Open(pages[q].url)}}
  /\ quarantines' = quarantines + 1
  /\ UNCHANGED <<fetches, done, bronze, txVars, overlapped, crowded>>

\* SilverRepository.quarantine: the page built from the Bronze row is deleted;
\* the foreign keys free its duplicates and drop its history.
Quarantine(b) ==
  /\ quarantines < MaxQuarantines
  /\ bronze[b] # NoRow /\ ~BronzeLocked(bronze[b])
  /\ LET gone == {p \in Live : pages[p].source = b}
         freed == {p \in Live : pages[p].dup \in gone}
     IN /\ \A p \in gone \cup freed : ~PageLocked(p)
        /\ pages' = [p \in PageId |->
             IF p \in gone THEN NoRow
             ELSE IF p \in freed THEN [pages[p] EXCEPT !.dup = 0] ELSE pages[p]]
        /\ history' = {h \in history : h.page \notin gone}
        /\ outOfTurn' = outOfTurn \cup {pages[p].url : p \in {q \in gone : Open(pages[q].url)}}
  /\ quarantines' = quarantines + 1
  /\ UNCHANGED <<fetches, done, bronze, txVars, overlapped, crowded>>

-----------------------------------------------------------------------------
Transaction(w) ==
  \/ \E f \in Fetch : SaveBronze(w, f)
  \/ ReadPrevious(w)
  \/ UpsertPage(w)
  \/ FoldDuplicate(w)
  \/ Commit(w)
  \/ Abort(w)

Next ==
  \/ \E w \in Worker : Transaction(w)
  \/ \E b \in BronzeId : Quarantine(b)

Spec == Init /\ [][Next]_vars
-----------------------------------------------------------------------------
(* Properties.                                                             *)

\* One page per URL (canonical_url UNIQUE), however many transactions insert it.
UniqueUrl == \A p, q \in Live : pages[p].url = pages[q].url => p = q

\* Only older pages are candidates, "so two pages can never end up pointing at each
\* other" (etl.py:385-386): following duplicate_of_id always ends.
DuplicateIsNewer == \A p \in Live : pages[p].dup < p

\* A folded page leads to an existing page, though the original may be deleted
\* between the fold's read and its commit.
NoDanglingDuplicate == \A p \in Live : pages[p].dup # 0 => pages[p].dup \in Live

\* What the rows of pages keep under any interleaving.
PagesAgree == UniqueUrl /\ DuplicateIsNewer /\ NoDanglingDuplicate

\* A page is never rolled back to an older Bronze row (silver.py:268-271), in
\* whichever order transactions reach it.
SourceNeverOlder ==
  [][\A p \in Live : pages'[p] # NoRow => pages'[p].source >= pages[p].source]_vars

\* A body comes back after another one.
Reverts(u) ==
  \E f, g, h \in Fetch :
    /\ f < g /\ g < h
    /\ {fetches[f].url, fetches[g].url, fetches[h].url} = {u}
    /\ fetches[f].body = fetches[h].body /\ fetches[g].body # fetches[f].body

\* Once every fetch of f's URL is saved, its page shows the last one.
Shown(f) ==
  (\A g \in Fetch : fetches[g].url = fetches[f].url => g \in done)
    => \A p \in PageOf(fetches[f].url) : pages[p].content = TextOf[fetches[f].body]

\* A recrawl with changed content updates the page (bronze-silver-contract.md:425-427).
\* Not so when a body comes back: see the README.
ShowsLastFetch ==
  \A f \in Fetch :
    IsLast(f) /\ fetches[f].url \notin outOfTurn => Shown(f)

\* It does, when the fetches are saved one by one in order and no body comes back,
\* through aborts, retries and quarantines.
ShowsLastFetchForward ==
  \A f \in Fetch :
    IsLast(f) /\ fetches[f].url \notin outOfTurn /\ ~Reverts(fetches[f].url) => Shown(f)

\* version and the fetch history agree: as many versions as recorded changes.
VersionsAreRecorded ==
  \A p \in Live : pages[p].url \notin outOfTurn /\ ~Reverts(pages[p].url) =>
    pages[p].version = Cardinality({h \in history : h.page = p /\ h.changed})

\* content_changed is "True when this source's content differed from what the page
\* held before it" (models/silver.py:294), if no other save of the URL ran meanwhile.
ChangedIsTrue ==
  \A h \in history' \ history : bronze'[h.source].url \notin outOfTurn =>
    (h.changed <=> \/ pages[h.page] = NoRow
                   \/ pages[h.page].content # TextOf[bronze'[h.source].body])

\* What a step leaves a page with and writes into its history, for saves that keep
\* their turn.
InTurnIsTrue == [][ShowsLastFetchForward' /\ VersionsAreRecorded' /\ ChangedIsTrue]_vars

\* No two transactions at once, and every URL keeps its text.
Calm ==
  /\ ~overlapped
  /\ \A f, g \in Fetch :
       fetches[f].url = fetches[g].url => TextOf[fetches[f].body] = TextOf[fetches[g].body]

\* All is calm, no original was deleted, and no fold had more candidates than
\* find_near_duplicates returns (silver.py:1154).  Each is needed: see the README.
Undisturbed == Calm /\ quarantines = 0 /\ ~crowded

\* Mirrored text has one canonical page, the others are folded into it
\* (etl.py:354-355): no two canonical pages are the same or near, while undisturbed.
MirrorsAreFolded ==
  Undisturbed =>
    \A p, q \in Canonical : Bits(p, pages[q].content) <= MaxDistance => p = q

\* A folded page is near its original, which is canonical.
WellFolded(p) ==
  pages[p].dup # 0 => /\ pages[p].dup \in Canonical
                      /\ Bits(pages[p].dup, pages[p].content) <= MaxDistance

\* A page "whose content no longer matches its old original is unfolded"
\* (etl.py:355-356).  Not so when the original's text changes: see the README.
FoldedIsNear == ~overlapped => \A p \in Live : WellFolded(p)

\* It is while undisturbed, whatever is saved again or aborted.
CalmFoldedIsNear == Undisturbed => \A p \in Live : WellFolded(p)

\* Saving a folded page again does not unfold it, while undisturbed.
StaysFolded == Undisturbed' => \A p \in Live : pages[p].dup # 0 => pages'[p].dup # 0

\* What a step leaves folded while undisturbed.
FoldingHolds == [][MirrorsAreFolded' /\ CalmFoldedIsNear' /\ StaysFolded]_vars

=============================================================================
