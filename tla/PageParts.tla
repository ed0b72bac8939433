------------------------------ MODULE PageParts ------------------------------
(***************************************************************************)
(* What hangs off a Silver page: SilverRepository.save_page upserts the    *)
(* page and, in the same transaction, derives its geo tags, contacts,      *)
(* media, entities and vectors from the payload; OCR, NER and embedding    *)
(* jobs replace media, entities or vectors of a page they read before.     *)
(*                                                                         *)
(* Isolation is READ COMMITTED.  A DELETE takes what was committed when it *)
(* started and waits for a transaction that deletes the same rows; an      *)
(* INSERT waits for one that writes the same key, then fails on it.  A     *)
(* save holds its page from the upsert to the commit; a job does not.      *)
(* Entities are shared by all pages and held from their upsert to the      *)
(* commit, in the order the payload names them.                            *)
(***************************************************************************)
EXTENDS PartRows

vars == <<pages, rows, entities, tx, begun, removals, raced, overtaken>>

\* A list that raises ValueError: no searchable_text; a resolved place without method or
\* confidence; media without URL; an entity without name; a repeated chunk_index, or a
\* vector of another size than its model's.
PageIsValid(c) == Payload[c].body
GeoIsValid(p, c) ==
  \A i \in DOMAIN GeoOf(p, c) : GeoOf(p, c)[i].key # Blank => GeoOf(p, c)[i].sure
MediaAreValid(c) == \A i \in DOMAIN Payload[c].media : Payload[c].media[i].key # Blank
EntitiesAreValid(c) == \A i \in DOMAIN Payload[c].entities : Payload[c].entities[i].key # Blank
ChunksAreValid(c) ==
  \A i, j \in DOMAIN Payload[c].chunks :
    Payload[c].chunks[i].key = Payload[c].chunks[j].key => i = j
VectorsFit(c) == \A i \in DOMAIN Payload[c].chunks : Payload[c].chunks[i].fits

Valid(t, c) ==
  CASE t = "media" -> MediaAreValid(c)
    [] t = "links" -> EntitiesAreValid(c)
    [] t = "vectors" -> ChunksAreValid(c) /\ VectorsFit(c)

-----------------------------------------------------------------------------
(* Transactions.                                                           *)

Idle == [step |-> "idle", save |-> FALSE, page |-> Blank, text |-> Blank, hash |-> Blank,
         source |-> NoPage, todo |-> {}, done |-> {}, seen |-> {}, gone |-> {},
         new |-> {}, names |-> {}, held |-> {}]

Step(w) == tx[w].step
Others(w) == Writer \ {w}
\* Tables are written in the order of Optional, entities in that of their mentions.
Table(w) == Optional[First({i \in DOMAIN Optional : Optional[i] \in tx[w].todo})]
Mention(w) == First(tx[w].names)
EntityKey(w) == Payload[tx[w].text].entities[Mention(w)].key
Mine(w, t) == {r \in rows : r.table = t /\ r.page = tx[w].page}
SameKey(r, s) == r.table = s.table /\ r.page = s.page /\ r.key = s.key

\* A save holds its page from the upsert on, also when its WHERE refused the change.
HoldsPage(w) == tx[w].save /\ Step(w) # "upsert"

Init ==
  /\ pages = [p \in Page |-> NoPage]
  /\ rows = {}
  /\ entities = [k \in UNION {Keys(Payload[c].entities) : c \in Content} |-> NoNames]
  /\ tx = [w \in Writer |-> Idle]
  /\ begun = 0 /\ removals = 0 /\ raced = {} /\ overtaken = {}

\* save_page checks every block before it touches the database; a bad one ends here.
BeginSave(w, b, blocks) ==
  /\ Step(w) = "idle" /\ begun < MaxWrites
  /\ PageIsValid(b.content) /\ GeoIsValid(b.page, b.content)
  /\ \A t \in blocks : Valid(t, b.content)
  /\ begun' = begun + 1
  /\ tx' = [tx EXCEPT ![w] = [Idle EXCEPT
       !.step = "upsert", !.save = TRUE, !.page = b.page, !.text = b.content,
       !.hash = b.content, !.source = b, !.todo = blocks]]
  /\ UNCHANGED <<pages, rows, entities, removals, raced, overtaken>>

\* _is_not_older: an older row of the same table is refused, a change of table never.
IsNotOlder(page, b) == page # NoPage /\ page.table = b.table => page.id <= b.id

\* Mutant of SourceRow: the row names no source.
SourceRowUnnamed(b) == [table |-> b.table, page |-> b.page, key |-> Blank, value |-> Blank,
                        text |-> b.content, hash |-> b.content]

\* _record_source: one row per source of the page.
SourceRow(b) == [table |-> b.table, page |-> b.page, key |-> Blank, value |-> b.id,
                 text |-> b.content, hash |-> b.content]

\* INSERT ... ON CONFLICT DO UPDATE ... WHERE, then the source and, unless the row is older,
\* geo tags and contacts, which only saves write.
UpsertPage(w) ==
  LET b == tx[w].source
      p == tx[w].page
      newer == IsNotOlder(pages[p], b)
  IN /\ Step(w) = "upsert"
     /\ \A v \in Others(w) : HoldsPage(v) => tx[v].page # p
     /\ tx' = [tx EXCEPT ![w] = [tx[w] EXCEPT
          !.step = "next",
          !.source = IF newer THEN b ELSE pages[p],
          !.todo = IF newer THEN tx[w].todo ELSE {},
          !.gone = IF newer THEN Mine(w, "geo") \cup Mine(w, "contacts") ELSE {},
          !.new = ({SourceRow(b)} \ rows) \cup
                  (IF newer THEN RowsOf("geo", p, b.content, b.content)
                                 \cup RowsOf("contacts", p, b.content, b.content)
                   ELSE {})]]
     /\ UNCHANGED <<pages, rows, entities, begun, removals, raced, overtaken>>

-----------------------------------------------------------------------------
(* Jobs.                                                                   *)

\* pages_missing_embeddings: no vectors for the text the page holds.
MissingVectors(p) == ~\E r \in rows : r.table = "vectors" /\ r.page = p /\ r.hash = pages[p].content

\* An OCR, NER or embedding job reads the page and works on its text.
ReadPage(w, t, p) ==
  /\ Step(w) = "idle" /\ begun < MaxWrites
  /\ p \in Live
  /\ t = "vectors" => MissingVectors(p)
  /\ begun' = begun + 1
  /\ tx' = [tx EXCEPT ![w] = [Idle EXCEPT
       !.step = "work", !.page = p, !.text = pages[p].content, !.todo = {t}]]
  /\ UNCHANGED <<pages, rows, entities, removals, raced, overtaken>>

\* replace_media, replace_entities, replace_embeddings: validates its list;
\* replace_embeddings also reads the content_hash the page has by now, without a lock.
BeginReplace(w) ==
  LET p == tx[w].page
  IN /\ Step(w) = "work"
     /\ p \in Live /\ Valid(Table(w), tx[w].text)
     /\ tx' = [tx EXCEPT ![w] = [tx[w] EXCEPT !.step = "next",
          !.hash = IF Table(w) = "vectors" THEN pages[p].content ELSE tx[w].text]]
     /\ overtaken' = IF Table(w) = "vectors" /\ pages[p].content # tx[w].text
                     THEN overtaken \cup {p} ELSE overtaken
     /\ UNCHANGED <<pages, rows, entities, begun, removals, raced>>

-----------------------------------------------------------------------------
(* _replace_media_rows, _replace_entity_rows, _replace_embedding_rows.     *)

\* The DELETE starts: it will remove what is committed now.
Look(w) ==
  LET t == Table(w)
      p == tx[w].page
  IN /\ Step(w) = "next" /\ tx[w].todo # {}
     /\ tx' = [tx EXCEPT ![w] = [tx[w] EXCEPT
          !.step = "delete", !.seen = Mine(w, t), !.done = @ \cup {t}]]
     /\ raced' = IF \E v \in Others(w) : tx[v].page = p /\ t \in tx[v].done
                 THEN raced \cup {<<t, p>>} ELSE raced
     /\ UNCHANGED <<pages, rows, entities, begun, removals, overtaken>>

\* Mutant of Delete: nothing is deleted.
DeleteNothing(w) ==
  /\ Step(w) = "delete"
  /\ \A v \in Others(w) : tx[v].gone \cap tx[w].seen = {}
  /\ tx' = [tx EXCEPT ![w] = [tx[w] EXCEPT
       !.step = IF Table(w) = "links" THEN "entities" ELSE "insert",
       !.names = IF Table(w) = "links" THEN Mentions(tx[w].text) ELSE {}]]
  /\ UNCHANGED <<pages, rows, entities, begun, removals, raced, overtaken>>

\* It has waited for the transactions deleting the same rows; what they removed it no longer sees.
Delete(w) ==
  /\ Step(w) = "delete"
  /\ \A v \in Others(w) : tx[v].gone \cap tx[w].seen = {}
  /\ tx' = [tx EXCEPT ![w] = [tx[w] EXCEPT
       !.step = IF Table(w) = "links" THEN "entities" ELSE "insert",
       !.seen = {}, !.gone = @ \cup tx[w].seen,
       !.names = IF Table(w) = "links" THEN Mentions(tx[w].text) ELSE {}]]
  /\ UNCHANGED <<pages, rows, entities, begun, removals, raced, overtaken>>

\* The entities w has upserted and nobody else may touch.
Held(w) == {e.key : e \in tx[w].held}

\* Mutant of Coalesced: the last writer's names win.
Overwritten(k, named) == [key |-> k, names |-> named]

\* "Keep names already known; fill the ones that were missing."
Coalesced(k, named) ==
  [key |-> k,
   names |-> [n \in Language |-> IF entities[k][n] # Blank THEN entities[k][n] ELSE named[n]]]

\* One INSERT ... ON CONFLICT DO UPDATE per entity, in the payload's order.
UpsertEntity(w) ==
  /\ Step(w) = "entities" /\ tx[w].names # {}
  /\ \A v \in Others(w) : EntityKey(w) \notin Held(v)
  /\ tx' = [tx EXCEPT ![w] = [tx[w] EXCEPT
       !.names = @ \ {Mention(w)},
       !.held = @ \cup {Coalesced(EntityKey(w), NamesOf(tx[w].text, Mention(w)))}]]
  /\ UNCHANGED <<pages, rows, entities, begun, removals, raced, overtaken>>

Inserting(w) == Step(w) = "insert" \/ (Step(w) = "entities" /\ tx[w].names = {})
ToInsert(w) == RowsOf(Table(w), tx[w].page, tx[w].text, tx[w].hash)
Clash(R, S) == \E r \in R, s \in S : SameKey(r, s)

\* Somebody else is writing or deleting one of these keys.
InsertWaitsFor(w, v) == Clash(ToInsert(w), tx[v].new \cup tx[v].gone)

\* A key is taken, or the page is gone (unless w is the one saving it).
Taken(w) ==
  /\ Inserting(w)
  /\ \/ /\ Clash(ToInsert(w), rows \ tx[w].gone)
        /\ \A v \in Others(w) : ~InsertWaitsFor(w, v)
     \/ ~tx[w].save /\ tx[w].page \notin Live /\ ToInsert(w) # {}

Insert(w) ==
  /\ Inserting(w) /\ ~Taken(w)
  /\ \A v \in Others(w) : ~InsertWaitsFor(w, v)
  /\ tx' = [tx EXCEPT ![w] = [tx[w] EXCEPT
       !.step = "next", !.todo = @ \ {Table(w)}, !.new = @ \cup ToInsert(w)]]
  /\ UNCHANGED <<pages, rows, entities, begun, removals, raced, overtaken>>

\* A row deleted here is skipped by a DELETE that waits for it, also when it is written again.
Commit(w) ==
  /\ Step(w) = "next" /\ tx[w].todo = {}
  /\ pages' = IF tx[w].save THEN [pages EXCEPT ![tx[w].page] = tx[w].source] ELSE pages
  /\ rows' = (rows \ tx[w].gone) \cup tx[w].new
  /\ entities' = [k \in DOMAIN entities |->
                    IF k \in Held(w) THEN (CHOOSE e \in tx[w].held : e.key = k).names ELSE entities[k]]
  /\ tx' = [v \in Writer |->
              IF v = w THEN Idle ELSE [tx[v] EXCEPT !.seen = @ \ tx[w].gone]]
  /\ UNCHANGED <<begun, removals, raced, overtaken>>

-----------------------------------------------------------------------------
(* Failures.                                                               *)

\* The transaction w's next statement waits for.
WaitsFor(w, v) ==
  \/ Step(w) = "upsert" /\ HoldsPage(v) /\ tx[v].page = tx[w].page
  \/ Step(w) = "delete" /\ tx[v].gone \cap tx[w].seen # {}
  \/ Step(w) = "entities" /\ tx[w].names # {} /\ EntityKey(w) \in Held(v)
  \/ (Inserting(w) /\ InsertWaitsFor(w, v))

\* Everybody in D waits for somebody in D.
Deadlocked(D) == D # {} /\ \A w \in D : \E v \in D \ {w} : WaitsFor(w, v)

Abort(w) ==
  /\ tx' = [tx EXCEPT ![w] = Idle]
  /\ UNCHANGED <<pages, rows, entities, begun, removals, raced, overtaken>>

\* Mutant of Refused: a taken key is no error, the statement waits.
RefusedUnlessTaken(w) ==
  /\ Step(w) = "work"
  /\ tx[w].page \notin Live \/ ~Valid(Table(w), tx[w].text)
  /\ Abort(w)

\* The page a job worked on is gone (LookupError), its list is bad, or a key is taken.
Refused(w) ==
  /\ \/ /\ Step(w) = "work"
        /\ tx[w].page \notin Live \/ ~Valid(Table(w), tx[w].text)
     \/ Taken(w)
  /\ Abort(w)

\* PostgreSQL ends one transaction of a deadlock.
Victim(w) == (\E D \in SUBSET Writer : w \in D /\ Deadlocked(D)) /\ Abort(w)

\* Any other error, a killed worker.
Fail(w) == Step(w) # "idle" /\ Abort(w)

\* quarantine and retention delete a page; the foreign keys take its rows along.
\* A transaction that writes rows of the page holds it off.
RemovePage(p) ==
  /\ removals < MaxRemovals /\ p \in Live
  /\ \A w \in Writer : tx[w].page = p => ~HoldsPage(w) /\ tx[w].new = {} /\ tx[w].gone = {}
  /\ removals' = removals + 1
  /\ pages' = [pages EXCEPT ![p] = NoPage]
  /\ rows' = {r \in rows : r.page # p}
  /\ tx' = [v \in Writer |-> [tx[v] EXCEPT !.seen = {r \in @ : r.page # p}]]
  /\ UNCHANGED <<entities, begun, raced, overtaken>>

-----------------------------------------------------------------------------
Advance(w) ==
  \/ UpsertPage(w) \/ BeginReplace(w)
  \/ Look(w) \/ Delete(w) \/ UpsertEntity(w) \/ Insert(w) \/ Commit(w)
  \/ Refused(w) \/ Victim(w)

Start(w) ==
  \/ \E b \in Bronze, blocks \in Blocks : BeginSave(w, b, blocks)
  \/ \E t \in ToSet(Optional), p \in Page : ReadPage(w, t, p)

Next ==
  \/ \E w \in Writer : Start(w) \/ Advance(w) \/ Fail(w)
  \/ \E p \in Page : RemovePage(p)

\* The database answers every statement, and its deadlock detector runs.
Spec == Init /\ [][Next]_vars /\ \A w \in Writer : WF_vars(Advance(w))

-----------------------------------------------------------------------------
\* Transactions end, and where they deadlock some of them wait for an entity: the entities
\* are the only rows two pages share, and no order is kept among them.
DeadlocksAreEntities ==
  \A D \in SUBSET Writer : Deadlocked(D) => \E w \in D : Step(w) = "entities"
WritersEnd == []DeadlocksAreEntities /\ []<>(\A w \in Writer : Step(w) = "idle")
=============================================================================
