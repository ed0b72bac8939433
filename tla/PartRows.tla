------------------------------ MODULE PartRows ------------------------------
(***************************************************************************)
(* The rows that hang off Silver pages: what a payload's lists stand for,  *)
(* what is committed, what each session's transaction has in its hands,    *)
(* and what must hold of it.  PageParts has the steps.                     *)
(***************************************************************************)
EXTENDS Integers, Sequences, FiniteSets, SequencesExt

CONSTANTS
  Page,          \* canonical URLs
  Writer,        \* sessions writing at the same time
  Content,       \* texts, told apart by their content_hash
  Bronze,        \* source rows: [table, id, page, content]
  Payload,       \* text -> its payload: [body, geo, contacts, media, entities, chunks]
  DomainGeo,     \* page -> the geo block of its site's local body, <<>> for none
  Blocks,        \* the optional blocks a payload may have: sets of tables
  Blank,         \* a value blank_to_none drops, a place nothing resolves
  MaxWrites,     \* bound: transactions started
  MaxRemovals    \* bound: pages deleted

\* The tables whose rows a job may replace, in the order save_page writes them.
Optional == <<"media", "links", "vectors">>

Language == {"en", "ne"}
IsList(s) == s \in Seq(ToSet(s))
IsPayload(load) ==
  \A s \in {load.geo, load.contacts, load.media, load.entities, load.chunks} : IsList(s)
IsParts ==
  /\ DOMAIN Payload = Content /\ DOMAIN DomainGeo = Page
  /\ \A c \in Content : IsPayload(Payload[c])
  /\ \A p \in Page : IsList(DomainGeo[p])
  /\ Bronze \subseteq [table : {"crawled", "file"}, id : Nat, page : Page, content : Content]
  /\ Blocks \subseteq SUBSET ToSet(Optional)
  /\ {MaxWrites, MaxRemovals} \subseteq Nat
ASSUME PartsAssumption == IsParts

VARIABLES
  pages,      \* pages: its source row, NoPage
  rows,       \* committed child rows: [table, page, key, value, text, hash]
  entities,   \* entities: key -> the names known; NoNames while there is no row
  tx,         \* each writer's transaction
  begun,      \* transactions started so far
  removals,   \* pages deleted so far
  raced,      \* <<table, page>> two transactions replaced at once
  overtaken   \* pages saved with another text while a job worked on the old one

NoPage == [table |-> "none"]
NoNames == [n \in Language |-> Blank]
Live == {p \in Page : pages[p] # NoPage}

-----------------------------------------------------------------------------
(* The rows a payload's lists stand for.                                   *)

Keys(s) == {s[i].key : i \in DOMAIN s} \ {Blank}
At(s, k) == {i \in DOMAIN s : s[i].key = k}
First(I) == CHOOSE i \in I : \A j \in I : i <= j
Final(I) == CHOOSE i \in I : \A j \in I : j <= i

\* geo_for_domain: a payload without geo_location gets the local body of its site.
GeoOf(p, c) == IF Payload[c].geo = <<>> THEN DomainGeo[p] ELSE Payload[c].geo

\* _geo_rows: blocks nothing resolves are skipped; a place named twice, and a contact
\* listed twice (replace_contacts), keeps its first entry.
GeoRows(p, c) == {[key |-> k, value |-> First(At(GeoOf(p, c), k))] : k \in Keys(GeoOf(p, c))}
ContactRows(c) ==
  {[key |-> k, value |-> First(At(Payload[c].contacts, k))] : k \in Keys(Payload[c].contacts)}

\* _media_rows: "a URL listed twice keeps its last entry".
MediaRows(c) ==
  {[key |-> k, value |-> Final(At(Payload[c].media, k))] : k \in Keys(Payload[c].media)}

\* _entity_rows: an entity named twice is merged; its mentions add up.
EntityRows(c) ==
  {[key |-> k, value |-> Cardinality(At(Payload[c].entities, k))] : k \in Keys(Payload[c].entities)}

\* Where each entity is first named, and the names it has there.
Mentions(c) == {First(At(Payload[c].entities, k)) : k \in Keys(Payload[c].entities)}
NamesOf(c, i) == Payload[c].entities[i].names

\* _embedding_block: one row per chunk_index.
VectorRows(c) ==
  {[key |-> k, value |-> First(At(Payload[c].chunks, k))] : k \in Keys(Payload[c].chunks)}

Derived(t, p, c) ==
  CASE t = "geo" -> GeoRows(p, c)
    [] t = "contacts" -> ContactRows(c)
    [] t = "media" -> MediaRows(c)
    [] t = "links" -> EntityRows(c)
    [] t = "vectors" -> VectorRows(c)

\* Each row names the text it was made from; a vector also records a content_hash.
RowsOf(t, p, c, hash) ==
  {[table |-> t, page |-> p, key |-> r.key, value |-> r.value, text |-> c, hash |-> hash] :
     r \in Derived(t, p, c)}

-----------------------------------------------------------------------------
(* Properties.                                                             *)

ListsOf(c) ==
  {Payload[c].media, Payload[c].entities, Payload[c].chunks, Payload[c].contacts, Payload[c].geo}
Key == {Blank} \cup UNION {Keys(s) : s \in (UNION {ListsOf(c) : c \in Content}) \cup {DomainGeo[p] : p \in Page}}
RowIn(tables) ==
  [table : tables, page : Page, key : Key, value : Nat, text : Content, hash : Content]
PlaceOrContact == RowIn({"geo", "contacts"})
PageSource == RowIn({"crawled", "file"})
PageMedia == RowIn({"media"})
PageEntity == RowIn({"links"})
PageEmbedding == RowIn({"vectors"})
Row == PlaceOrContact \cup PageSource \cup PageMedia \cup PageEntity \cup PageEmbedding
Name == {Blank} \cup
  UNION {UNION {{NamesOf(c, i)[n] : n \in Language} : i \in DOMAIN Payload[c].entities} : c \in Content}
Entity == [Language -> Name]

PartsTyped ==
  /\ pages \in [Page -> Bronze \cup {NoPage}]
  /\ rows \subseteq Row
  /\ \A k \in DOMAIN entities : entities[k] \in Entity
  /\ \A w \in Writer :
       /\ tx[w].step \in {"idle", "upsert", "work", "next", "delete", "entities", "insert"}
       /\ tx[w].new \cup tx[w].gone \cup tx[w].seen \subseteq Row
       /\ tx[w].source \in Bronze \cup {NoPage}
  /\ begun \in 0 .. MaxWrites /\ removals \in 0 .. MaxRemovals
  /\ raced \subseteq ToSet(Optional) \X Page /\ overtaken \subseteq Page

Committed(t, p) == {r \in rows : r.table = t /\ r.page = p}

\* "a reprocess that corrects a wrong geo tag actually corrects it instead of leaving both"
\* (silver.py:276-277): geo tags and contacts are those of the text the page shows, and
\* rows of an older source never are.
OwnPartsMatch ==
  \A p \in Live : \A t \in {"geo", "contacts"} :
    Committed(t, p) = RowsOf(t, p, pages[p].content, pages[p].content)

\* Media, entities and vectors of a page are one writer's list, whole, unless two
\* transactions replaced them at once: a job does not lock the page, so two lists
\* without a common key are then both kept.
OneWritersList ==
  \A p \in Live : \A t \in ToSet(Optional) : <<t, p>> \notin raced =>
    \/ Committed(t, p) = {}
    \/ \E c, h \in Content : Committed(t, p) = RowsOf(t, p, c, h)

\* A vector's content_hash is that of the text it was made from: then "a page whose text
\* changed shows up in pages_missing_embeddings" (models/silver.py:407-408).  Not for a
\* job the page's next save overtook: it records the newer hash for the older text.
VectorsTellTheirText ==
  \A r \in rows : r.table = "vectors" /\ r.page \notin overtaken => r.hash = r.text

\* No row without its page.
NoOrphans == \A r \in rows : r.page \in Live

PartsAreWhole == OwnPartsMatch /\ OneWritersList /\ VectorsTellTheirText /\ NoOrphans

\* Names of an entity once known stay, whoever upserts it (silver.py:552).
NamesAreKept ==
  [][\A k \in DOMAIN entities : \A n \in Language :
       entities[k][n] # Blank => entities'[k][n] = entities[k][n]]_entities
=============================================================================
