---------------------------- MODULE SitemapWalk ----------------------------
(***************************************************************************)
(* DiscoverSitemapURLs: the walk over a site's sitemaps, depth first       *)
(* through the indexes among them, with a cap on pages and on children.    *)
(***************************************************************************)
EXTENDS Integers, Sequences, FiniteSets

CONSTANTS
  Url, SitemapFile,
  PageLocs,          \* pages a file lists: [SitemapFile -> Seq(Url)]
  ChildLocs,         \* files an index lists: [SitemapFile -> Seq(SitemapFile)]
  MaxChildSitemaps

ASSUME SitemapAssumption ==
  /\ IsFiniteSet(SitemapFile)
  /\ PageLocs \in [SitemapFile -> Seq(Url)] /\ ChildLocs \in [SitemapFile -> Seq(SitemapFile)]
  /\ MaxChildSitemaps \in Nat

\* Calls of fetchSitemap still to come: each index puts its children first.
Calls(files, child) == [n \in DOMAIN files |-> [file |-> files[n], child |-> child]]

Begun(declared) ==
  [calls |-> Calls(declared, FALSE), visited |-> {}, pages |-> <<>>, children |-> 0]

AtMost(n, s) == IF Len(s) <= n THEN s ELSE SubSeq(s, 1, n)

\* Mutant: a file that cannot be read ends the walk.
FetchSitemapOrStop(w, limit, unread) ==
  LET call == Head(w.calls) IN
  IF call.file \in unread
    THEN [w EXCEPT !.calls = <<>>, !.visited = @ \cup {call.file}]
    ELSE [w EXCEPT !.calls = Calls(ChildLocs[call.file], TRUE) \o Tail(@),
                   !.visited = @ \cup {call.file},
                   !.pages = AtMost(limit, @ \o PageLocs[call.file])]

\* A child is counted when it is called, whether or not it was visited before.
FetchSitemap(w, limit, unread) ==
  LET call == Head(w.calls)
      capped == call.child /\ w.children >= MaxChildSitemaps
      fetched == ~capped /\ call.file \notin w.visited /\ Len(w.pages) < limit
      read == fetched /\ call.file \notin unread
  IN [calls |-> IF read THEN Calls(ChildLocs[call.file], TRUE) \o Tail(w.calls) ELSE Tail(w.calls),
      visited |-> IF fetched THEN w.visited \cup {call.file} ELSE w.visited,
      pages |-> IF read THEN AtMost(limit, w.pages \o PageLocs[call.file]) ELSE w.pages,
      children |-> IF call.child /\ ~capped THEN w.children + 1 ELSE w.children]

Children == UNION {{f} \X DOMAIN ChildLocs[f] : f \in SitemapFile}

\* Each file is read once, so there are no more calls than these.
DiscoverSitemapURLs(declared, limit, unread) ==
  LET walk[n \in Nat] ==
        IF n = 0 THEN Begun(declared)
        ELSE LET w == walk[n - 1] IN
             IF w.calls = <<>> THEN w ELSE FetchSitemap(w, limit, unread)
  IN walk[Len(declared) + Cardinality(Children)]

-----------------------------------------------------------------------------
(* What the walk is for: the files that can be reached through readable ones. *)

Closed(files, unread) ==
  \A f \in files \ unread : \A n \in DOMAIN ChildLocs[f] : ChildLocs[f][n] \in files

Reachable(declared, unread) ==
  {f \in SitemapFile : \A files \in SUBSET SitemapFile :
     /\ Closed(files, unread) /\ \A n \in DOMAIN declared : declared[n] \in files
     => f \in files}

\* No cap is met: neither by the pages nor by the children that are listed.
Uncapped(files, limit) ==
  /\ Cardinality(UNION {{f} \X DOMAIN PageLocs[f] : f \in files}) <= limit
  /\ Cardinality(UNION {{f} \X DOMAIN ChildLocs[f] : f \in files}) <= MaxChildSitemaps

Listed(files) == UNION {{PageLocs[f][n] : n \in DOMAIN PageLocs[f]} : f \in files}
=============================================================================
