------------------------------ MODULE MCParts ------------------------------
(***************************************************************************)
(* PageParts on two pages of one site.  Page p1 has four texts: the first  *)
(* lists everything, some of it twice; the second shares some keys with    *)
(* it; two are malformed.  Page p2 names the entities of the first text in *)
(* the other order.                                                        *)
(***************************************************************************)
EXTENDS PageParts, TLC

CONSTANTS p1, p2, c1, c2, c3, c4, c5, blank, w1, w2

Plain(k) == [key |-> k, sure |-> TRUE, fits |-> TRUE]
Named(k, en, ne) == [key |-> k, names |-> [en |-> en, ne |-> ne]]

MCPayload ==
  c1 :> [body |-> TRUE, geo |-> <<Plain("kaski"), Plain(blank), Plain("kaski")>>,
         contacts |-> <<Plain("mail"), Plain("mail")>>,
         media |-> <<Plain("img"), Plain("pdf"), Plain("img")>>,
         entities |-> <<Named("mayor", "en1", blank), Named("ward", "en1", blank), Named("mayor", "en1", blank)>>,
         chunks |-> <<Plain("0")>>] @@
  c2 :> [body |-> TRUE, geo |-> <<>>, contacts |-> <<>>, media |-> <<Plain("map")>>,
         entities |-> <<Named("mayor", "en2", "ne2")>>,
         chunks |-> <<Plain("0"), Plain("1")>>] @@
  c3 :> [body |-> TRUE, geo |-> <<[Plain("kaski") EXCEPT !.sure = FALSE]>>, contacts |-> <<>>, media |-> <<Plain(blank)>>,
         entities |-> <<>>, chunks |-> <<>>] @@
  c5 :> [body |-> FALSE, geo |-> <<>>, contacts |-> <<>>, media |-> <<>>,
         entities |-> <<>>, chunks |-> <<>>] @@
  c4 :> [body |-> TRUE, geo |-> <<Plain("lamjung")>>, contacts |-> <<Plain("phone")>>, media |-> <<>>,
         entities |-> <<Named("ward", "en4", "ne4"), Named("mayor", blank, "ne4")>>,
         chunks |-> <<>>]

MCDomainGeo == p1 :> <<Plain("pokhara")>> @@ p2 :> <<>>

MCBronze ==
  {[table |-> "crawled", id |-> 1, page |-> p1, content |-> c1],
   [table |-> "crawled", id |-> 2, page |-> p1, content |-> c2],
   [table |-> "file", id |-> 1, page |-> p1, content |-> c1],
   [table |-> "crawled", id |-> 3, page |-> p1, content |-> c3],
   [table |-> "crawled", id |-> 4, page |-> p1, content |-> c5],
   [table |-> "crawled", id |-> 5, page |-> p2, content |-> c4]}

MCBlocks == {{}, {"media", "links"}, {"links", "vectors"}}

Symmetry == Permutations(Writer)
=============================================================================
