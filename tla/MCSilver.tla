------------------------------ MODULE MCSilver ------------------------------
(***************************************************************************)
(* Silver on small instances.  Three texts on a line of SimHash bits: tb   *)
(* is near ta and near tc, which are not near each other.                  *)
(***************************************************************************)
EXTENDS Silver, TLC

CONSTANTS
  ta, tb, tc,      \* texts
  ba, bb, bc       \* bodies

Texts == ba :> ta @@ bb :> tb @@ bc :> tc

Position == ta :> 0 @@ tb :> 3 @@ tc :> 4
Bitcount(x, y) == IF Position[x] < Position[y] THEN Position[y] - Position[x]
                  ELSE Position[x] - Position[y]
MCTextOf == [body \in Body |-> Texts[body]]
MCDistance == [xy \in Content \X Content |-> Bitcount(xy[1], xy[2])]

\* Transactions overlap only where two URLs and two bodies are fetched; one at a time,
\* three of each.
Fetched(f) == {fetches[g][f] : g \in Fetch}
SmallOverlaps ==
  overlapped => Cardinality(Fetched("url")) <= 2 /\ Fetched("body") \subseteq {ba, bc}

Symmetry == Permutations(Url) \cup Permutations(Worker)
=============================================================================
