------------------------------- MODULE MCRuns -------------------------------
(* Four hosts for CrawlRuns, ranked by priority, then by first appearance. *)
EXTENDS CrawlRuns

MCSeeds == <<[host |-> "a", priority |-> 0], [host |-> "b", priority |-> 1],
             [host |-> "a", priority |-> 1], [host |-> "c", priority |-> 0],
             [host |-> "d", priority |-> 0]>>

\* What groupSeedsByHost makes of them.
ASSUME Groups = <<"a", "b", "c", "d">>
=============================================================================
