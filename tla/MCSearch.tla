------------------------------ MODULE MCSearch ------------------------------
\* Four documents: one ranked by both retrievers, one by vectors only, one of them
\* not in the index yet; the translated variant finds one more.
EXTENDS SearchService

MCDoc == {"both", "text", "vector", "unindexed"}
MCIndexed == MCDoc \ {"unindexed"}
MCLexical == [t \in BOOLEAN |-> IF t THEN <<"text", "both">> ELSE <<"both">>]
MCVectors == <<"vector", "unindexed", "both">>
MCScore == [d \in MCDoc |-> IF d = "vector" THEN 2 ELSE 1]
=============================================================================
