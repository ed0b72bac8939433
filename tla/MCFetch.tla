------------------------------ MODULE MCFetch ------------------------------
EXTENDS MCRobots, PoliteFetch

\* One origin.
MCOriginOf == [p \in URL |-> "https"]
MCHostOf == [o \in Origin |-> "h"]
MCFiles == AllFiles
=============================================================================
