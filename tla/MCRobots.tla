------------------------------ MODULE MCRobots ------------------------------
(***************************************************************************)
(* The files a site of the run Fetch may answer with.                      *)
(***************************************************************************)
EXTENDS RobotsRules

\* One page.
MCURL == {"p1"}
MCTargetOf == [p \in MCURL |-> <<"/", "a", "e">>]

\* Groups of the crawler, of all and of others, patterns that match and do not, in
\* two lengths that tie; every file has the same delay for the crawler, after all.
Agents == [key : {"user-agent"}, val : {"pgs", "*", "other"}]
Rules == [key : {"allow", "disallow"}, val : {<<"a">>, <<"*", "n", "$">>}] \cup
         [key : {"allow"}, val : {<<"/", "*", "/">>}] \cup [key : {"disallow"}, val : {<<"/">>, <<>>}]
Others == [key : {"crawl-delay"}, val : {1, 3}] \cup [key : {"sitemap"}, val : {<<"/">>}]
Slow == [key |-> "crawl-delay", val |-> 3]
MCRobotsTxt ==
  {lines \in [1 .. 5 -> Agents \cup Rules \cup Others] :
     lines[1] \in Agents /\ Slow \in ToSet(lines) /\ DelayOf(lines) = 3}
AllFiles == FilesOf(MCRobotsTxt, MCTargetOf)
=============================================================================
