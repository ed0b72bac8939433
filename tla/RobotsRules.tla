---------------------------- MODULE RobotsRules ----------------------------
(***************************************************************************)
(* What the scraper reads out of a robots.txt, and what RFC 9309 says of   *)
(* it.  A file is a sequence of lines [key, val]; comments and lines       *)
(* without a colon are not in it.  A path is a sequence of characters:     *)
(* "n" stands for one byte beyond ASCII, "e" and "E" for its percent-      *)
(* escape with lower and upper case digits, any other for itself.          *)
(***************************************************************************)
EXTENDS Integers, FiniteSets, SequencesExt

CONSTANT UserAgent    \* product token of the crawler, in lower case

NormalizeEscapes(path) == [i \in DOMAIN path |-> IF path[i] \in {"n", "e"} THEN "E" ELSE path[i]]
NormalizePattern(path) ==
  NormalizeEscapes(IF path[1] \in {"/", "*"} THEN path ELSE <<"/">> \o path)

\* len(pattern): an escape has three characters.
Length(pattern) ==
  FoldLeft(LAMBDA n, c : n + IF c = "E" THEN 3 ELSE 1, 0, pattern)

\* The loop of match: single-star backtracking.
Wildcard(pattern, target) ==
  LET Star(p) == p <= Len(pattern) /\ pattern[p] = "*"
      scan[s \in Nat \X Nat \X Nat \X Nat] ==
        LET p == s[1]  t == s[2]  star == s[3]  mark == s[4] IN
        IF t > Len(target) THEN \A i \in p .. Len(pattern) : Star(i)
        ELSE IF Star(p) THEN scan[<<p + 1, t, p, t>>]
        ELSE IF p <= Len(pattern) /\ pattern[p] = target[t]
             THEN scan[<<p + 1, t + 1, star, mark>>]
        ELSE star > 0 /\ scan[<<star + 1, mark + 1, star, mark + 1>>]
  IN scan[<<1, 1, 0, 0>>]

Match(pattern, target) ==
  LET anchored == Last(pattern) = "$"
      path == IF anchored THEN Front(pattern) ELSE pattern
  IN IF "*" \in ToSet(path)
     THEN Wildcard(IF anchored THEN path ELSE Append(path, "*"), target)
     ELSE IF anchored THEN target = path ELSE IsPrefix(path, target)

\* One line of parse's scan: groups so far, and whether the last one is still open.
Member(s, group) ==
  [groups |-> IF s.groups = <<>> THEN <<>> ELSE Append(Front(s.groups), group), inAgentLines |-> FALSE]
ParseLine(s, line) ==
  LET current == Last(s.groups) IN
  CASE line.key = "user-agent" ->
         [groups |-> IF s.inAgentLines
            THEN Append(Front(s.groups), [current EXCEPT !.agents = @ \cup {line.val}])
            ELSE Append(s.groups, [agents |-> {line.val}, rules |-> <<>>, delay |-> 0]),
          inAgentLines |-> TRUE]
    [] line.key \in {"allow", "disallow"} ->
         Member(s, IF line.val = <<>> THEN current
                   ELSE [current EXCEPT !.rules = Append(@,
                     [pattern |-> NormalizePattern(line.val), allow |-> line.key = "allow"])])
    [] line.key = "crawl-delay" ->
         Member(s, [current EXCEPT !.delay = IF line.val > @ THEN line.val ELSE @])
    [] OTHER -> s

\* collect: the rules of the groups of an agent, in order.
Collect(groups, agent) ==
  LET of == SelectSeq(groups, LAMBDA g : agent \in g.agents) IN
  [rules |-> FlattenSeq([i \in DOMAIN of |-> of[i].rules]),
   crawlDelay |-> FoldLeft(LAMBDA d, g : IF g.delay > d THEN g.delay ELSE d, 0, of),
   found |-> of # <<>>]
Parse(lines) ==
  LET groups == FoldLeft(ParseLine, [groups |-> <<>>, inAgentLines |-> FALSE], lines).groups
      own == Collect(groups, UserAgent)
  IN IF UserAgent = "" \/ ~own.found THEN Collect(groups, "*") ELSE own

\* allowed: the longest match wins, Allow wins a tie.
Allowed(rules, target) ==
  FoldLeft(LAMBDA best, r :
    IF /\ Match(r.pattern, target)
       /\ \/ Length(r.pattern) > best.len
          \/ Length(r.pattern) = best.len /\ r.allow
    THEN [len |-> Length(r.pattern), allowed |-> r.allow] ELSE best,
    [len |-> -1, allowed |-> TRUE], rules).allowed

-----------------------------------------------------------------------------
(* The same by RFC 9309, without a loop.                                   *)

\* Ends of the pattern's characters in the target.
Matches(pattern, target) ==
  LET anchored == pattern[Len(pattern)] = "$"
      n == IF anchored THEN Len(pattern) - 1 ELSE Len(pattern)
  IN \E end \in [0 .. n -> 0 .. Len(target)] :
       /\ end[0] = 0 /\ (anchored => end[n] = Len(target))
       /\ \A i \in 1 .. n :
            IF pattern[i] = "*" THEN end[i] >= end[i - 1]
            ELSE end[i] = end[i - 1] + 1 /\ target[end[i]] = pattern[i]

IsMember(line) == line.key \in {"allow", "disallow", "crawl-delay"}
\* Line i belongs to the agent that line j names.
Governs(lines, j, i) ==
  /\ j < i /\ lines[j].key = "user-agent" /\ IsMember(lines[i])
  /\ \A l, k \in j + 1 .. i - 1 : l < k /\ IsMember(lines[l]) => lines[k].key # "user-agent"

AgentOf(lines) ==
  IF \E j \in DOMAIN lines : lines[j].key = "user-agent" /\ lines[j].val = UserAgent
  THEN UserAgent ELSE "*"
Governing(lines) ==
  {i \in DOMAIN lines :
     \E j \in DOMAIN lines : Governs(lines, j, i) /\ lines[j].val = AgentOf(lines)}

Permits(lines, target) ==
  LET Size(i) == Length(NormalizePattern(lines[i].val))
      matching == {i \in Governing(lines) :
        /\ lines[i].key # "crawl-delay" /\ lines[i].val # <<>>
        /\ Matches(NormalizePattern(lines[i].val), target)}
      longest == {i \in matching : \A j \in matching : Size(j) <= Size(i)}
  IN matching = {} \/ \E i \in longest : lines[i].key = "allow"
DelayOf(lines) ==
  LET delays == {lines[i].val : i \in {k \in Governing(lines) : lines[k].key = "crawl-delay"}}
  IN CHOOSE d \in delays \cup {0} : \A x \in delays \cup {0} : x <= d

-----------------------------------------------------------------------------
(* Files a site may answer with, for the paths of its pages: what each     *)
(* says and what the guard makes of it.                                    *)
MatchTarget(path) == NormalizeEscapes(path)
Read(lines, targetOf) ==
  LET file == Parse(lines) IN
  [kind |-> "file",
   allow |-> {p \in DOMAIN targetOf : Allowed(file.rules, MatchTarget(targetOf[p]))},
   delay |-> file.crawlDelay]
Meant(lines, targetOf) ==
  [kind |-> "file",
   allow |-> {p \in DOMAIN targetOf : Permits(lines, MatchTarget(targetOf[p]))},
   delay |-> DelayOf(lines)]
FilesOf(texts, targetOf) == {<<Meant(lines, targetOf), Read(lines, targetOf)>> : lines \in texts}
=============================================================================
