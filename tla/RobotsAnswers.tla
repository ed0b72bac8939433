--------------------------- MODULE RobotsAnswers ---------------------------
(***************************************************************************)
(* The state of one worker process that fetches pages, and what a page     *)
(* request and a lookup of robots.txt go by: the answers of the robots     *)
(* guard, one per origin and shared by its callers, and the start times    *)
(* the fetcher has handed out for the requests to a host.  PoliteFetch has *)
(* the steps.                                                              *)
(***************************************************************************)
EXTENDS Integers, FiniteSets

CONSTANTS
  Task,            \* ProcessPage calls running at once
  Entry,           \* identities of cached answers: one more than can be in use
  URL, Origin, Host,
  OriginOf,        \* origin of a page
  HostOf,          \* host of an origin: two schemes or ports share one
  Files,           \* what a site may say: <<a file as RFC 9309 means it, as the guard reads it>>
  MaxCrawlDelay,   \* DefaultMaxCrawlDelay
  PolitenessDelay, \* Options.PolitenessDelay: 0 in cmd/worker
  CacheTTL, UnreachableTTL,
  HostStateIdle,   \* hostStateIdle: half an hour
  MaxRedirects,
  MaxQueue         \* bound: no caller gives up its start time while more is handed out

VARIABLES
  cache,   \* Guard.cache: the entry of an origin, "none"
  entry,   \* entry records; a fill runs from "asking" to "ready"
  task,    \* ProcessPage calls
  domain,  \* Fetcher.domains: domainState, delay -1: none kept; idle: time since used
  rest,    \* history: time until every start time taken on a host is its delay ago
  crowded  \* history: hosts with start times handed out for more than hostStateIdle ahead

\* Delays that files ask for.
CrawlDelay == {f[2].delay : f \in Files}

\* Finitely many calls, and an entry for each that can be in use; no file has a negative delay.
IsPolite ==
  /\ OriginOf \in [URL -> Origin] /\ HostOf \in [Origin -> Host]
  /\ {MaxCrawlDelay, PolitenessDelay, HostStateIdle, MaxRedirects, MaxQueue} \subseteq Nat
  /\ {CacheTTL, UnreachableTTL} \subseteq Nat \ {0}
  /\ UnreachableTTL <= CacheTTL
  /\ "none" \notin Entry \cup Host /\ Task \cap Entry = {}
  /\ IsFiniteSet(Task) /\ IsFiniteSet(Origin) /\ IsFiniteSet(Entry)
  /\ Cardinality(Entry) >= Cardinality(Task) + Cardinality(Origin)
  /\ CrawlDelay \subseteq Nat
ASSUME PoliteAssumption == IsPolite

Least(a, b) == IF a < b THEN a ELSE b
Most(a, b) == IF a < b THEN b ELSE a
Delay == {Most(PolitenessDelay, Least(d, MaxCrawlDelay)) : d \in CrawlDelay \cup {0}}

NoFile(k) == [kind |-> k, allow |-> {}, delay |-> 0]
Answer ==
  (UNION {{f[1], f[2]} : f \in Files}) \cup {NoFile(k) : k \in {"pending", "unavailable", "unreachable"}}
Pending == NoFile("pending")

Unused == [step |-> "free", origin |-> "none", wait |-> 0, gap |-> PolitenessDelay,
           answer |-> Pending, said |-> Pending, expires |-> -1, age |-> 0,
           applied |-> FALSE]
Free == [delay |-> -1, next |-> 0, idle |-> 0]
NoCall == [step |-> "idle", page |-> "none", entry |-> "none", stale |-> FALSE, wait |-> 0,
         gap |-> PolitenessDelay, hops |-> 0, late |-> FALSE]

FetcherTyped ==
  /\ cache \in [Origin -> Entry \cup {"none"}]
  /\ entry \in [Entry ->
       [step : {"free", "asking", "slot", "sent", "answered", "applied", "ready"},
        origin : Origin \cup {"none"}, wait : Nat,
        gap : Delay, answer : Answer, said : Answer, expires : -1 .. CacheTTL, age : 0 .. CacheTTL + 1,
        applied : BOOLEAN]]
  /\ task \in [Task ->
       [step : {"idle", "reading", "waiting", "cleared", "slot", "sent"},
        page : URL \cup {"none"}, entry : Entry \cup {"none"}, stale : BOOLEAN, wait : Nat,
        gap : Delay, hops : 0 .. MaxRedirects, late : BOOLEAN]]
  /\ domain \in [Host -> [delay : Delay \cup {-1}, next : Nat, idle : 0 .. HostStateIdle + 1]]
  /\ rest \in [Host -> Nat] /\ crowded \subseteq Host

HostOfEntry(e) == HostOf[entry[e].origin]
PageOrigin(t) == OriginOf[task[t].page]
PageHost(t) == HostOf[PageOrigin(t)]

-----------------------------------------------------------------------------
Filling(e) == entry[e].step \in {"asking", "slot", "sent", "answered", "applied"}

\* A page is asked for only on the word of its origin's robots.txt: the answer
\* names the page, was no older than a day when it was looked up, and its
\* Crawl-delay had been passed to the fetcher before the start time was taken
\* (rulesFor's expiry, fill closing ready last, ProcessPage's early returns).
PagesAreAllowed ==
  \A t \in Task :
    task[t].step \in {"cleared", "slot", "sent"} /\ task[t].hops = 0 =>
      LET e == entry[task[t].entry] IN
      /\ e.origin = PageOrigin(t) /\ e.applied /\ ~task[t].late
      /\ \/ e.said.kind = "file" /\ task[t].page \in e.said.allow
         \/ e.said.kind = "unavailable"

\* Concurrent lookups of an origin share one fetch, and what they are told is
\* what the site said, by RFC 9309: a caller that gives up fails nobody else, and a
\* file is read as it is meant (Guard, rulesFor's cache check, fill's
\* context.WithoutCancel, parse and allowed).
SharedFetch ==
  /\ \A e, f \in Entry :
       Filling(e) /\ Filling(f) /\ entry[e].origin = entry[f].origin => e = f
  /\ \A e \in Entry :
       entry[e].step \in {"answered", "applied", "ready"} => entry[e].answer = entry[e].said

\* What a page request and a lookup of robots.txt go by.
AnswersHold == PagesAreAllowed /\ SharedFetch

\* URL and robots.txt requests to one host start at least the delay apart that
\* was in force when the earlier took its start time, however many callers took theirs at
\* once or gave up: when a request goes out its own delay is still to come, and a start time
\* is taken only after all earlier ones have been left their delay.  An evicted state takes
\* its start times with it: the second half is for a host that has not had them handed out
\* for longer ahead than its state is kept (waitForDomain, domainState; hops of a redirect apart).
Takes(a, b) == a.step # "slot" /\ b.step = "slot"
Sends(a, b) == a.step = "slot" /\ b.step = "sent"
Spaced ==
  [][/\ \A t \in Task :
          /\ Takes(task[t], task'[t]) /\ PageHost(t) \notin crowded =>
               rest[PageHost(t)] <= task'[t].wait
          /\ Sends(task[t], task'[t]) => task[t].gap <= rest[PageHost(t)]
     /\ \A e \in Entry :
          /\ Takes(entry[e], entry'[e]) /\ HostOfEntry(e) \notin crowded =>
               rest[HostOfEntry(e)] <= entry'[e].wait
          /\ Sends(entry[e], entry'[e]) => entry[e].gap <= rest[HostOfEntry(e)]]_<<entry, task>>
=============================================================================
