---------------------------- MODULE PoliteFetch ----------------------------
(***************************************************************************)
(* How one worker process fetches pages: ProcessPage calls asking the      *)
(* robots guard, which keeps one shared answer per origin and fetches it   *)
(* in the background, and the fetcher, which hands out the start times of  *)
(* the requests to a host.  Times are relative to now: a wait counts down, *)
(* so that time needs no bound.  An instant in which a request is due does *)
(* not pass before the request is sent: a timer is taken to be exact.      *)
(***************************************************************************)
EXTENDS RobotsAnswers

vars == <<cache, entry, task, domain, rest, crowded>>

Init ==
  /\ cache = [o \in Origin |-> "none"]
  /\ entry = [e \in Entry |-> Unused]
  /\ task = [t \in Task |-> NoCall]
  /\ domain = [h \in Host |-> Free]
  /\ rest = [h \in Host |-> 0]
  /\ crowded = {}

Ready(e) == entry[e].step = "ready"
\* Entries nobody refers to any more are the garbage collector's.
Kept(entries, caches, tasks) ==
  [e \in Entry |-> IF (\E o \in Origin : caches[o] = e) \/ (\E t \in Task : tasks[t].entry = e)
                   THEN entries[e] ELSE Unused]
\* The call returns: a result, or an error for Temporal to retry.
Return(t) ==
  LET tasks == [task EXCEPT ![t] = NoCall] IN
  task' = tasks /\ entry' = Kept(entry, cache, tasks)

-----------------------------------------------------------------------------
(* The fetcher's start times *)

\* domainState: kept state, now used, or a new one with the default delay.
DomainState(h) ==
  IF domain[h].delay >= 0 THEN [domain[h] EXCEPT !.idle = 0]
  ELSE [Free EXCEPT !.delay = PolitenessDelay]

\* waitForDomain takes the next free start time, under state.mu.
ReservedFromNow(h) == LET s == DomainState(h) IN [s EXCEPT !.next = s.delay]
Reserved(h) == LET s == DomainState(h) IN [s EXCEPT !.next = s.next + s.delay]
Reserve(h) ==
  LET until == DomainState(h).next + DomainState(h).delay IN
  /\ domain' = [domain EXCEPT ![h] = Reserved(h)]
  /\ rest' = [rest EXCEPT ![h] = Most(@, until)]
  /\ crowded' = IF until > HostStateIdle THEN crowded \cup {h} ELSE crowded
Slot(actor, h) == [actor EXCEPT !.step = "slot", !.wait = DomainState(h).next,
                                !.gap = DomainState(h).delay]

SetHostDelay(h, delay) ==
  domain' = [domain EXCEPT ![h] =
    [DomainState(h) EXCEPT !.delay = Most(delay, PolitenessDelay)]]

\* Another host needs room in a full table: a host nobody has looked up for half an hour
\* loses its state, start times ahead included.
EvictHost(h) ==
  /\ domain[h].delay >= 0 /\ domain[h].idle > HostStateIdle
  /\ domain' = [domain EXCEPT ![h] = Free]
  /\ UNCHANGED <<cache, entry, task, rest, crowded>>

-----------------------------------------------------------------------------
(* The robots guard *)

Start(t, p) ==
  /\ task[t].step = "idle" /\ \A u \in Task : task[u].step # "reading"
  /\ LET c == cache[OriginOf[p]] IN
     task' = [task EXCEPT ![t] = [NoCall EXCEPT !.step = "reading", !.page = p,
       !.stale = c = "none" \/ entry[c].expires < 0,
       !.late = c # "none" /\ Ready(c) /\ entry[c].age > CacheTTL]]
  /\ UNCHANGED <<cache, entry, domain, rest, crowded>>

\* rulesFor, second half: expires was read while the fill may be writing it.
Stale(t, e) == e = "none" \/ (task[t].stale /\ Ready(e))

Hit(t, e) ==
  /\ task' = [task EXCEPT ![t].step = "waiting", ![t].entry = e, ![t].stale = FALSE]
  /\ UNCHANGED <<cache, entry>>
Miss(t, e) ==
  /\ cache' = [cache EXCEPT ![PageOrigin(t)] = e]
  /\ task' = [task EXCEPT ![t].step = "waiting", ![t].entry = e, ![t].stale = FALSE,
                          ![t].late = FALSE]
  /\ entry' = Kept([entry EXCEPT ![e] = [Unused EXCEPT !.step = "asking",
                                          !.origin = PageOrigin(t)]],
                   cache', task')

RulesFor(t) ==
  /\ task[t].step = "reading"
  /\ LET e == cache[PageOrigin(t)] IN
     IF Stale(t, e) THEN Miss(t, CHOOSE x \in Entry : entry[x].step = "free") ELSE Hit(t, e)
  /\ UNCHANGED <<domain, rest, crowded>>

\* The caller's context ends: it gives up the answer, or a start time that
\* stays taken, or the request.
Gives(t) ==
  \/ task[t].step \in {"waiting", "sent"}
  \/ task[t].step = "slot" /\ domain[PageHost(t)].next <= MaxQueue
GiveUpForAll(t) ==
  LET tasks == [task EXCEPT ![t] = NoCall] IN
  /\ Gives(t) /\ task' = tasks
  /\ entry' = Kept([e \in Entry |->
       IF task[t].entry = e /\ entry[e].step \in {"asking", "slot", "sent"}
       THEN [entry[e] EXCEPT !.step = "answered", !.answer = NoFile("unreachable")]
       ELSE entry[e]], cache, tasks)
  /\ UNCHANGED <<cache, domain, rest, crowded>>
GiveUp(t) ==
  /\ Gives(t)
  /\ Return(t) /\ UNCHANGED <<cache, domain, rest, crowded>>

\* ProcessPage goes on from the guard's answer: no answer is returned as an
\* error to retry, or recorded when it is permanent; a page the file keeps
\* from crawlers is skipped.
Clears(a, p) == a.kind = "unavailable" \/ (a.kind = "file" /\ p \in a.allow)
Answered(t) ==
  LET e == task[t].entry IN
  /\ task[t].step = "waiting" /\ Ready(e)
  /\ IF Clears(entry[e].answer, task[t].page)
     THEN task' = [task EXCEPT ![t].step = "cleared"] /\ UNCHANGED entry
     ELSE Return(t)
  /\ UNCHANGED <<cache, domain, rest, crowded>>

-----------------------------------------------------------------------------
(* fill: the background fetch of an origin's robots.txt *)

FillReserve(e) ==
  /\ entry[e].step = "asking"
  /\ entry' = [entry EXCEPT ![e] = Slot(entry[e], HostOfEntry(e))]
  /\ Reserve(HostOfEntry(e)) /\ UNCHANGED <<cache, task>>
FillSend(e) ==
  /\ entry[e].step = "slot" /\ entry[e].wait = 0
  /\ entry' = [entry EXCEPT ![e].step = "sent", ![e].gap = PolitenessDelay]
  /\ UNCHANGED <<cache, task, domain, rest, crowded>>

ExpiryLate(a) == CacheTTL + 1
Expiry(a) == IF a.kind = "unreachable" THEN UnreachableTTL ELSE CacheTTL

\* What the site answers within the request timeout, and what the entry gets of it:
\* a file, 4xx, or neither (5xx, 429, network failure, refused address).
Said == Files \cup {<<NoFile(k), NoFile(k)>> : k \in {"unavailable", "unreachable"}}
SiteAnswers(e, a) ==
  /\ entry[e].step = "sent"
  /\ entry' = [entry EXCEPT ![e].step = "answered", ![e].said = a[1], ![e].answer = a[2],
                            ![e].expires = Expiry(a[2]), ![e].age = 0]
  /\ UNCHANGED <<cache, task, domain, rest, crowded>>

FillDelay(e) ==
  /\ entry[e].step = "answered"
  /\ SetHostDelay(HostOfEntry(e), Least(entry[e].answer.delay, MaxCrawlDelay))
  /\ entry' = [entry EXCEPT ![e].step = "applied", ![e].applied = TRUE]
  /\ UNCHANGED <<cache, task, rest, crowded>>
FillCloseQuiet(e) ==
  /\ entry[e].step = "applied" /\ entry[e].answer.kind # "unreachable"
  /\ entry' = [entry EXCEPT ![e].step = "ready"]
  /\ UNCHANGED <<cache, task, domain, rest, crowded>>
FillClose(e) ==
  /\ entry[e].step = "applied"
  /\ entry' = [entry EXCEPT ![e].step = "ready"]
  /\ UNCHANGED <<cache, task, domain, rest, crowded>>

-----------------------------------------------------------------------------
(* The page itself *)

Reserving(t) ==
  /\ task[t].step = "cleared"
  /\ task' = [task EXCEPT ![t] = Slot(task[t], PageHost(t))]
  /\ Reserve(PageHost(t)) /\ UNCHANGED <<cache, entry>>
Send(t) ==
  /\ task[t].step = "slot" /\ task[t].wait = 0
  /\ task' = [task EXCEPT ![t].step = "sent", ![t].gap = PolitenessDelay]
  /\ UNCHANGED <<cache, entry, domain, rest, crowded>>

\* A response or a network error within the request timeout.
Response(t) ==
  /\ task[t].step = "sent" /\ Return(t)
  /\ UNCHANGED <<cache, domain, rest, crowded>>
\* The client follows a redirect itself: no robots check, no start time taken.
Redirected(t, p) ==
  /\ task[t].step = "sent"
  /\ IF task[t].hops = MaxRedirects THEN Return(t)
     ELSE task' = [task EXCEPT ![t].page = p, ![t].hops = @ + 1] /\ UNCHANGED entry
  /\ UNCHANGED <<cache, domain, rest, crowded>>

-----------------------------------------------------------------------------
Down(n) == Most(n - 1, 0)
Due(a) == a.step = "slot" /\ a.wait = 0
Tick ==
  /\ ~\E e \in Entry : Due(entry[e])
  /\ ~\E t \in Task : Due(task[t])
  /\ entry' = [e \in Entry |-> [entry[e] EXCEPT !.wait = Down(@),
       !.expires = Most(@ - 1, -1),
       !.age = IF entry[e].step \in {"answered", "applied", "ready"}
               THEN Least(@ + 1, CacheTTL + 1) ELSE 0]]
  /\ task' = [t \in Task |-> [task[t] EXCEPT !.wait = Down(@)]]
  /\ domain' = [h \in Host |-> [domain[h] EXCEPT !.next = Down(@),
       !.idle = IF domain[h].delay < 0 THEN 0 ELSE Least(@ + 1, HostStateIdle + 1)]]
  /\ rest' = [h \in Host |-> Down(rest[h])]
  /\ crowded' = {h \in crowded : Down(rest[h]) > 0}
  /\ UNCHANGED cache

Fill(e) == FillReserve(e) \/ FillSend(e) \/ FillDelay(e) \/ FillClose(e)
Answers(e) == \E a \in Said : SiteAnswers(e, a)
Proceed(t) == RulesFor(t) \/ Answered(t) \/ Reserving(t) \/ Send(t)

Next ==
  \/ \E t \in Task : Proceed(t) \/ Response(t) \/ GiveUp(t)
  \/ \E t \in Task, p \in URL : Start(t, p) \/ Redirected(t, p)
  \/ \E e \in Entry : Fill(e) \/ Answers(e)
  \/ \E h \in Host : EvictHost(h)
  \/ Tick

\* Goroutines run, sites answer or the request timeout does, time passes.
Fairness ==
  /\ \A t \in Task : WF_vars(Proceed(t)) /\ WF_vars(Response(t))
  /\ \A e \in Entry : WF_vars(Fill(e)) /\ WF_vars(Answers(e))
  /\ WF_vars(Tick)
Spec == Init /\ [][Next]_vars /\ Fairness

-----------------------------------------------------------------------------
\* No ProcessPage call hangs: every fill answers its waiters, errors included,
\* and every start time comes (fill's deferred close, waitForDomain's timer).
FetchesEnd ==
  \A t \in Task : task[t].step = "reading" ~> task[t].step = "idle"

\* The words of README.md:12 ("robots.txt-compliant"): no page is asked for that its
\* origin's robots.txt, as read, does not allow -- redirect targets included.  (False: the
\* client follows a redirect without asking.)
TargetsAreAllowed ==
  \A t \in Task : task[t].step = "sent" =>
    LET e == entry[task[t].entry] IN
    e.said.kind = "file" => task[t].page \in e.said.allow

\* The words of scraper/README.md:32 ("Crawl-delay is honored ... by spacing the fetcher's
\* requests to the host"): a page's start time is taken with at least the delay of the
\* answer it was cleared by in force.  (False: an evicted host loses its delay.)
CrawlDelayInForce ==
  \A t \in Task : task[t].step = "slot" =>
    task[t].gap >= Least(entry[task[t].entry].answer.delay, MaxCrawlDelay)
=============================================================================
