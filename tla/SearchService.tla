--------------------------- MODULE SearchService ---------------------------
(***************************************************************************)
(* A search from the API's gRPC client through the search engine's server  *)
(* and pipeline: one attempt and at most one retry under one deadline; a   *)
(* server that holds a limited number of RPCs, works on fewer and drains   *)
(* before it stops; a pipeline of one required stage (BM25) and optional   *)
(* ones, of which the translation runs on a pool of its own.  Handlers are *)
(* not interrupted: one whose client is gone runs to its end.              *)
(***************************************************************************)
EXTENDS SearchAnswers

vars == <<call, rpc, future, life, grace, restarts>>
server == <<life, grace, restarts>>

Init ==
  /\ call = [c \in Call |-> NotCalled]
  /\ rpc = [h \in Attempt |-> NoRpc] /\ future = [h \in Attempt |-> "none"]
  /\ life = "down" /\ grace = 0 /\ restarts = 0

-----------------------------------------------------------------------------
(* The gateway's client *)

Search(c, p) ==
  /\ call[c].at = "idle" /\ \A d \in Call : d < c => call[d].at # "idle"
  /\ call' = [call EXCEPT ![c].at = "sending", ![c].attempt = 1, ![c].page = p]
  /\ UNCHANGED <<rpc, future, server>>

Answer(http) == [NotCalled EXCEPT !.at = "answered", !.http = http]
Answered(c, http) == [call EXCEPT ![c] = Answer(http)]
\* retryPolicy: a second attempt, unless the throttle is out of tokens.
Unavailable(c) ==
  \/ call' = Answered(c, 503)
  \/ call[c].attempt = 1 /\ call' = [call EXCEPT ![c].at = "sending", ![c].attempt = 2]

Working == {h \in Handlers : rpc[h].at # "queued"}
Accepts == life = "up"
Send(c) ==
  /\ call[c].at = "sending"
  /\ LET h == <<c, call[c].attempt>> IN
     \/ /\ Accepts /\ Cardinality(Handlers) < 2 * Workers
        /\ rpc' = [rpc EXCEPT ![h] = [NoRpc EXCEPT !.at = "queued", !.page = call[c].page,
                                                  !.left = call[c].left]]
        /\ call' = [call EXCEPT ![c].at = "waiting"]
     \/ /\ Accepts /\ Cardinality(Handlers) >= 2 * Workers  \* RESOURCE_EXHAUSTED
        /\ call' = Answered(c, 502) /\ UNCHANGED rpc
     \/ ~Accepts /\ Unavailable(c) /\ UNCHANGED rpc
  /\ UNCHANGED <<future, server>>

\* The connection breaks; the handler does not notice.
Disconnect(c) ==
  /\ call[c].at = "waiting" /\ Unavailable(c)
  /\ UNCHANGED <<rpc, future, server>>

Pending(c) == call[c].at \in {"sending", "waiting"}
DeadlinePasses(c) ==
  /\ Pending(c) /\ call[c].left = 0 /\ call' = Answered(c, 504)
  /\ UNCHANGED <<rpc, future, server>>

\* Time passes for the clients, the handlers and a draining server alike.
Less(n) == Max({n - 1, 0})
Tick ==
  /\ \A c \in Call : Pending(c) => call[c].left > 0
  /\ \/ \E c \in Call : Pending(c)
     \/ \E h \in Handlers : rpc[h].left > 0
     \/ life = "draining" /\ grace > 0
  /\ call' = [c \in Call |-> IF Pending(c) THEN [call[c] EXCEPT !.left = Less(@)] ELSE call[c]]
  /\ rpc' = [h \in Attempt |-> [rpc[h] EXCEPT !.left = Less(@)]]
  /\ grace' = Less(grace) /\ UNCHANGED <<future, life, restarts>>

-----------------------------------------------------------------------------
(* The pipeline *)

\* The rpc leaves with a status; its client hears of it if it still waits for it.
Listens(h) == call[h[1]].at = "waiting" /\ call[h[1]].attempt = h[2] /\ call[h[1]].left > 0
Reply(h, http) ==
  /\ rpc' = [rpc EXCEPT ![h] = NoRpc]
  /\ call' = IF Listens(h) THEN Answered(h[1], http) ELSE call
Respond(h, ending) ==
  /\ rpc' = [rpc EXCEPT ![h] = NoRpc]
  /\ call' = IF ~Listens(h) THEN call
             ELSE [Answered(h[1], 200) EXCEPT ![h[1]].degraded = Degraded(ending.stages),
                                              ![h[1]].hurt = ending.hurt]
\* An UNAVAILABLE from the handler is retried like any other.
ReplyUnavailable(h) ==
  /\ rpc' = [rpc EXCEPT ![h] = NoRpc]
  /\ IF Listens(h) THEN Unavailable(h[1]) ELSE UNCHANGED call
Left(h) == rpc[h].left
Goto(h, step) == [rpc EXCEPT ![h].at = step]
\* A stage's status, and whether it failed or was cut, as the code records and as it was.
Marked(h, step, s, status, fault) ==
  [rpc[h] EXCEPT !.at = step, !.stages[s] = status, !.hurt = @ \/ fault]
Mark(h, step, s, status, fault) == rpc' = [rpc EXCEPT ![h] = Marked(h, step, s, status, fault)]

\* A free thread takes an rpc, unless its client is gone: validate, expand, and start
\* the translation on its pool.
Begin(h) ==
  /\ At(h, "queued") /\ Cardinality(Working) < Workers
  /\ \/ ~(call[h[1]].at = "waiting" /\ call[h[1]].attempt = h[2])
        /\ rpc' = [rpc EXCEPT ![h] = NoRpc] /\ UNCHANGED <<call, future>>
     \/ ~Valid(PageOf(h)) /\ Reply(h, 400) /\ UNCHANGED future
     \/ /\ Valid(PageOf(h)) /\ rpc' = Goto(h, "dense") /\ UNCHANGED call
        /\ \E f \in {"none", "running"} : future' = [future EXCEPT ![h] = f]
  /\ UNCHANGED server

DenseSilent(h) ==
  /\ At(h, "dense")
  /\ \/ Left(h) >= MinForDense /\ Mark(h, "translation", "dense", "ok", FALSE)
     \/ Mark(h, "translation", "dense", "skipped", TRUE)
  /\ UNCHANGED <<call, future, server>>
\* _dense: refused when little time is left; otherwise it takes what it takes.
Dense(h) ==
  /\ At(h, "dense")
  /\ \/ Left(h) >= MinForDense /\ Mark(h, "translation", "dense", "ok", FALSE)
     \/ Mark(h, "translation", "dense", "failed", TRUE)
  /\ UNCHANGED <<call, future, server>>

TranslationEnds(h) ==
  /\ future[h] = "running"
  /\ \E f \in {"ok", "failed"} : future' = [future EXCEPT ![h] = f]
  /\ UNCHANGED <<call, rpc, server>>

\* _finish_translation: not applicable, in time, failed, or too slow and left alone.
FinishTranslation(h) ==
  /\ At(h, "translation")
  /\ IF future[h] \in {"ok", "failed"}
     THEN Mark(h, "bm25", "translation", future[h], future[h] = "failed")
     ELSE Mark(h, "bm25", "translation", "skipped", FALSE)
  /\ future' = [future EXCEPT ![h] = "none"] /\ UNCHANGED <<call, server>>

Bm25Waits(h) ==
  /\ At(h, "bm25") /\ Left(h) > 0
  /\ \/ rpc' = Goto(h, "merge") /\ UNCHANGED call
     \/ ReplyUnavailable(h)
     \/ \E http \in {502, 504} : Reply(h, http)
  /\ UNCHANGED <<future, server>>
\* _bm25: required, within what is left of the deadline and within OpenSearch's own timeout.
Bm25(h) ==
  /\ At(h, "bm25")
  /\ \/ Left(h) > 0 /\ rpc' = Goto(h, "merge") /\ UNCHANGED call
     \/ Reply(h, 504)
     \/ Left(h) > 0 /\ ReplyUnavailable(h)
     \/ Left(h) > 0 /\ Reply(h, 502)  \* refused by OpenSearch: INTERNAL
  /\ UNCHANGED <<future, server>>

\* What the pipeline asks of an outcome of its stages and a page.
NeedsMetadata == Listed({x \in Outcome : Missing(x[1], x[2]) # {}})
HasCandidates == Listed({x \in Outcome : Merged(x[1], x[2]) # <<>>})

\* One mget for the dense-only candidates; its failure leaves them out.
Merge(h) ==
  /\ At(h, "merge")
  /\ \/ <<rpc[h].stages, PageOf(h)>> \notin NeedsMetadata /\ rpc' = Goto(h, "rerank")
     \/ /\ <<rpc[h].stages, PageOf(h)>> \in NeedsMetadata
        /\ \/ Mark(h, "rerank", "hydrate", "ok", FALSE)
           \/ Mark(h, "rerank", "hydrate", "failed", TRUE)
  /\ UNCHANGED <<call, future, server>>

\* The reranker, where there is something to rank, and the answer.
Rerank(h) ==
  /\ At(h, "rerank")
  /\ IF <<rpc[h].stages, PageOf(h)>> \notin HasCandidates THEN Respond(h, rpc[h])
     ELSE \/ Respond(h, Marked(h, "rerank", "rerank", "ok", FALSE))
          \/ Respond(h, Marked(h, "rerank", "rerank", "failed", TRUE))
  /\ UNCHANGED <<future, server>>

-----------------------------------------------------------------------------
(* The server's life *)

\* serve(): the index exists and the models are loaded before the port is open.
Serve ==
  /\ life = "down" /\ life' = "up" /\ UNCHANGED <<call, rpc, future, grace, restarts>>

Stop ==
  /\ life = "up" /\ restarts < MaxRestarts
  /\ life' = "draining" /\ grace' = Grace /\ restarts' = restarts + 1
  /\ UNCHANGED <<call, rpc, future>>

\* The process ends, its handlers and futures with it: clients see UNAVAILABLE.
ProcessEnds ==
  /\ life' = "down" /\ grace' = 0 /\ rpc' = [h \in Attempt |-> NoRpc]
  /\ future' = [h \in Attempt |-> "none"]
  /\ \E retried \in SUBSET {c \in Cut : call[c].attempt = 1} :
       call' = [c \in Call |->
         IF c \in retried THEN [call[c] EXCEPT !.at = "sending", !.attempt = 2]
         ELSE IF c \in Cut THEN Answer(503)
         ELSE call[c]]
Exit == life = "draining" /\ (Handlers = {} \/ grace = 0) /\ ProcessEnds /\ UNCHANGED restarts
Crash ==
  /\ life # "down" /\ restarts < MaxRestarts /\ restarts' = restarts + 1 /\ ProcessEnds

Handle(h) ==
  \/ Begin(h) \/ Dense(h) \/ FinishTranslation(h) \/ Bm25(h) \/ Merge(h) \/ Rerank(h)

Next ==
  \/ \E c \in Call : Send(c) \/ Disconnect(c) \/ DeadlinePasses(c) \/ \E p \in ResultPage : Search(c, p)
  \/ \E h \in Attempt : Handle(h) \/ TranslationEnds(h)
  \/ Tick \/ Serve \/ Stop \/ Exit \/ Crash

\* Time passes, clients act, and threads run: every stage ends, however late.
Spec ==
  /\ Init /\ [][Next]_vars /\ WF_vars(Tick) /\ WF_vars(Exit)
  /\ \A c \in Call : WF_vars(Send(c)) /\ WF_vars(DeadlinePasses(c))
  /\ \A h \in Attempt : WF_vars(Handle(h)) /\ WF_vars(TranslationEnds(h))

-----------------------------------------------------------------------------
\* Every search is answered and every handler gives its thread back, also those of
\* attempts the client gave up on: the gateway and the server come to rest.
AtRest == Handlers = {} /\ ~\E c \in Call : Pending(c)
CallsEnd == []<>AtRest
=============================================================================
