--------------------------- MODULE SearchAnswers ----------------------------
(***************************************************************************)
(* A search as its answer shows it: what the gateway and the search engine *)
(* know of it, the ranking that the pipeline computes from what its stages *)
(* return, and what callers may rely on.  SearchService has the steps.     *)
(*                                                                         *)
(* The stages' results are prefixes of fixed rankings; fusion, hydration,  *)
(* reranking and the page's slice are computed as the code does.           *)
(***************************************************************************)
EXTENDS Integers, Sequences, FiniteSets, FiniteSetsExt, SequencesExt

CONSTANTS
  Call,            \* searches the gateway makes, in their order
  ResultPage,      \* pages asked for
  Doc,
  Lexical,         \* BM25's ranking, without and with the translated variant
  Vectors,         \* the dense ranking
  Indexed,         \* documents the index has
  Score,           \* the reranker's score
  Workers,         \* search_grpc_workers
  Deadline,        \* search_timeout_seconds, in ticks
  Grace,           \* SHUTDOWN_GRACE_SECONDS, in ticks
  MinForDense,     \* MIN_SECONDS_FOR_DENSE, in ticks
  Limit, CandidatePool, MaxWindow,
  MaxRestarts      \* bound: stops and crashes of the server

IsSearch ==
  /\ Call \subseteq Nat /\ IsFiniteSet(Call) /\ ResultPage \subseteq Nat \ {0}
  /\ {Workers, Deadline, Limit, CandidatePool, MaxWindow} \subseteq Nat \ {0}
  /\ {Grace, MinForDense, MaxRestarts} \subseteq Nat
  /\ Lexical \in [BOOLEAN -> Seq(Indexed)] /\ Vectors \in Seq(Doc) /\ Indexed \subseteq Doc
  /\ Score \in [Doc -> Nat]
ASSUME SearchAssumption == IsSearch

VARIABLES
  call,      \* the gateway's view of each search
  rpc,       \* the server's handler of each attempt
  future,    \* translation of each attempt on _translation_pool
  life,      \* the server: down, up, draining
  grace,     \* ticks until a draining server gives up
  restarts   \* stops and crashes so far

Attempt == Call \X {1, 2}
Optional == {"dense", "translation", "hydrate", "rerank"}
Status == {"none", "ok", "skipped", "failed"}
Step == {"none", "queued", "dense", "translation", "bm25", "merge", "rerank"}
\* hurt is history: an optional stage really failed, or had no time.
NotRun == [s \in Optional |-> "none"]
NotCalled == [at |-> "idle", attempt |-> 0, page |-> 1, left |-> Deadline, http |-> 0,
              degraded |-> FALSE, hurt |-> FALSE]
NoRpc == [at |-> "none", page |-> 1, left |-> 0, stages |-> NotRun, hurt |-> FALSE]

ServiceTyped ==
  /\ call \in [Call -> [at : {"idle", "sending", "waiting", "answered"}, attempt : 0 .. 2,
                        page : ResultPage \cup {1}, left : 0 .. Deadline,
                        http : {0, 200, 400, 502, 503, 504},
                        degraded : BOOLEAN, hurt : BOOLEAN]]
  /\ rpc \in [Attempt -> [at : Step, page : ResultPage \cup {1}, left : 0 .. Deadline,
                          stages : [Optional -> Status], hurt : BOOLEAN]]
  /\ future \in [Attempt -> {"none", "running", "ok", "failed"}]
  /\ life \in {"down", "up", "draining"} /\ grace \in 0 .. Grace /\ restarts \in 0 .. MaxRestarts

Handlers == {h \in Attempt : rpc[h].at # "none"}
At(h, step) == rpc[h].at = step
PageOf(h) == rpc[h].page
\* Searches that wait for an attempt the server works on.
Cut == {h[1] : h \in {x \in Handlers : call[x[1]].at = "waiting" /\ call[x[1]].attempt = x[2]}}
Degraded(stages) == \E s \in Optional : stages[s] = "failed"

-----------------------------------------------------------------------------
(* Fusion and ranking *)

Valid(p) == p * Limit <= MaxWindow
Pool(p) == Min({Max({p * Limit, CandidatePool}), MaxWindow})
Upto(s, n) == SubSeq(s, 1, Min({n, Len(s)}))
Bm25Hits(stages, n) == Upto(Lexical[stages["translation"] = "ok"], n)
DenseHits(stages, n) == IF stages["dense"] = "ok" THEN Upto(Vectors, n) ELSE <<>>

\* A document counts once per list, at its best rank.
Rank(s, d) == CHOOSE i \in DOMAIN s : s[i] = d /\ \A j \in DOMAIN s : s[j] = d => i <= j
\* The members of S by falling weight; ties keep the order of their places.
Sorted(S, weight, place) ==
  LET Before(d) == {e \in S : weight[e] > weight[d] \/ (weight[e] = weight[d] /\ place[e] < place[d])}
  IN  [r \in 1 .. Cardinality(S) |-> CHOOSE d \in S : Cardinality(Before(d)) = r - 1]

K == 60
\* 1 / (K + rank), 0 when not in the list, and the sum of two lists', as fractions.
Reciprocal(s, d) == IF d \in ToSet(s) THEN <<1, K + Rank(s, d)>> ELSE <<0, 1>>
FusionScore(a, b, d) ==
  LET x == Reciprocal(a, d)
      y == Reciprocal(b, d)
  IN  <<x[1] * y[2] + y[1] * x[2], x[2] * y[2]>>
Outscores(f, g) == f[1] * g[2] > g[1] * f[2]
ReciprocalRankFusion(a, b) ==
  LET found == ToSet(a) \cup ToSet(b)
      score == [d \in found |-> FusionScore(a, b, d)]
  IN  Sorted(found,
             [d \in found |-> Cardinality({e \in found : Outscores(score[d], score[e])})],
             [d \in found |-> IF d \in ToSet(a) THEN Rank(a, d) ELSE Len(a) + Rank(b, d)])

Fused(stages, p) ==
  LET n == Pool(p) IN
  Upto(ReciprocalRankFusion(Bm25Hits(stages, n), DenseHits(stages, n)), n)
Missing(stages, p) == ToSet(Fused(stages, p)) \ ToSet(Bm25Hits(stages, Pool(p)))
\* _merge: candidates without metadata are left out.
Merged(stages, p) ==
  LET fused == Fused(stages, p)
      known == ToSet(Bm25Hits(stages, Pool(p))) \cup
               (IF stages["hydrate"] = "failed" THEN {} ELSE Indexed)
      kept == ToSet(fused) \cap known
  IN  Sorted(kept, [d \in kept |-> 0], [d \in kept |-> Rank(fused, d)])
Ranked(stages, p) ==
  LET merged == Merged(stages, p) IN
  IF stages["rerank"] = "ok"
  THEN Sorted(ToSet(merged), Score, [d \in ToSet(merged) |-> Rank(merged, d)])
  ELSE merged
Hits(stages, p) == SubSeq(Ranked(stages, p), (p - 1) * Limit + 1,
                          Min({p * Limit, Len(Ranked(stages, p))}))

-----------------------------------------------------------------------------
(* What callers may rely on *)

\* Outcomes of the stages with a page that is let through, as listed sets.
Outcome == [Optional -> Status] \X {p \in ResultPage : Valid(p)}
Listed(S) == {<<x[1], x[2]>> : x \in S}

\* A search is answered as degraded exactly when an optional stage of the attempt
\* that answered it failed, whatever became of another attempt of the same search
\* (stages, SearchResponse.degraded).
AnswersAreHonest == \A c \in Call : call[c].http = 200 => (call[c].degraded <=> call[c].hurt)

\* With the same stages the pages of one query tile one ranking as far as the
\* candidate pool reaches: no hit twice, no page short before another, and no hit
\* the index cannot show (pool, _merge, the page's slice).
Tiled(stages, p, q) ==
  /\ ToSet(Hits(stages, p)) \cap ToSet(Hits(stages, q)) = {}
  /\ Hits(stages, q) # <<>> => Len(Hits(stages, p)) = Limit
InPool == {p \in 1 .. CandidatePool : p * Limit <= CandidatePool}
Sound == Listed({x \in Outcome :
  /\ ToSet(Hits(x[1], x[2])) \subseteq Indexed
  /\ \A q \in InPool : x[2] < q => Tiled(x[1], x[2], q)})
PagesTile ==
  \A h \in Attempt : At(h, "rerank") =>
    \A ranked \in {"ok", "failed"} : <<[rpc[h].stages EXCEPT !["rerank"] = ranked], PageOf(h)>> \in Sound

\* A server that is told to stop takes no search in and leaves each it holds the whole
\* grace: of its deadline, at least what is gone of the grace has passed.  So the grace's
\* end finds a search with time left only where a deadline is longer than the grace, and
\* with no more than the difference (serve, stop).
DrainLeavesTheGrace ==
  life = "draining" => \A c \in Cut : call[c].left + (Grace - grace) <= Deadline

\* All of it.
AnswersAreSound == ServiceTyped /\ AnswersAreHonest /\ PagesTile /\ DrainLeavesTheGrace
=============================================================================
