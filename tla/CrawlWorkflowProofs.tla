------------------------- MODULE CrawlWorkflowProofs -------------------------
(***************************************************************************)
(* Proofs about CrawlWorkflow, for any web, seeds and limits, and about    *)
(* the walk over the sitemaps that its lookups are made of.                *)
(***************************************************************************)
EXTENDS CrawlWorkflow, FiniteSetTheorems, SequenceTheorems, WellFoundedInduction, TLAPS

Paid(k) == starts[k] > 0
OnHost(h) == {i \in active : HostOf[i.url] = h}

\* The queue has one item per key, and no key of a fetch that was started.
FrontierInv ==
  /\ \A i, j \in queue : KeyOf[i.url] = KeyOf[j.url] => i = j
  /\ FetchedOnce /\ FrontierConserved
  /\ \A k \in Key : Paid(k) => k \notin KeysOf(queue)
  /\ \A i \in active : Paid(KeyOf[i.url])

\* A crawl that waits has something to wait for, unless it has nothing to do.
LoopInv ==
  /\ phase = "starting" => seen = {}
  /\ phase = "selecting" /\ ~continuing /\ budget > 0 => active # {} \/ queue = {}
  /\ phase \in {"filling", "selecting"} /\ ~continuing /\ budget # 0 =>
       discActive # {} \/ cursor = Seeds
  /\ EndsExhausted

\* Hosts that were fetched from, or stored from, are counted.
HostInv ==
  /\ \A i \in active : domainCounts[HostOf[i.url]] > 0
  /\ \A u \in stored : domainCounts[HostOf[u]] > 0
  /\ StoredIsAnnounced

IInv == TypeOK /\ FrontierInv /\ BudgetKept /\ LoopInv /\ HostInv

-----------------------------------------------------------------------------
(* Lemmas about the helpers.                                               *)

LEMMA Items ==
  ASSUME TypeOK, NEW i \in queue \cup active
  PROVE  /\ i \in Item /\ i.url \in Url /\ KeyOf[i.url] \in Key /\ HostOf[i.url] \in Host
         /\ i.depth \in 0 .. MaxDepth /\ i.origin \in Host /\ i.priority \in Int
BY WebAssumption DEF TypeOK, Item

LEMMA KeysAreKeys == ASSUME NEW items, items \subseteq Item PROVE KeysOf(items) \subseteq Key
BY WebAssumption DEF KeysOf, Item

LEMMA ItemTyped ==
  ASSUME TypeOK, NEW u \in Url, NEW d \in 0 .. MaxDepth, NEW h \in Host, NEW p \in Int
  PROVE  FrontierItem(u, d, h, p) \in Item
<1>1. Cardinality(seen) \in Nat
  BY WebAssumption, FS_Subset, FS_CardinalityType DEF TypeOK
<1> QED
  BY <1>1 DEF FrontierItem, Item

\* A set of items with one item per key is finite.
LEMMA OneEachIsFinite ==
  ASSUME NEW items, items \subseteq Item,
         \A i, j \in items : KeyOf[i.url] = KeyOf[j.url] => i = j
  PROVE  IsFiniteSet(items)
<1> DEFINE f == [i \in items |-> KeyOf[i.url]]
<1>1. f \in [items -> Key]
  BY WebAssumption DEF Item
<1>2. f \in Injection(items, Key)
  BY <1>1 DEF Injection, IsInjective
<1> QED
  BY <1>2, WebAssumption, FS_Injection

LEMMA Limits ==
  /\ MaxDepth \in Nat /\ MaxPages \in Nat /\ Concurrency \in Nat \ {0}
  /\ MaxPagesPerDomain \in Nat /\ MaxConcurrentPerHost \in Nat
BY InputAssumption

\* A lookup finds URLs.
LEMMA LookupTyped == \A l \in Lookups : l.found \subseteq Url
BY DEF Lookups, Lookup, Found

LEMMA Counts == \A o \in Outcome : CountedAs[o] \in Counter \ {"fetched"}
BY DEF Outcome, CountedAs, Counter

LEMMA CappedFinite ==
  ASSUME TypeOK PROVE Capped \subseteq queue /\ Cardinality(Capped) \in Nat
BY FS_Subset, FS_CardinalityType DEF Capped, TypeOK

LEMMA ActiveFinite ==
  ASSUME TypeOK
  PROVE  /\ Cardinality(active) \in Nat /\ (Cardinality(active) = 0 => active = {})
         /\ \A h \in Host : /\ IsFiniteSet(OnHost(h)) /\ Cardinality(OnHost(h)) \in Nat
                            /\ Cardinality(OnHost(h)) > 0 => active # {}
<1>1. IsFiniteSet(active)
  BY DEF TypeOK
<1>2. \A h \in Host : OnHost(h) \subseteq active
  BY DEF OnHost
<1>3. \A h \in Host : IsFiniteSet(OnHost(h))
  BY <1>1, <1>2, FS_Subset
<1>4. \A h \in Host : Cardinality(OnHost(h)) > 0 => active # {}
  <2> SUFFICES ASSUME NEW h \in Host, active = {} PROVE ~(Cardinality(OnHost(h)) > 0)
    OBVIOUS
  <2>1. OnHost(h) = {}
    BY DEF OnHost
  <2> QED BY <2>1, FS_EmptySet
<1> QED
  BY <1>1, <1>3, <1>4, FS_CardinalityType, FS_EmptySet

\* EnqueueFresh: what is new is seen, and queued once.
LEMMA Enqueued ==
  ASSUME TypeOK, FrontierInv, NEW candidates, candidates \subseteq Item,
         NEW known, known \subseteq Key, seen \subseteq known,
         EnqueueFresh(candidates, known), active' \subseteq active, UNCHANGED starts
  PROVE  /\ queue' \subseteq Item /\ IsFiniteSet(queue')
         /\ seen' \subseteq Key /\ settled' \subseteq Key /\ aliased' \subseteq Key
         /\ FrontierInv'
<1>1. PICK new \in OnePerKey({i \in candidates : KeyOf[i.url] \notin known}),
           fresh \in CheckFreshness :
        /\ seen' = known \cup KeysOf(new)
        /\ queue' = queue \cup {i \in new : KeyOf[i.url] \notin fresh}
        /\ settled' = settled \cup (KeysOf(new) \cap fresh)
        /\ aliased' = aliased \cup (known \ seen)
  BY DEF EnqueueFresh
<1>2. /\ new \subseteq candidates
      /\ \A i \in new : KeyOf[i.url] \notin known
      /\ \A i, j \in new : KeyOf[i.url] = KeyOf[j.url] => i = j
  BY DEF OnePerKey
<1>3. new \subseteq Item /\ KeysOf(new) \subseteq Key
  BY <1>2, KeysAreKeys
<1>4. queue' \subseteq Item
  BY <1>1, <1>3 DEF TypeOK
<1>5. KeysOf(queue) \subseteq seen
  BY DEF FrontierInv, FrontierConserved
<1>6. \A i, j \in queue' : KeyOf[i.url] = KeyOf[j.url] => i = j
  <2> SUFFICES ASSUME NEW i \in queue', NEW j \in queue', KeyOf[i.url] = KeyOf[j.url]
               PROVE  i = j
    OBVIOUS
  <2>1. \A q \in queue : KeyOf[q.url] \in seen
    BY <1>5 DEF KeysOf
  <2>2. \A n \in new : KeyOf[n.url] \notin seen
    BY <1>2
  <2>3. (i \in queue \/ i \in new) /\ (j \in queue \/ j \in new)
    BY <1>1
  <2>4. CASE i \in queue /\ j \in queue
    BY <2>4 DEF FrontierInv
  <2>5. CASE i \in new /\ j \in new
    BY <1>2, <2>5
  <2> QED
    BY <2>1, <2>2, <2>3, <2>4, <2>5
<1>7. IsFiniteSet(queue')
  BY <1>4, <1>6, OneEachIsFinite
<1>8. KeysOf(queue') = KeysOf(queue) \cup (KeysOf(new) \ fresh)
  BY <1>1 DEF KeysOf
<1>9. {k \in Key : starts'[k] > 0} = {k \in Key : starts[k] > 0}
  OBVIOUS
<1>10. FrontierConserved'
  <2>1. seen' = seen \cup (known \ seen) \cup KeysOf(new)
    BY <1>1
  <2>2. seen = KeysOf(queue) \cup {k \in Key : starts[k] > 0} \cup settled \cup aliased
    BY DEF FrontierInv, FrontierConserved
  <2>3. seen' = KeysOf(queue') \cup {k \in Key : starts'[k] > 0} \cup settled' \cup aliased'
    <3> HIDE DEF KeysOf
    <3> QED BY <1>1, <1>8, <1>9, <2>1, <2>2
  <2>4. FrontierConserved' <=>
          seen' = KeysOf(queue') \cup {k \in Key : starts'[k] > 0} \cup settled' \cup aliased'
    BY DEF FrontierConserved, KeysOf
  <2> QED BY <2>3, <2>4
<1>11. \A k \in Key : Paid(k)' => k \notin KeysOf(queue)'
  <2>1. \A k \in Key : Paid(k) => k \in seen
    BY DEF FrontierInv, FrontierConserved, Paid
  <2>2. \A k \in KeysOf(new) : k \notin seen
    BY <1>2 DEF KeysOf
  <2>3. KeysOf(queue)' = KeysOf(queue')
    BY DEF KeysOf
  <2>4. \A k \in Key : Paid(k)' <=> Paid(k)
    BY DEF Paid
  <2> QED
    BY <1>8, <2>1, <2>2, <2>3, <2>4 DEF FrontierInv
<1>12. FetchedOnce' /\ \A i \in active' : Paid(KeyOf[i.url])'
  BY DEF FrontierInv, FetchedOnce, Paid
<1>13. FrontierInv'
  BY <1>6, <1>10, <1>11, <1>12 DEF FrontierInv
<1>14. seen' \subseteq Key /\ settled' \subseteq Key /\ aliased' \subseteq Key
  BY <1>1, <1>3 DEF TypeOK
<1> QED
  BY <1>4, <1>7, <1>13, <1>14

\* Discovery goes on while there are seeds, unless the segment or the budget ends.
LEMMA Launched ==
  ASSUME TypeOK, NEW inFlight, inFlight \subseteq Seed, LaunchDiscovery(inFlight)
  PROVE  /\ cursor' \in 0 .. Seeds /\ discActive' \subseteq Seed
         /\ ~continuing' /\ budget # 0 => discActive' # {} \/ cursor' = Seeds
<1>1. PICK n \in 0 .. Seeds - cursor :
        /\ IF continuing' \/ budget = 0
             THEN n = 0
             ELSE \/ Cardinality(inFlight) + n = SitemapBatch
                  \/ cursor + n = Seeds /\ Cardinality(inFlight) + n <= SitemapBatch
        /\ cursor' = cursor + n
        /\ discActive' = inFlight \cup (cursor + 1 .. cursor + n)
  BY DEF LaunchDiscovery
<1>2. Seeds \in Nat /\ cursor \in 0 .. Seeds /\ SitemapBatch \in Nat \ {0} /\ n \in Nat
      /\ cursor + n <= Seeds
  BY InputAssumption DEF TypeOK
<1>3. cursor' \in 0 .. Seeds /\ discActive' \subseteq Seed
  BY <1>1, <1>2 DEF Seed
<1>4. ASSUME ~continuing', budget # 0, cursor' # Seeds PROVE discActive' # {}
  <2>1. Cardinality(inFlight) + n = SitemapBatch
    BY <1>1, <1>4
  <2>2. CASE n = 0
    <3>1. inFlight # {}
      BY <1>2, <2>1, <2>2, FS_EmptySet
    <3> QED BY <1>1, <3>1
  <2>3. CASE n # 0
    <3>1. cursor + 1 \in cursor + 1 .. cursor + n
      BY <1>2, <2>3
    <3> QED BY <1>1, <3>1
  <2> QED BY <2>2, <2>3
<1> QED
  BY <1>3, <1>4

-----------------------------------------------------------------------------
(* Each action.                                                            *)

\* What the actions that touch neither fetches nor the hosts' counts keep.
LEMMA FetchesKept ==
  ASSUME IInv, UNCHANGED <<fetches, starts, stored>>, stats'["fetched"] = stats["fetched"]
  PROVE  BudgetKept' /\ \A i \in active' : domainCounts'[HostOf[i.url]] > 0
BY DEF IInv, BudgetKept, HostInv, fetches

LEMMA StartStep == IInv /\ Start => IInv'
<1> SUFFICES ASSUME IInv, Start PROVE IInv'
  OBVIOUS
<1> USE DEF IInv
<1> DEFINE first == {FrontierItem(SeedUrl[s], 0, HostOf[SeedUrl[s]], SeedPriority[s]) : s \in Seed}
<1>1. /\ phase = "starting" /\ phase' = "filling"
      /\ EnqueueFresh(first, {}) /\ StartCrawlRun /\ LaunchDiscovery({})
      /\ UNCHANGED <<continuing, childOfRun, fetches, pagesThisRun, stats, cancel, events,
                     starts, stored, lookups>>
  BY DEF Start
<1>2. first \subseteq Item
  <2>1. \A s \in Seed : /\ SeedUrl[s] \in Url /\ HostOf[SeedUrl[s]] \in Host
                        /\ SeedPriority[s] \in Int /\ 0 \in 0 .. MaxDepth
    BY WebAssumption, InputAssumption
  <2> QED BY <2>1, ItemTyped
<1> HIDE DEF first
<1>3. seen = {}
  BY <1>1 DEF LoopInv
<1>4. /\ queue' \subseteq Item /\ IsFiniteSet(queue') /\ FrontierInv'
      /\ seen' \subseteq Key /\ settled' \subseteq Key /\ aliased' \subseteq Key
  BY <1>1, <1>2, <1>3, Enqueued DEF fetches
<1>5. /\ cursor' \in 0 .. Seeds /\ discActive' \subseteq Seed
      /\ ~continuing' /\ budget # 0 => discActive' # {} \/ cursor' = Seeds
  BY <1>1, Launched
<1>6. runID' \in {0, 1} /\ recorded' \in {"none", "running", "completed", "failed"}
  BY <1>1 DEF StartCrawlRun, TypeOK
<1>7. TypeOK'
  BY <1>1, <1>4, <1>5, <1>6 DEF TypeOK, fetches, events
<1>8. BudgetKept' /\ HostInv'
  BY <1>1, FetchesKept DEF HostInv, StoredIsAnnounced, fetches
<1>9. LoopInv'
  BY <1>1, <1>5 DEF LoopInv, EndsExhausted, fetches
<1> QED
  BY <1>4, <1>7, <1>8, <1>9

LEMMA StartNextStep == IInv /\ StartNext => IInv'
<1> SUFFICES ASSUME IInv, StartNext PROVE IInv'
  OBVIOUS
<1> USE DEF IInv
<1>1. PICK i \in Best :
        /\ queue' = (queue \ Capped) \ {i}
        /\ active' = active \cup {[i EXCEPT !.live = (cancel # "requested")]}
        /\ budget' = budget - 1
        /\ domainCounts' = [domainCounts EXCEPT ![HostOf[i.url]] = @ + 1]
        /\ hostActive' = [hostActive EXCEPT ![HostOf[i.url]] = @ + 1]
        /\ starts' = [starts EXCEPT ![KeyOf[i.url]] = @ + 1]
  BY DEF StartNext
<1>2. /\ phase = "filling" /\ budget > 0 /\ Cardinality(active) < Concurrency
      /\ settled' = settled \cup KeysOf(Capped)
      /\ stats' = [stats EXCEPT !["capped"] = @ + Cardinality(Capped)]
      /\ UNCHANGED <<phase, seen, segment, discovery, run, cancel, events, aliased, stored,
                     lookups>>
  BY DEF StartNext, HasSlot, DropCapped
<1> DEFINE a == [i EXCEPT !.live = (cancel # "requested")]
           h == HostOf[i.url]
           k == KeyOf[i.url]
<1>3. /\ i \in queue /\ i \notin Capped /\ HostIsFree(h)
      /\ i \in Item /\ h \in Host /\ k \in Key
  BY Items DEF Best, Startable
<1>4. a \in Item /\ a.url = i.url
  BY <1>3 DEF Item
<1>5. k \in KeysOf(queue) /\ starts[k] = 0 /\ starts'[k] = 1
  BY <1>1, <1>3 DEF KeysOf, FrontierInv, Paid, TypeOK
<1>6. \A x \in Key : x # k => starts'[x] = starts[x]
  BY <1>1 DEF TypeOK
<1>7. active' = active \cup {a}
  BY <1>1
<1> HIDE DEF a
<1>8. a \notin active
  <2> SUFFICES ASSUME a \in active PROVE FALSE
    OBVIOUS
  <2>1. Paid(KeyOf[a.url])
    BY DEF FrontierInv
  <2> QED
    BY <1>4, <1>5, <2>1 DEF Paid
<1>9. \A x \in Host : OnHost(x)' = IF x = h THEN OnHost(x) \cup {a} ELSE OnHost(x)
  BY <1>4, <1>7 DEF OnHost
<1>10. IsFiniteSet(queue') /\ IsFiniteSet(active') /\ Cardinality(active') = Cardinality(active) + 1
  BY <1>1, <1>8, <1>7, FS_AddElement, FS_Subset DEF TypeOK
<1>11. stats' \in [Counter -> Nat] /\ stats'["fetched"] = stats["fetched"]
  BY <1>2, CappedFinite DEF TypeOK, Counter
<1>12. TypeOK'
  <2>1. queue' \subseteq Item /\ active' \subseteq Item
    BY <1>1, <1>4, <1>7 DEF TypeOK
  <2>2. settled' \subseteq Key
    BY <1>2, CappedFinite, KeysAreKeys DEF TypeOK
  <2>3. /\ starts' \in [Key -> Nat] /\ domainCounts' \in [Host -> Nat]
        /\ hostActive' \in [Host -> Int] /\ budget' \in Int
    <3>1. starts' \in [Key -> Nat]
      BY <1>1, <1>3 DEF TypeOK
    <3>2. domainCounts' \in [Host -> Nat]
      BY <1>1, <1>3 DEF TypeOK
    <3>3. hostActive' \in [Host -> Int]
      BY <1>1, <1>3 DEF TypeOK
    <3>4. budget' \in Int
      BY <1>1 DEF TypeOK
    <3> QED BY <3>1, <3>2, <3>3, <3>4
  <2> QED
    BY <1>2, <1>10, <1>11, <2>1, <2>2, <2>3
    DEF TypeOK, segment, discovery, run, events
<1>13. FrontierInv'
  <2>1. FetchedOnce'
    BY <1>5, <1>6 DEF FrontierInv, FetchedOnce
  <2>2. KeysOf(queue) = KeysOf(queue') \cup KeysOf(Capped) \cup {k}
    BY <1>1, <1>3, CappedFinite DEF KeysOf
  <2>3. {x \in Key : starts'[x] > 0} = {x \in Key : starts[x] > 0} \cup {k}
    BY <1>3, <1>5, <1>6
  <2>4. seen' = KeysOf(queue') \cup {x \in Key : starts'[x] > 0} \cup settled' \cup aliased'
    <3>1. seen = KeysOf(queue) \cup {x \in Key : starts[x] > 0} \cup settled \cup aliased
      BY DEF FrontierInv, FrontierConserved
    <3> QED BY <1>2, <2>2, <2>3, <3>1
  <2>5. FrontierConserved'
    BY <2>4 DEF FrontierConserved, KeysOf
  <2>6. \A x \in Key : Paid(x)' => x \notin KeysOf(queue)'
    <3>1. KeysOf(queue') \subseteq KeysOf(queue)
      BY <2>2
    <3>2. k \notin KeysOf(queue')
      BY <1>1, <1>3 DEF KeysOf, FrontierInv
    <3>3. KeysOf(queue)' = KeysOf(queue')
      BY DEF KeysOf
    <3> QED
      BY <1>6, <3>1, <3>2, <3>3 DEF FrontierInv, Paid
  <2>7. \A j \in active' : Paid(KeyOf[j.url])'
    BY <1>4, <1>5, <1>6, <1>7, Items DEF FrontierInv, Paid
  <2>8. \A x, y \in queue' : KeyOf[x.url] = KeyOf[y.url] => x = y
    BY <1>1 DEF FrontierInv
  <2> QED
    BY <2>1, <2>5, <2>6, <2>7, <2>8 DEF FrontierInv
<1>14. BudgetKept'
  <2>1. /\ Cardinality(active) \in Nat /\ stats["fetched"] \in Nat /\ Concurrency \in Nat
        /\ budget \in Int
    BY ActiveFinite, InputAssumption DEF TypeOK, Counter
  <2>2. /\ budget' + stats'["fetched"] + Cardinality(active') = MaxPages /\ budget' >= 0
        /\ Cardinality(active') <= Concurrency
    BY <1>1, <1>2, <1>10, <1>11, <2>1, Limits DEF BudgetKept
  <2>3. ASSUME NEW x \in Host
        PROVE  /\ hostActive'[x] = Cardinality(OnHost(x)')
               /\ MaxConcurrentPerHost > 0 => hostActive'[x] <= MaxConcurrentPerHost
               /\ MaxPagesPerDomain > 0 => domainCounts'[x] <= MaxPagesPerDomain
    <3>1. /\ hostActive[x] = Cardinality(OnHost(x))
          /\ MaxConcurrentPerHost > 0 => hostActive[x] <= MaxConcurrentPerHost
          /\ MaxPagesPerDomain > 0 => domainCounts[x] <= MaxPagesPerDomain
      BY DEF BudgetKept, OnHost
    <3>2. CASE x # h
      BY <1>1, <1>9, <3>1, <3>2 DEF TypeOK
    <3>3. CASE x = h
      <4>1. a \notin OnHost(x) /\ IsFiniteSet(OnHost(x))
        BY <1>8, ActiveFinite DEF OnHost
      <4>2. Cardinality(OnHost(x)') = Cardinality(OnHost(x)) + 1
        BY <1>9, <3>3, <4>1, FS_AddElement
      <4>3. hostActive'[x] = hostActive[x] + 1 /\ domainCounts'[x] = domainCounts[x] + 1
        BY <1>1, <3>3 DEF TypeOK
      <4>4. MaxConcurrentPerHost > 0 => hostActive[x] < MaxConcurrentPerHost
        BY <1>3, <3>3, InputAssumption DEF HostIsFree
      <4>5. MaxPagesPerDomain > 0 => domainCounts[x] < MaxPagesPerDomain
        BY <1>3, <3>3, InputAssumption DEF Capped, TypeOK
      <4>6. hostActive[x] \in Int /\ domainCounts[x] \in Nat
            /\ MaxConcurrentPerHost \in Nat /\ MaxPagesPerDomain \in Nat
        BY InputAssumption DEF TypeOK
      <4> QED
        BY <3>1, <4>2, <4>3, <4>4, <4>5, <4>6
    <3> QED BY <3>2, <3>3
  <2> QED
    BY <2>2, <2>3 DEF BudgetKept, OnHost
<1>15. LoopInv'
  BY <1>1, <1>2, InputAssumption DEF LoopInv, EndsExhausted, discovery, segment, TypeOK
<1>16. HostInv'
  <2>1. \A x \in Host : domainCounts[x] > 0 => domainCounts'[x] > 0
    BY <1>1 DEF TypeOK
  <2>2. domainCounts'[h] > 0
    BY <1>1, <1>3 DEF TypeOK
  <2>3. \A u \in stored : HostOf[u] \in Host
    BY WebAssumption DEF TypeOK
  <2> QED
    BY <1>2, <1>4, <1>7, <2>1, <2>2, <2>3, Items DEF HostInv, StoredIsAnnounced
<1> QED
  BY <1>12, <1>13, <1>14, <1>15, <1>16

LEMMA FillEndsStep == IInv /\ FillEnds => IInv'
<1> SUFFICES ASSUME IInv, FillEnds PROVE IInv'
  OBVIOUS
<1> USE DEF IInv
<1>1. /\ phase = "filling" /\ phase' = "selecting"
      /\ UNCHANGED <<seen, fetches, segment, discovery, run, cancel, events, starts, aliased,
                     stored, lookups>>
  BY DEF FillEnds
<1>2. \/ /\ HasSlot /\ Startable = {} /\ queue' = queue \ Capped
         /\ settled' = settled \cup KeysOf(Capped)
         /\ stats' = [stats EXCEPT !["capped"] = @ + Cardinality(Capped)]
      \/ ~HasSlot /\ UNCHANGED <<queue, settled, stats>>
  BY DEF FillEnds, DropCapped
<1>3. queue' \subseteq queue /\ settled' \subseteq Key /\ IsFiniteSet(queue')
  BY <1>2, CappedFinite, KeysAreKeys, FS_Subset DEF TypeOK
<1>4. stats' \in [Counter -> Nat] /\ stats'["fetched"] = stats["fetched"]
  BY <1>2, CappedFinite DEF TypeOK, Counter
<1>5. TypeOK'
  BY <1>1, <1>3, <1>4 DEF TypeOK, fetches, segment, discovery, run, events
<1>6. KeysOf(queue) \cup settled = KeysOf(queue') \cup settled'
  <2>1. CASE UNCHANGED <<queue, settled>>
    BY <2>1
  <2>2. CASE queue' = queue \ Capped /\ settled' = settled \cup KeysOf(Capped)
    <3>1. KeysOf(queue) = KeysOf(queue') \cup KeysOf(Capped)
      BY <2>2, CappedFinite DEF KeysOf
    <3> QED BY <2>2, <3>1
  <2> QED BY <1>2, <2>1, <2>2
<1>7. FrontierInv'
  <2>1. seen' = KeysOf(queue') \cup {x \in Key : starts'[x] > 0} \cup settled' \cup aliased'
    <3>1. seen = KeysOf(queue) \cup {x \in Key : starts[x] > 0} \cup settled \cup aliased
      BY DEF FrontierInv, FrontierConserved
    <3> QED BY <1>1, <1>6, <3>1
  <2>2. FrontierConserved'
    BY <2>1 DEF FrontierConserved, KeysOf
  <2>3. KeysOf(queue)' \subseteq KeysOf(queue)
    BY <1>3 DEF KeysOf
  <2> QED
    BY <1>1, <1>3, <2>2, <2>3 DEF FrontierInv, FetchedOnce, Paid, fetches
<1>8. BudgetKept' /\ HostInv'
  BY <1>1, <1>4, FetchesKept DEF HostInv, StoredIsAnnounced, fetches
<1>9. LoopInv'
  <2>1. ASSUME budget > 0, active = {} PROVE queue' = {}
    <3>1. Cardinality(active) = 0 /\ HasSlot
      BY <2>1, FS_EmptySet, InputAssumption DEF HasSlot
    <3>2. ASSUME NEW i \in queue \ Capped PROVE FALSE
      <4>1. HostOf[i.url] \in Host /\ ~HostIsFree(HostOf[i.url])
        BY <1>2, <3>1, <3>2, Items DEF Startable
      <4>2. hostActive[HostOf[i.url]] = Cardinality(OnHost(HostOf[i.url]))
        BY <4>1 DEF BudgetKept, OnHost
      <4>3. OnHost(HostOf[i.url]) = {}
        BY <2>1 DEF OnHost
      <4>4. hostActive[HostOf[i.url]] = 0
        BY <4>2, <4>3, FS_EmptySet
      <4> QED
        BY <4>1, <4>4, InputAssumption DEF HostIsFree
    <3> QED BY <1>2, <3>1, <3>2
  <2> QED
    BY <1>1, <2>1 DEF LoopInv, EndsExhausted, fetches, segment, discovery
<1> QED
  BY <1>5, <1>7, <1>8, <1>9

LEMMA DiscoveryDoneStep ==
  ASSUME IInv, NEW s \in Seed, DiscoveryDone(s) PROVE IInv'
<1> USE DEF IInv
<1> DEFINE listed(l) == {FrontierItem(u, 0, HostOf[SeedUrl[s]], SeedPriority[s]) : u \in l.found}
<1>1. /\ phase = "selecting"
      /\ UNCHANGED <<continuing, fetches, pagesThisRun, stats, run, cancel, events, starts, stored>>
      /\ LaunchDiscovery(discActive \ {s})
      /\ phase' = IF continuing THEN "selecting" ELSE "filling"
  BY DEF DiscoveryDone
<1>2. \/ \E l \in Lookups : EnqueueFresh(listed(l), seen)
      \/ UNCHANGED <<frontier, settled, aliased>>
  BY DEF DiscoveryDone
<1>3. \A l \in Lookups : listed(l) \subseteq Item
  <2>1. /\ HostOf[SeedUrl[s]] \in Host /\ SeedPriority[s] \in Int /\ 0 \in 0 .. MaxDepth
        /\ \A l \in Lookups : l.found \subseteq Url
    BY WebAssumption, InputAssumption, LookupTyped
  <2> QED BY <2>1, ItemTyped
<1> HIDE DEF listed
<1>4. /\ queue' \subseteq Item /\ IsFiniteSet(queue') /\ FrontierInv'
      /\ seen' \subseteq Key /\ settled' \subseteq Key /\ aliased' \subseteq Key
  <2>1. ASSUME NEW l \in Lookups, EnqueueFresh(listed(l), seen)
        PROVE  /\ queue' \subseteq Item /\ IsFiniteSet(queue') /\ FrontierInv'
               /\ seen' \subseteq Key /\ settled' \subseteq Key /\ aliased' \subseteq Key
    BY <1>1, <1>3, <2>1, Enqueued DEF TypeOK, fetches
  <2>2. CASE UNCHANGED <<frontier, settled, aliased>>
    BY <1>1, <2>2 DEF TypeOK, FrontierInv, FetchedOnce, FrontierConserved, KeysOf, Paid,
      fetches, frontier
  <2> QED BY <1>2, <2>1, <2>2
<1>lookups. lookups' \subseteq Lookups
  BY DEF DiscoveryDone, TypeOK
<1>5. /\ cursor' \in 0 .. Seeds /\ discActive' \subseteq Seed
      /\ ~continuing' /\ budget # 0 => discActive' # {} \/ cursor' = Seeds
  BY <1>1, Launched DEF TypeOK
<1>6. TypeOK'
  BY <1>1, <1>4, <1>5, <1>lookups DEF TypeOK, fetches, events, run
<1>7. BudgetKept' /\ HostInv'
  BY <1>1, FetchesKept DEF HostInv, StoredIsAnnounced, fetches
<1>8. LoopInv'
  BY <1>1, <1>5 DEF LoopInv, EndsExhausted, fetches
<1> QED
  BY <1>4, <1>6, <1>7, <1>8

LEMMA PageDoneStep ==
  ASSUME IInv, NEW i \in active, NEW outcome \in Outcome, PageDone(i, outcome) PROVE IInv'
<1> USE DEF IInv
<1>1. /\ phase = "selecting" /\ active' = active \ {i}
      /\ hostActive' = [hostActive EXCEPT ![HostOf[i.url]] = @ - 1]
      /\ pagesThisRun' = pagesThisRun + 1
      /\ stats' = [stats EXCEPT !["fetched"] = @ + 1, ![CountedAs[outcome]] = @ + 1]
      /\ phase' = IF continuing' THEN "selecting" ELSE "filling"
      /\ LaunchDiscovery(discActive)
      /\ UNCHANGED <<domainCounts, budget, run, cancel, events, starts, lookups>>
  BY DEF PageDone
<1>2. stored' \subseteq stored \cup {i.url} /\ continuing' \in BOOLEAN
  BY DEF PageDone, Checkpoint, TypeOK
<1>3. \/ \E nofollow \in BOOLEAN : EnqueueFresh(Follow(i, nofollow), seen \cup Aliases[i.url])
      \/ UNCHANGED <<frontier, settled, aliased>>
  BY DEF PageDone
<1>4. /\ i \in Item /\ i.url \in Url /\ KeyOf[i.url] \in Key /\ HostOf[i.url] \in Host
      /\ i.depth \in 0 .. MaxDepth /\ i.origin \in Host /\ i.priority \in Int
  BY Items
<1>5. \A nofollow \in BOOLEAN : Follow(i, nofollow) \subseteq Item
  <2> SUFFICES ASSUME NEW nofollow \in BOOLEAN, i.depth < MaxDepth, NEW u \in Links[i.url]
               PROVE  FrontierItem(u, i.depth + 1, i.origin, i.priority) \in Item
    BY <1>4, Limits DEF Follow
  <2>1. u \in Url /\ i.depth + 1 \in 0 .. MaxDepth
    BY <1>4, WebAssumption, InputAssumption
  <2> QED BY <1>4, <2>1, ItemTyped
<1>6. /\ queue' \subseteq Item /\ IsFiniteSet(queue') /\ FrontierInv'
      /\ seen' \subseteq Key /\ settled' \subseteq Key /\ aliased' \subseteq Key
  <2>1. ASSUME NEW nofollow \in BOOLEAN,
               EnqueueFresh(Follow(i, nofollow), seen \cup Aliases[i.url])
        PROVE  /\ queue' \subseteq Item /\ IsFiniteSet(queue')
               /\ seen' \subseteq Key /\ settled' \subseteq Key /\ aliased' \subseteq Key
               /\ FrontierInv'
    <3>1. seen \cup Aliases[i.url] \subseteq Key
      BY <1>4, WebAssumption DEF TypeOK
    <3> QED
      BY <1>1, <1>5, <2>1, <3>1, Enqueued
  <2>2. CASE UNCHANGED <<frontier, settled, aliased>>
    BY <1>1, <2>2 DEF TypeOK, FrontierInv, FetchedOnce, FrontierConserved, KeysOf, Paid, frontier
  <2> QED BY <1>3, <2>1, <2>2
<1>7. /\ cursor' \in 0 .. Seeds /\ discActive' \subseteq Seed
      /\ ~continuing' /\ budget # 0 => discActive' # {} \/ cursor' = Seeds
  BY <1>1, Launched DEF TypeOK
<1>8. stats' \in [Counter -> Nat] /\ stats'["fetched"] = stats["fetched"] + 1
  <2>1. CountedAs[outcome] \in Counter /\ CountedAs[outcome] # "fetched" /\ "fetched" \in Counter
    BY Counts DEF Counter
  <2> QED BY <1>1, <2>1 DEF TypeOK
<1>9. /\ active' \subseteq Item /\ IsFiniteSet(active')
      /\ Cardinality(active') = Cardinality(active) - 1
  BY <1>1, FS_RemoveElement DEF TypeOK
<1>10. TypeOK'
  <2>1. hostActive' \in [Host -> Int] /\ pagesThisRun' \in Nat /\ stored' \subseteq Url
    BY <1>1, <1>2, <1>4 DEF TypeOK
  <2> QED
    BY <1>1, <1>2, <1>6, <1>7, <1>8, <1>9, <2>1 DEF TypeOK, run, events
<1>11. BudgetKept'
  <2>1. /\ Cardinality(active) \in Nat /\ stats["fetched"] \in Nat /\ Concurrency \in Nat
        /\ budget \in Int
    BY ActiveFinite, InputAssumption DEF TypeOK, Counter
  <2>2. /\ budget' + stats'["fetched"] + Cardinality(active') = MaxPages /\ budget' >= 0
        /\ Cardinality(active') <= Concurrency
    BY <1>1, <1>8, <1>9, <2>1, Limits DEF BudgetKept
  <2>3. ASSUME NEW x \in Host
        PROVE  /\ hostActive'[x] = Cardinality(OnHost(x)')
               /\ MaxConcurrentPerHost > 0 => hostActive'[x] <= MaxConcurrentPerHost
               /\ MaxPagesPerDomain > 0 => domainCounts'[x] <= MaxPagesPerDomain
    <3>1. /\ hostActive[x] = Cardinality(OnHost(x)) /\ hostActive[x] \in Int
          /\ MaxConcurrentPerHost > 0 => hostActive[x] <= MaxConcurrentPerHost
          /\ MaxPagesPerDomain > 0 => domainCounts[x] <= MaxPagesPerDomain
          /\ MaxConcurrentPerHost \in Nat
      BY InputAssumption DEF BudgetKept, OnHost, TypeOK
    <3>2. CASE x # HostOf[i.url]
      <4>1. OnHost(x)' = OnHost(x)
        BY <1>1, <3>2 DEF OnHost
      <4>2. hostActive'[x] = hostActive[x]
        BY <1>1, <3>2 DEF TypeOK
      <4> QED BY <1>1, <3>1, <4>1, <4>2
    <3>3. CASE x = HostOf[i.url]
      <4>1. OnHost(x)' = OnHost(x) \ {i} /\ i \in OnHost(x) /\ IsFiniteSet(OnHost(x))
        BY <1>1, <3>3, ActiveFinite DEF OnHost
      <4>2. Cardinality(OnHost(x)') = Cardinality(OnHost(x)) - 1
        BY <4>1, FS_RemoveElement
      <4>3. hostActive'[x] = hostActive[x] - 1
        BY <1>1, <3>3 DEF TypeOK
      <4> QED BY <1>1, <3>1, <4>2, <4>3
    <3> QED BY <3>2, <3>3
  <2> QED
    BY <2>2, <2>3 DEF BudgetKept, OnHost
<1>12. LoopInv'
  BY <1>1, <1>2, <1>7 DEF LoopInv, EndsExhausted, TypeOK
<1>13. HostInv'
  BY <1>1, <1>2, <1>4 DEF HostInv, StoredIsAnnounced, TypeOK
<1> QED
  BY <1>6, <1>10, <1>11, <1>12, <1>13

LEMMA ContinueStep == IInv /\ ContinueAsNew => IInv'
<1> SUFFICES ASSUME IInv, ContinueAsNew PROVE IInv'
  OBVIOUS
<1> USE DEF IInv
<1>1. /\ phase = "selecting" /\ active = {} /\ phase' = "filling"
      /\ pagesThisRun' = 0 /\ continuing' = FALSE /\ LaunchDiscovery({})
      /\ hostActive' = [h \in Host |-> 0]
      /\ cancel' = IF cancel = "requested" THEN "lost" ELSE cancel
      /\ UNCHANGED <<queue, budget, domainCounts, seen, active, stats, run, events, history>>
  BY DEF ContinueAsNew, Carry, Drained
<1>2. /\ cursor' \in 0 .. Seeds /\ discActive' \subseteq Seed
      /\ ~continuing' /\ budget # 0 => discActive' # {} \/ cursor' = Seeds
  BY <1>1, Launched
<1>3. TypeOK'
  <2>1. hostActive' \in [Host -> Int] /\ cancel' \in {"no", "requested", "lost"}
    BY <1>1 DEF TypeOK
  <2> QED
    BY <1>1, <1>2, <2>1 DEF TypeOK, run, events, history
<1>4. FrontierInv'
  BY <1>1 DEF FrontierInv, FetchedOnce, FrontierConserved, KeysOf, Paid, history
<1>5. BudgetKept'
  <2>1. \A h \in Host : OnHost(h)' = {} /\ hostActive'[h] = 0
    BY <1>1 DEF OnHost
  <2>2. \A h \in Host : hostActive'[h] = Cardinality(OnHost(h)')
    BY <2>1, FS_EmptySet
  <2>3. \A h \in Host : MaxConcurrentPerHost > 0 => hostActive'[h] <= MaxConcurrentPerHost
    BY <2>1, InputAssumption
  <2> QED
    BY <1>1, <2>2, <2>3 DEF BudgetKept, OnHost
<1>6. LoopInv'
  BY <1>1, <1>2 DEF LoopInv, EndsExhausted
<1>7. HostInv'
  BY <1>1 DEF HostInv, StoredIsAnnounced, history
<1> QED
  BY <1>3, <1>4, <1>5, <1>6, <1>7

LEMMA EndStep == IInv /\ End => IInv'
<1> SUFFICES ASSUME IInv, End PROVE IInv'
  OBVIOUS
<1> USE DEF IInv
<1>1. /\ Drained /\ ~WillContinueAsNew /\ phase' = "ended" /\ FinishCrawlRun
      /\ UNCHANGED <<frontier, fetches, segment, discovery, stats, childOfRun, runID, cancel,
                     history>>
  BY DEF End
<1>2. PICK failed \in SUBSET SitesCrawled :
        published' = SitesCrawled \ failed /\ unpublished' = failed
  BY DEF End
<1>3. recorded' \in {"none", "running", "completed", "failed"}
  BY <1>1 DEF FinishCrawlRun, Status, TypeOK
<1>4. TypeOK'
  BY <1>1, <1>2, <1>3 DEF TypeOK, SitesCrawled, frontier, fetches, segment, discovery, history
<1>5. FrontierInv'
  BY <1>1 DEF FrontierInv, FetchedOnce, FrontierConserved, KeysOf, Paid, frontier, fetches, history
<1>6. BudgetKept'
  BY <1>1, FetchesKept DEF history
<1>7. LoopInv'
  <2>1. budget \in Int /\ budget >= 0
    BY DEF TypeOK, BudgetKept
  <2>2. phase = "selecting" /\ active = {} /\ discActive = {}
    BY <1>1 DEF Drained
  <2>3. budget = 0 \/ (queue = {} /\ cursor = Seeds)
    <3>1. CASE continuing
      <4>1. cursor \in Nat /\ cursor <= Seeds /\ Seeds \in Nat
        BY InputAssumption DEF TypeOK
      <4>2. ~(budget > 0 /\ (queue # {} \/ cursor < Seeds))
        BY <1>1, <3>1 DEF WillContinueAsNew
      <4> QED BY <2>1, <4>1, <4>2
    <3>2. CASE ~continuing
      BY <2>1, <2>2, <3>2 DEF LoopInv
    <3> QED BY <3>1, <3>2
  <2> QED
    BY <1>1, <2>3 DEF LoopInv, EndsExhausted, frontier, fetches, discovery
<1>8. HostInv'
  <2>1. \A u \in stored : HostOf[u] \in SitesCrawled
    BY WebAssumption DEF HostInv, SitesCrawled, TypeOK
  <2> QED
    BY <1>1, <1>2, <2>1 DEF HostInv, StoredIsAnnounced, fetches, history
<1> QED
  BY <1>4, <1>5, <1>6, <1>7, <1>8

LEMMA StutterStep == IInv /\ (Cancel \/ UNCHANGED vars) => IInv'
<1> SUFFICES ASSUME IInv, Cancel \/ UNCHANGED vars PROVE IInv'
  OBVIOUS
<1> USE DEF IInv
<1>1. /\ UNCHANGED <<phase, frontier, fetches, segment, discovery, stats, run, events, history>>
      /\ cancel' \in {cancel, "requested"}
  BY DEF Cancel, vars, frontier, fetches, segment, discovery, run, events, history
<1>2. TypeOK'
  BY <1>1 DEF TypeOK, frontier, fetches, segment, discovery, run, events, history
<1>3. FrontierInv'
  BY <1>1 DEF FrontierInv, FetchedOnce, FrontierConserved, KeysOf, Paid, frontier, fetches, history
<1>4. BudgetKept' /\ HostInv'
  BY <1>1, FetchesKept DEF HostInv, StoredIsAnnounced, fetches, events, history
<1>5. LoopInv'
  BY <1>1 DEF LoopInv, EndsExhausted, frontier, fetches, segment, discovery
<1> QED
  BY <1>2, <1>3, <1>4, <1>5

-----------------------------------------------------------------------------
LEMMA InitIInv == Init => IInv
<1> SUFFICES ASSUME Init PROVE IInv
  OBVIOUS
<1>1. TypeOK
  <2>1. IsFiniteSet(queue) /\ IsFiniteSet(active)
    BY FS_EmptySet DEF Init
  <2>2. budget \in Int /\ cursor \in 0 .. Seeds /\ pagesThisRun \in Nat
    BY InputAssumption DEF Init
  <2>3. /\ hostActive \in [Host -> Int] /\ domainCounts \in [Host -> Nat]
        /\ stats \in [Counter -> Nat] /\ starts \in [Key -> Nat]
    BY DEF Init
  <2> QED
    BY <2>1, <2>2, <2>3 DEF Init, TypeOK
<1>2. FrontierInv
  BY DEF Init, FrontierInv, FetchedOnce, FrontierConserved, KeysOf, Paid
<1>3. BudgetKept
  <2>1. \A h \in Host : {i \in active : HostOf[i.url] = h} = {} /\ hostActive[h] = 0
    BY DEF Init
  <2>2. Cardinality(active) = 0 /\ stats["fetched"] = 0 /\ budget = MaxPages
    BY FS_EmptySet DEF Init, Counter
  <2> QED
    BY <2>1, <2>2, FS_EmptySet, InputAssumption DEF Init, BudgetKept
<1>4. LoopInv /\ HostInv
  BY DEF Init, LoopInv, HostInv, EndsExhausted, StoredIsAnnounced
<1> QED
  BY <1>1, <1>2, <1>3, <1>4 DEF IInv

LEMMA Invariance == Spec => []IInv
<1>1. IInv /\ [Next]_vars => IInv'
  BY StartStep, StartNextStep, FillEndsStep, DiscoveryDoneStep, PageDoneStep, ContinueStep,
    EndStep, StutterStep
  DEF Next, Work, Ended
<1> QED
  BY InitIInv, <1>1, PTL DEF Spec

\* Type correctness of the crawl workflow (crawl.go).
THEOREM Typed == Spec => []TypeOK
<1>1. IInv => TypeOK
  BY DEF IInv
<1> QED
  BY <1>1, Invariance, PTL

\* What a crawl keeps through all its segments: no page fetched twice, none lost, the
\* budget and the limits per host kept, no end before the work is done, and a site
\* event for every host with a document of its own (crawl.go, whole workflow).
THEOREM WholeCrawl == Spec => []CrawlIsWhole
<1>1. IInv => CrawlIsWhole
  BY DEF IInv, FrontierInv, LoopInv, HostInv, CrawlIsWhole
<1> QED
  BY <1>1, Invariance, PTL

-----------------------------------------------------------------------------
(* Induction over the naturals, stated on sets: the provers cannot instantiate *)
(* the library's theorem on predicates.                                        *)

Below == {ss \in Nat \X Nat : ss[1] < ss[2]}

LEMMA BelowIsLess == OpToRel(<, Nat) = Below
  BY Zenon DEF OpToRel, Below

\* A set of naturals that is not empty has a least member.
LEMMA Least ==
  ASSUME NEW S \in SUBSET Nat, S # {}
  PROVE  \E n \in S : \A m \in S : n <= m
<1>1. IsWellFoundedOn(Below, Nat)
  BY NatLessThanWellFounded, BelowIsLess, Zenon
<1>2. PICK n \in S : \A m \in S : ~ (<<m, n>> \in Below)
  BY <1>1, WFMin
<1>3. ASSUME NEW m \in S PROVE n <= m
  <2>1. n \in Nat /\ m \in Nat
    OBVIOUS
  <2>2. m < n => <<m, n>> \in Below
    BY <2>1 DEF Below
  <2> QED
    BY <1>2, <2>1, <2>2
<1> QED
  BY <1>3

LEMMA Induct ==
  ASSUME NEW S, 0 \in S, \A n \in Nat : n \in S => n + 1 \in S
  PROVE  Nat \subseteq S
<1> SUFFICES ASSUME NEW k \in Nat, k \notin S PROVE FALSE
  OBVIOUS
<1>1. PICK n \in Nat \ S : \A m \in Nat \ S : n <= m
  BY Least
<1> QED
  BY <1>1

-----------------------------------------------------------------------------
(* The walk over a site's sitemaps, call by call *)

CallOrRest(w, limit, unread) ==
  IF w.calls = <<>> THEN w ELSE FetchSitemap(w, limit, unread)

\* A walk, up to its n-th call.
IsWalk(g, declared, limit, unread, n) ==
  \A i \in 0 .. n :
    g[i] = IF i = 0 THEN Begun(declared) ELSE CallOrRest(g[i - 1], limit, unread)

LEMMA WalksExist ==
  ASSUME NEW declared, NEW limit, NEW unread
  PROVE  \A n \in Nat : \E g : IsWalk(g, declared, limit, unread, n)
<1> DEFINE W(g, n) == IsWalk(g, declared, limit, unread, n)
           UpTo == {n \in Nat : \E g : W(g, n)}
<1>1. 0 \in UpTo
  <2>1. W([i \in {0} |-> Begun(declared)], 0)
    BY DEF IsWalk
  <2> QED
    BY <2>1
<1>2. ASSUME NEW n \in Nat, n \in UpTo PROVE n + 1 \in UpTo
  <2>1. PICK h : W(h, n)
    BY <1>2
  <2> DEFINE g == [i \in 0 .. n + 1 |-> IF i = n + 1 THEN CallOrRest(h[n], limit, unread)
                                        ELSE h[i]]
  <2>2. \A i \in 0 .. n : g[i] = h[i] /\ i \in 0 .. n + 1
    OBVIOUS
  <2>3. g[n + 1] = CallOrRest(h[n], limit, unread)
    OBVIOUS
  <2> HIDE DEF g
  <2>4. ASSUME NEW i \in 0 .. n + 1
        PROVE  g[i] = IF i = 0 THEN Begun(declared) ELSE CallOrRest(g[i - 1], limit, unread)
    <3>1. CASE i = n + 1
      <4>1. i - 1 = n /\ i # 0 /\ n \in 0 .. n
        BY <3>1
      <4> QED
        BY <2>2, <2>3, <3>1, <4>1
    <3>2. CASE i # n + 1
      <4>1. i \in 0 .. n /\ (i # 0 => i - 1 \in 0 .. n)
        BY <3>2
      <4>2. h[i] = IF i = 0 THEN Begun(declared) ELSE CallOrRest(h[i - 1], limit, unread)
        BY <2>1, <4>1 DEF IsWalk
      <4> QED
        BY <2>2, <4>1, <4>2
    <3> QED
      BY <3>1, <3>2
  <2>5. W(g, n + 1)
    BY <2>4 DEF IsWalk
  <2> QED
    BY <2>5
<1>3. Nat \subseteq UpTo
  <2> HIDE DEF UpTo
  <2> QED
    BY <1>1, <1>2, Induct
<1> QED
  BY <1>3

LEMMA WalksAgree ==
  ASSUME NEW declared, NEW limit, NEW unread, NEW g, NEW h, NEW m \in Nat, NEW n \in Nat,
         IsWalk(g, declared, limit, unread, m), IsWalk(h, declared, limit, unread, n)
  PROVE  \A i \in 0 .. m : i <= n => g[i] = h[i]
<1> DEFINE Same == {i \in Nat : i <= m /\ i <= n => g[i] = h[i]}
<1>1. 0 \in Same
  <2>1. 0 \in 0 .. m /\ 0 \in 0 .. n
    OBVIOUS
  <2>2. g[0] = Begun(declared) /\ h[0] = Begun(declared)
    BY <2>1 DEF IsWalk
  <2> QED
    BY <2>2
<1>2. ASSUME NEW i \in Nat, i \in Same PROVE i + 1 \in Same
  <2> SUFFICES ASSUME i + 1 <= m, i + 1 <= n PROVE g[i + 1] = h[i + 1]
    OBVIOUS
  <2>1. /\ i + 1 \in 0 .. m /\ i + 1 \in 0 .. n /\ i + 1 # 0 /\ (i + 1) - 1 = i
        /\ g[i] = h[i]
    BY <1>2
  <2>2. g[i + 1] = CallOrRest(g[i], limit, unread) /\ h[i + 1] = CallOrRest(h[i], limit, unread)
    BY <2>1 DEF IsWalk
  <2> QED
    BY <2>1, <2>2
<1>3. Nat \subseteq Same
  <2> HIDE DEF Same
  <2> QED
    BY <1>1, <1>2, Induct
<1> QED
  BY <1>3

\* DiscoverSitemapURLs is what its walk has come to after that many calls.
WholeWalk(w, declared, limit, unread) ==
  /\ w[0] = Begun(declared)
  /\ \A n \in Nat : w[n + 1] = CallOrRest(w[n], limit, unread)
  /\ DiscoverSitemapURLs(declared, limit, unread) = w[Len(declared) + Cardinality(Children)]

LEMMA WalkUnfolds ==
  ASSUME NEW declared, NEW limit, NEW unread
  PROVE  \E w : WholeWalk(w, declared, limit, unread)
<1> DEFINE W(g, n) == IsWalk(g, declared, limit, unread, n)
           R(g) == [n \in Nat |-> IF n = 0 THEN Begun(declared)
                                  ELSE CallOrRest(g[n - 1], limit, unread)]
           G == CHOOSE g : g = R(g)
           w == [n \in Nat |-> (CHOOSE g : W(g, n))[n]]
<1>1. w = R(w)
  <2>1. ASSUME NEW n \in Nat
        PROVE  w[n] = IF n = 0 THEN Begun(declared) ELSE CallOrRest(w[n - 1], limit, unread)
    <3>1. PICK g : W(g, n) /\ w[n] = g[n]
      BY WalksExist
    <3>2. g[n] = IF n = 0 THEN Begun(declared) ELSE CallOrRest(g[n - 1], limit, unread)
      BY <3>1 DEF IsWalk
    <3>3. ASSUME n # 0 PROVE w[n - 1] = g[n - 1]
      <4>1. n - 1 \in Nat /\ n - 1 \in 0 .. n - 1 /\ n - 1 <= n
        BY <3>3
      <4>2. PICK h : W(h, n - 1) /\ w[n - 1] = h[n - 1]
        BY <4>1, WalksExist
      <4> QED
        BY <3>1, <4>1, <4>2, WalksAgree
    <3> QED
      BY <3>1, <3>2, <3>3
  <2>2. DOMAIN w = Nat /\ w = [n \in DOMAIN w |-> w[n]]
    OBVIOUS
  <2> HIDE DEF w
  <2> QED
    BY <2>1, <2>2
<1> HIDE DEF w
<1>2. G = R(G)
  <2> HIDE DEF R
  <2> QED
    BY <1>1
<1>3. DiscoverSitemapURLs(declared, limit, unread) = G[Len(declared) + Cardinality(Children)]
  BY DEF DiscoverSitemapURLs, CallOrRest
<1> HIDE DEF G
<1>4. G[0] = Begun(declared)
  BY <1>2
<1>5. ASSUME NEW n \in Nat PROVE G[n + 1] = CallOrRest(G[n], limit, unread)
  <2>1. n + 1 \in Nat /\ n + 1 # 0 /\ (n + 1) - 1 = n
    OBVIOUS
  <2> QED
    BY <1>2, <2>1
<1>6. WholeWalk(G, declared, limit, unread)
  BY <1>3, <1>4, <1>5, Zenon DEF WholeWalk
<1> QED
  BY <1>6

-----------------------------------------------------------------------------
(* Counting what files list *)

Pairs(locs, files) == UNION {{f} \X DOMAIN locs[f] : f \in files}

LEMMA PairsOf ==
  ASSUME NEW locs, NEW files
  PROVE  \A f, n : <<f, n>> \in Pairs(locs, files) <=> f \in files /\ n \in DOMAIN locs[f]
  BY DEF Pairs

LEMMA PairsFinite ==
  ASSUME NEW X, NEW locs \in [SitemapFile -> Seq(X)], NEW files \in SUBSET SitemapFile
  PROVE  IsFiniteSet(Pairs(locs, files)) /\ Cardinality(Pairs(locs, files)) \in Nat
<1> DEFINE All == SitemapFile \X UNION {DOMAIN locs[f] : f \in SitemapFile}
<1>1. IsFiniteSet(SitemapFile)
  BY SitemapAssumption
<1>2. \A f \in SitemapFile : IsFiniteSet(DOMAIN locs[f])
  <2> SUFFICES ASSUME NEW f \in SitemapFile PROVE IsFiniteSet(DOMAIN locs[f])
    OBVIOUS
  <2>1. Len(locs[f]) \in Nat /\ DOMAIN locs[f] = 1 .. Len(locs[f])
    BY LenProperties
  <2> QED
    BY <2>1, FS_Interval
<1>3. IsFiniteSet({DOMAIN locs[f] : f \in SitemapFile})
  <2> DEFINE image == [f \in SitemapFile |-> DOMAIN locs[f]]
  <2>1. image \in Surjection(SitemapFile, {DOMAIN locs[f] : f \in SitemapFile})
    BY DEF Surjection
  <2> QED
    BY <1>1, <2>1, FS_Surjection
<1>4. IsFiniteSet(UNION {DOMAIN locs[f] : f \in SitemapFile})
  BY <1>2, <1>3, FS_UNION
<1>5. IsFiniteSet(All)
  BY <1>1, <1>4, FS_Product
<1>6. Pairs(locs, files) \subseteq All
  BY DEF Pairs
<1> QED
  BY <1>5, <1>6, FS_Subset, FS_CardinalityType

LEMMA PairsGrow ==
  ASSUME NEW X, NEW locs \in [SitemapFile -> Seq(X)], NEW files \in SUBSET SitemapFile,
         NEW part \in SUBSET files
  PROVE  /\ Pairs(locs, part) \subseteq Pairs(locs, files)
         /\ Cardinality(Pairs(locs, part)) <= Cardinality(Pairs(locs, files))
         /\ Cardinality(Pairs(locs, part)) = Cardinality(Pairs(locs, files))
               => Pairs(locs, part) = Pairs(locs, files)
<1>1. Pairs(locs, part) \subseteq Pairs(locs, files)
  BY DEF Pairs
<1> QED
  BY <1>1, PairsFinite, FS_Subset

\* One more file adds what it lists.
LEMMA PairsAdd ==
  ASSUME NEW X, NEW locs \in [SitemapFile -> Seq(X)], NEW files \in SUBSET SitemapFile,
         NEW f \in SitemapFile \ files
  PROVE  Cardinality(Pairs(locs, files \cup {f}))
           = Cardinality(Pairs(locs, files)) + Len(locs[f])
<1> DEFINE new == {f} \X (1 .. Len(locs[f]))
<1>1. Len(locs[f]) \in Nat /\ DOMAIN locs[f] = 1 .. Len(locs[f])
  BY LenProperties
<1>2. IsFiniteSet(new) /\ Cardinality(new) = Len(locs[f])
  <2>1. IsFiniteSet(1 .. Len(locs[f])) /\ Cardinality(1 .. Len(locs[f])) = Len(locs[f])
    <3>1. 0 + 1 \in Int /\ Len(locs[f]) \in Int /\ 1 \in Int
      BY <1>1
    <3>2. /\ IsFiniteSet(1 .. Len(locs[f]))
          /\ Cardinality(1 .. Len(locs[f]))
               = IF 1 > Len(locs[f]) THEN 0 ELSE Len(locs[f]) - 1 + 1
      BY <3>1, FS_Interval, Zenon
    <3> QED
      BY <1>1, <3>2
  <2>2. IsFiniteSet({f}) /\ Cardinality({f}) = 1
    BY FS_Singleton
  <2>3. IsFiniteSet(new) /\ Cardinality(new) = 1 * Len(locs[f])
    BY <2>1, <2>2, FS_Product
  <2>4. \A k \in Nat : 1 * k = k
    OBVIOUS
  <2> HIDE DEF new
  <2>5. 1 * Len(locs[f]) = Len(locs[f])
    BY <1>1, <2>4
  <2> QED
    BY <2>3, <2>5
<1>3. Pairs(locs, files \cup {f}) = Pairs(locs, files) \cup new
  BY <1>1 DEF Pairs
<1>4. Pairs(locs, files) \cap new = {}
  BY DEF Pairs
<1>5. IsFiniteSet(Pairs(locs, files)) /\ Cardinality(Pairs(locs, files)) \in Nat
  BY PairsFinite
<1> HIDE DEF new
<1>6. Cardinality(Pairs(locs, files) \cup new)
        = Cardinality(Pairs(locs, files)) + Cardinality(new) - Cardinality({})
  BY <1>2, <1>4, <1>5, FS_Union
<1>7. Cardinality({}) = 0
  BY FS_EmptySet
<1>8. Cardinality(Pairs(locs, files) \cup new)
        = Cardinality(Pairs(locs, files)) + Cardinality(new)
  BY <1>1, <1>2, <1>5, <1>6, <1>7
<1> QED
  BY <1>2, <1>3, <1>8

-----------------------------------------------------------------------------
(* The list of calls *)

CallType == [file : SitemapFile, child : BOOLEAN]

LEMMA CallsOf ==
  ASSUME NEW files \in Seq(SitemapFile), NEW child \in BOOLEAN
  PROVE  /\ Calls(files, child) \in Seq(CallType) /\ Len(files) \in Nat
         /\ Len(Calls(files, child)) = Len(files)
         /\ \A n \in 1 .. Len(files) : /\ Calls(files, child)[n].file = files[n]
                                      /\ Calls(files, child)[n].child = child
<1>1. /\ Len(files) \in Nat /\ DOMAIN files = 1 .. Len(files)
      /\ files \in [1 .. Len(files) -> SitemapFile]
  BY LenProperties
<1>2. Calls(files, child) \in [1 .. Len(files) -> CallType]
  BY <1>1 DEF Calls, CallType
<1>3. Calls(files, child) \in Seq(CallType)
  BY <1>1, <1>2, SeqDef
<1>4. Len(Calls(files, child)) = Len(files)
  BY <1>1, <1>2
<1> QED
  BY <1>1, <1>3, <1>4 DEF Calls

FilesOf(calls) == {calls[n].file : n \in 1 .. Len(calls)}

\* The first `children` calls are of children: an index puts its own in front.
InFront(calls, children) ==
  /\ children \in 0 .. Len(calls)
  /\ \A n \in 1 .. Len(calls) : calls[n].child <=> n <= children

\* The next call is taken off the list.
LEMMA Taken ==
  ASSUME NEW calls \in Seq(CallType), calls # <<>>,
         NEW c \in Nat, InFront(calls, c)
  PROVE  /\ Tail(calls) \in Seq(CallType) /\ Len(calls) \in Nat \ {0}
         /\ Len(Tail(calls)) = Len(calls) - 1
         /\ Head(calls) \in CallType /\ (Head(calls).child <=> c # 0)
         /\ FilesOf(calls) = FilesOf(Tail(calls)) \cup {Head(calls).file}
         /\ InFront(Tail(calls), IF c = 0 THEN 0 ELSE c - 1)
<1>1. /\ Tail(calls) \in Seq(CallType) /\ Len(Tail(calls)) = Len(calls) - 1
      /\ \A i \in 1 .. Len(Tail(calls)) : Tail(calls)[i] = calls[i + 1]
      /\ Head(calls) \in CallType /\ Len(calls) \in Nat \ {0}
  BY HeadTailProperties, EmptySeq
<1>2. Head(calls) = calls[1] /\ 1 \in 1 .. Len(calls)
  BY <1>1
<1>3. FilesOf(calls) = FilesOf(Tail(calls)) \cup {Head(calls).file}
  <2>1. ASSUME NEW n \in 1 .. Len(calls), n # 1
        PROVE  n - 1 \in 1 .. Len(Tail(calls)) /\ calls[n] = Tail(calls)[n - 1]
    <3>1. n - 1 \in 1 .. Len(Tail(calls)) /\ (n - 1) + 1 = n
      BY <1>1, <2>1
    <3> QED
      BY <1>1, <3>1
  <2>2. ASSUME NEW n \in 1 .. Len(Tail(calls))
        PROVE  n + 1 \in 1 .. Len(calls) /\ calls[n + 1] = Tail(calls)[n]
    BY <1>1
  <2> QED
    BY <1>2, <2>1, <2>2 DEF FilesOf
<1>4. Head(calls).child <=> c # 0
  BY <1>2 DEF InFront
<1>5. InFront(Tail(calls), IF c = 0 THEN 0 ELSE c - 1)
  <2>1. ASSUME NEW n \in 1 .. Len(Tail(calls))
        PROVE  Tail(calls)[n].child <=> n <= IF c = 0 THEN 0 ELSE c - 1
    <3>1. n + 1 \in 1 .. Len(calls) /\ Tail(calls)[n] = calls[n + 1]
      BY <1>1
    <3>2. Tail(calls)[n].child <=> n + 1 <= c
      BY <3>1 DEF InFront
    <3> QED
      BY <3>2
  <2> QED
    BY <1>1, <2>1 DEF InFront
<1> QED
  BY <1>1, <1>3, <1>4, <1>5

\* An index's children are put in front.
LEMMA Pushed ==
  ASSUME NEW files \in Seq(SitemapFile), NEW calls \in Seq(CallType),
         NEW c \in Nat, InFront(calls, c)
  PROVE  LET all == Calls(files, TRUE) \o calls IN
         /\ all \in Seq(CallType) /\ Len(all) = Len(files) + Len(calls)
         /\ Len(files) \in Nat /\ Len(calls) \in Nat
         /\ FilesOf(all) = {files[n] : n \in 1 .. Len(files)} \cup FilesOf(calls)
         /\ InFront(all, Len(files) + c)
<1> DEFINE front == Calls(files, TRUE)
           all == front \o calls
<1>1. /\ front \in Seq(CallType) /\ Len(files) \in Nat /\ Len(front) = Len(files)
      /\ \A n \in 1 .. Len(files) : front[n].file = files[n] /\ front[n].child = TRUE
  BY CallsOf
<1>2. Len(calls) \in Nat
  BY LenProperties
<1> HIDE DEF front
<1>3. /\ all \in Seq(CallType) /\ Len(all) = Len(files) + Len(calls)
      /\ \A i \in 1 .. Len(all) : all[i] = IF i <= Len(files) THEN front[i]
                                          ELSE calls[i - Len(files)]
  <2>1. /\ all \in Seq(CallType) /\ Len(all) = Len(front) + Len(calls)
        /\ \A i \in 1 .. Len(front) + Len(calls) :
             all[i] = IF i <= Len(front) THEN front[i] ELSE calls[i - Len(front)]
    <3>1. front \in Seq(CallType) /\ calls \in Seq(CallType)
      BY <1>1
    <3>2. front \o calls \in Seq(CallType)
      BY <3>1, ConcatProperties
    <3>3. Len(front \o calls) = Len(front) + Len(calls)
      BY <3>1, ConcatProperties
    <3>4. \A i \in 1 .. Len(front) + Len(calls) :
            (front \o calls)[i] = IF i <= Len(front) THEN front[i] ELSE calls[i - Len(front)]
      BY <3>1, ConcatProperties
    <3> QED
      BY <3>2, <3>3, <3>4
  <2> HIDE DEF all
  <2> QED
    BY <1>1, <2>1
<1> HIDE DEF all
<1>4. ASSUME NEW n \in 1 .. Len(files) PROVE n \in 1 .. Len(all) /\ all[n] = front[n]
  BY <1>1, <1>2, <1>3
<1>5. ASSUME NEW n \in 1 .. Len(calls)
      PROVE  n + Len(files) \in 1 .. Len(all) /\ all[n + Len(files)] = calls[n]
  <2>1. /\ n + Len(files) \in 1 .. Len(all) /\ ~ (n + Len(files) <= Len(files))
        /\ (n + Len(files)) - Len(files) = n
    BY <1>1, <1>2, <1>3
  <2> QED
    BY <1>3, <2>1
<1>6. ASSUME NEW n \in 1 .. Len(all)
      PROVE  \/ n \in 1 .. Len(files)
             \/ n - Len(files) \in 1 .. Len(calls) /\ all[n] = calls[n - Len(files)]
  BY <1>1, <1>2, <1>3
<1>7. FilesOf(all) = {files[n] : n \in 1 .. Len(files)} \cup FilesOf(calls)
  <2>1. ASSUME NEW n \in 1 .. Len(all)
        PROVE  all[n].file \in {files[m] : m \in 1 .. Len(files)} \cup FilesOf(calls)
    <3>1. CASE n \in 1 .. Len(files)
      BY <1>1, <1>4, <3>1
    <3>2. CASE n \notin 1 .. Len(files)
      BY <1>6, <3>2 DEF FilesOf
    <3> QED
      BY <3>1, <3>2
  <2>2. \A n \in 1 .. Len(files) : files[n] \in FilesOf(all)
    BY <1>1, <1>4 DEF FilesOf
  <2>3. FilesOf(calls) \subseteq FilesOf(all)
    BY <1>5 DEF FilesOf
  <2>4. FilesOf(all) \subseteq {files[n] : n \in 1 .. Len(files)} \cup FilesOf(calls)
    BY <2>1, Zenon DEF FilesOf
  <2> QED
    BY <2>2, <2>3, <2>4
<1>8. InFront(all, Len(files) + c)
  <2>1. c \in 0 .. Len(calls)
    BY DEF InFront
  <2>2. ASSUME NEW n \in 1 .. Len(all) PROVE all[n].child <=> n <= Len(files) + c
    <3>1. CASE n \in 1 .. Len(files)
      BY <1>1, <1>4, <2>1, <3>1
    <3>2. CASE n \notin 1 .. Len(files)
      <4>1. n - Len(files) \in 1 .. Len(calls) /\ all[n] = calls[n - Len(files)]
        BY <1>6, <3>2
      <4>2. all[n].child <=> n - Len(files) <= c
        BY <4>1 DEF InFront
      <4> QED
        BY <1>1, <1>3, <2>1, <4>2
    <3> QED
      BY <3>1, <3>2
  <2> QED
    BY <1>1, <1>2, <1>3, <2>1, <2>2 DEF InFront
<1> QED
  BY <1>1, <1>2, <1>3, <1>7, <1>8 DEF all, front

-----------------------------------------------------------------------------
(* The files the walk can reach *)

LEMMA ReachClosed ==
  ASSUME NEW declared \in Seq(SitemapFile), NEW bars
  PROVE  /\ Reachable(declared, bars) \subseteq SitemapFile
         /\ \A n \in DOMAIN declared : declared[n] \in Reachable(declared, bars)
         /\ Closed(Reachable(declared, bars), bars)
         /\ \A files \in SUBSET SitemapFile :
              Closed(files, bars) /\ (\A n \in DOMAIN declared : declared[n] \in files)
                => Reachable(declared, bars) \subseteq files
<1>1. \A n \in DOMAIN declared : declared[n] \in SitemapFile
  BY LenProperties
<1>2. Closed(Reachable(declared, bars), bars)
  <2> SUFFICES ASSUME NEW f \in Reachable(declared, bars) \ bars, NEW n \in DOMAIN ChildLocs[f]
               PROVE  ChildLocs[f][n] \in Reachable(declared, bars)
    BY DEF Closed
  <2>1. f \in SitemapFile
    BY DEF Reachable
  <2>2. ChildLocs[f] \in Seq(SitemapFile)
    BY <2>1, SitemapAssumption
  <2>3. ChildLocs[f][n] \in SitemapFile
    BY <2>2, LenProperties
  <2>4. ASSUME NEW files \in SUBSET SitemapFile, Closed(files, bars),
               \A i \in DOMAIN declared : declared[i] \in files
        PROVE  ChildLocs[f][n] \in files
    <3>1. f \in files
      BY <2>4 DEF Reachable
    <3> QED
      BY <2>4, <3>1 DEF Closed
  <2> QED
    BY <2>3, <2>4 DEF Reachable
<1> QED
  BY <1>1, <1>2 DEF Reachable

Read(w, unread) == w.visited \ unread

\* Without a cap the walk has read the pages it counts, and has still to call
\* what it has not followed.
WalkInv(w, n, declared, limit, unread, bars) ==
  LET read == Read(w, unread) IN
  /\ w.calls \in Seq(CallType) /\ w.visited \subseteq SitemapFile
  /\ w.pages \in Seq(Url) /\ w.children \in Nat
  /\ FilesOf(w.calls) \cup w.visited \subseteq Reachable(declared, bars)
  /\ \E c \in Nat : InFront(w.calls, c)
                    /\ w.children + c = Cardinality(Pairs(ChildLocs, read))
  /\ Len(w.pages) = Cardinality(Pairs(PageLocs, read))
  /\ \A u \in Listed(read) : \E i \in DOMAIN w.pages : w.pages[i] = u
  /\ Len(w.pages) < limit =>
       /\ \A i \in DOMAIN declared : declared[i] \in w.visited \cup FilesOf(w.calls)
       /\ \A f \in read : \A i \in DOMAIN ChildLocs[f] :
            ChildLocs[f][i] \in w.visited \cup FilesOf(w.calls)
  /\ w.calls # <<>> =>
       n + Len(w.calls) = Len(declared) + Cardinality(Pairs(ChildLocs, read))

LEMMA WalkBegins ==
  ASSUME NEW declared \in Seq(SitemapFile), NEW limit \in Nat, NEW unread, NEW bars
  PROVE  WalkInv(Begun(declared), 0, declared, limit, unread, bars)
<1>1. PICK calls : calls = Calls(declared, FALSE)
  OBVIOUS
<1>2. /\ calls \in Seq(CallType) /\ Len(declared) \in Nat
      /\ Len(calls) = Len(declared)
      /\ \A n \in 1 .. Len(declared) : calls[n].file = declared[n] /\ ~ calls[n].child
  BY <1>1, CallsOf
<1>3. DOMAIN declared = 1 .. Len(declared)
  BY LenProperties
<1>4. FilesOf(calls) = {declared[n] : n \in DOMAIN declared}
  BY <1>2, <1>3 DEF FilesOf
<1>5. /\ Pairs(ChildLocs, {}) = {} /\ Pairs(PageLocs, {}) = {} /\ Listed({}) = {}
      /\ Cardinality({}) = 0
  BY FS_EmptySet DEF Pairs, Listed
<1>6. InFront(calls, 0)
  <2>1. 0 \in 0 .. Len(calls)
    BY <1>2
  <2>2. \A n \in 1 .. Len(calls) : ~ calls[n].child /\ ~ (n <= 0)
    BY <1>2
  <2> QED
    BY <2>1, <2>2, Zenon DEF InFront
<1>7. FilesOf(calls) \cup {} \subseteq Reachable(declared, bars)
  BY <1>4, ReachClosed
<1>8. <<>> \in Seq(Url) /\ Len(<<>>) = 0
  BY EmptySeq
<1>9. \E c \in Nat : InFront(calls, c) /\ 0 + c = Cardinality(Pairs(ChildLocs, {}))
  <2>1. 0 + 0 = Cardinality(Pairs(ChildLocs, {})) /\ 0 \in Nat
    BY <1>5
  <2> QED
    BY <1>6, <2>1, Zenon
<1>10. 0 + Len(calls) = Len(declared) + Cardinality(Pairs(ChildLocs, {}))
  <2>1. \A a, b, k : a \in Nat /\ b = a /\ k = 0 => 0 + b = a + k
    OBVIOUS
  <2>2. Cardinality(Pairs(ChildLocs, {})) = 0
    BY <1>5
  <2> QED
    BY <1>2, <2>1, <2>2, Zenon
<1>11. PICK w : w = Begun(declared)
  OBVIOUS
<1>12. /\ w.calls = calls /\ w.visited = {} /\ w.pages = <<>> /\ w.children = 0
       /\ Read(w, unread) = {}
  BY <1>1, <1>11 DEF Begun, Read
<1>13. WalkInv(w, 0, declared, limit, unread, bars)
  <2>1. \A i \in DOMAIN declared : declared[i] \in FilesOf(calls)
    BY <1>4
  <2>2. Len(<<>>) = Cardinality(Pairs(PageLocs, {})) /\ 0 \in Nat
    BY <1>5, <1>8
  <2> QED
    BY <1>2, <1>5, <1>7, <1>8, <1>9, <1>10, <1>12, <2>1, <2>2, Zenon DEF WalkInv
<1> QED
  BY <1>11, <1>13

\* One call, when no cap cuts the walk.
LEMMA WalkStep ==
  ASSUME NEW declared \in Seq(SitemapFile), NEW limit \in Nat, NEW unread,
         NEW bars \in SUBSET unread, NEW n \in Nat,
         Uncapped(Reachable(declared, bars) \ bars, limit),
         NEW w, WalkInv(w, n, declared, limit, unread, bars)
  PROVE  WalkInv(CallOrRest(w, limit, unread), n + 1, declared, limit, unread, bars)
<1>1. CASE w.calls = <<>>
  <2>1. CallOrRest(w, limit, unread) = w
    BY <1>1 DEF CallOrRest
  <2>2. WalkInv(w, n + 1, declared, limit, unread, bars)
    BY <1>1, Zenon DEF WalkInv
  <2> QED
    BY <2>1, <2>2
<1>2. CASE w.calls # <<>>
  <2> DEFINE files == Reachable(declared, bars) \ bars
             reach == Reachable(declared, bars)
             listed(read) == Cardinality(Pairs(PageLocs, read))
             below(read) == Cardinality(Pairs(ChildLocs, read))
  <2>1. PICK v : v = CallOrRest(w, limit, unread)
    OBVIOUS
  <2>2. v = FetchSitemap(w, limit, unread)
    BY <1>2, <2>1 DEF CallOrRest
  <2>3. PICK calls, visited, pages, children :
          /\ calls = w.calls /\ visited = w.visited /\ pages = w.pages /\ children = w.children
    OBVIOUS
  <2>4. PICK read : read = visited \ unread
    OBVIOUS
  <2>5. Read(w, unread) = read
    BY <2>3, <2>4 DEF Read
  <2>6. /\ calls \in Seq(CallType) /\ visited \subseteq SitemapFile
        /\ pages \in Seq(Url) /\ children \in Nat
        /\ FilesOf(calls) \cup visited \subseteq reach
        /\ \E c \in Nat : InFront(calls, c) /\ children + c = below(read)
        /\ Len(pages) = listed(read)
        /\ \A u \in Listed(read) : \E i \in DOMAIN pages : pages[i] = u
        /\ Len(pages) < limit =>
             /\ \A i \in DOMAIN declared : declared[i] \in visited \cup FilesOf(calls)
             /\ \A f \in read : \A i \in DOMAIN ChildLocs[f] :
                  ChildLocs[f][i] \in visited \cup FilesOf(calls)
        /\ n + Len(calls) = Len(declared) + below(read)
    BY <1>2, <2>3, <2>5, Zenon DEF WalkInv
  <2>7. PICK c \in Nat : InFront(calls, c) /\ children + c = below(read)
    BY <2>6
  <2>8. PICK rest : rest = Tail(calls)
    OBVIOUS
  <2>9. PICK call : call = Head(calls)
    OBVIOUS
  <2>10. PICK after \in Nat : after = IF c = 0 THEN 0 ELSE c - 1
    OBVIOUS
  <2>11. /\ rest \in Seq(CallType) /\ Len(calls) \in Nat \ {0}
         /\ Len(rest) = Len(calls) - 1
         /\ call \in CallType /\ (call.child <=> c # 0)
         /\ FilesOf(calls) = FilesOf(rest) \cup {call.file}
         /\ InFront(rest, after)
    BY <1>2, <2>3, <2>6, <2>7, <2>8, <2>9, <2>10, Taken
  <2>12. call.file \in SitemapFile /\ call.file \in reach
    BY <2>6, <2>11 DEF CallType
  <2>13. /\ reach \subseteq SitemapFile /\ Closed(reach, bars)
    BY ReachClosed
  <2>14. read \subseteq SitemapFile /\ read \subseteq files
    BY <2>4, <2>6, <2>13
  <2>15. /\ below(read) \in Nat /\ listed(read) \in Nat
         /\ below(read) <= MaxChildSitemaps /\ MaxChildSitemaps \in Nat
    <3>1. files \subseteq SitemapFile
      BY <2>13
    <3>2. ChildLocs \in [SitemapFile -> Seq(SitemapFile)] /\ MaxChildSitemaps \in Nat
      BY SitemapAssumption
    <3>3. PageLocs \in [SitemapFile -> Seq(Url)]
      BY SitemapAssumption
    <3>4. below(files) <= MaxChildSitemaps
      BY DEF Uncapped, Pairs
    <3> HIDE DEF files
    <3>5. below(read) \in Nat /\ below(files) \in Nat /\ below(read) <= below(files)
      BY <2>14, <3>1, <3>2, PairsFinite, PairsGrow
    <3>6. listed(read) \in Nat
      BY <2>14, <3>3, PairsFinite
    <3> QED
      BY <3>2, <3>4, <3>5, <3>6
  <2>16. ~ (call.child /\ children >= MaxChildSitemaps)
    BY <2>6, <2>7, <2>11, <2>15
  <2>17. PICK counted \in Nat : counted = IF call.child THEN children + 1 ELSE children
    BY <2>6
  <2>18. counted + after = children + c
    BY <2>6, <2>7, <2>10, <2>11, <2>17
  <2>19. CASE ~ (call.file \notin visited /\ Len(pages) < limit /\ call.file \notin unread)
    <3>1. PICK gone : gone = IF call.file \notin visited /\ Len(pages) < limit
                               THEN visited \cup {call.file} ELSE visited
      OBVIOUS
    <3>2. v.calls = rest /\ v.visited = gone /\ v.pages = pages /\ v.children = counted
      BY <2>2, <2>3, <2>8, <2>9, <2>16, <2>17, <2>19, <3>1, Zenon DEF FetchSitemap
    <3>3. gone \ unread = read
      BY <2>4, <2>19, <3>1
    <3>4. gone \subseteq SitemapFile /\ FilesOf(rest) \cup gone \subseteq reach
      BY <2>6, <2>11, <2>12, <3>1
    <3>5. counted + after = below(read)
      BY <2>7, <2>18
    <3>6. Len(pages) < limit => visited \cup FilesOf(calls) \subseteq gone \cup FilesOf(rest)
      BY <2>11, <3>1
    <3>7. (n + 1) + Len(rest) = Len(declared) + below(read)
      BY <2>6, <2>11
    <3>8. Read(v, unread) = read
      BY <3>2, <3>3 DEF Read
    <3>9. Len(pages) < limit =>
            /\ \A i \in DOMAIN declared : declared[i] \in gone \cup FilesOf(rest)
            /\ \A f \in read : \A i \in DOMAIN ChildLocs[f] :
                 ChildLocs[f][i] \in gone \cup FilesOf(rest)
      BY <2>6, <3>6
    <3>10. WalkInv(v, n + 1, declared, limit, unread, bars)
      BY <2>6, <2>11, <3>2, <3>4, <3>5, <3>7, <3>8, <3>9, Zenon DEF WalkInv
    <3> QED
      BY <2>1, <3>10
  <2>20. CASE call.file \notin visited /\ Len(pages) < limit /\ call.file \notin unread
    <3>1. PICK gone, more, f : /\ f = call.file /\ gone = visited \cup {f}
                               /\ more = Calls(ChildLocs[f], TRUE) \o rest
      OBVIOUS
    <3>2. PICK now : now = read \cup {f}
      OBVIOUS
    <3>3. f \in SitemapFile \ read /\ now = gone \ unread /\ now \subseteq files
      BY <2>4, <2>12, <2>14, <2>20, <3>1, <3>2
    <3>4. PageLocs[f] \in Seq(Url) /\ ChildLocs[f] \in Seq(SitemapFile)
      BY <3>3, SitemapAssumption
    <3>5. /\ PageLocs \in [SitemapFile -> Seq(Url)]
          /\ ChildLocs \in [SitemapFile -> Seq(SitemapFile)]
      BY SitemapAssumption
    <3>6. listed(now) = listed(read) + Len(PageLocs[f])
      BY <2>14, <3>2, <3>3, <3>5, PairsAdd
    <3>7. below(now) = below(read) + Len(ChildLocs[f])
      BY <2>14, <3>2, <3>3, <3>5, PairsAdd
    <3>8. listed(now) <= limit
      <4>1. files \subseteq SitemapFile /\ listed(files) <= limit
        BY <2>13 DEF Uncapped, Pairs
      <4> HIDE DEF files
      <4>2. now \subseteq SitemapFile /\ listed(now) <= listed(files)
        BY <3>3, <3>5, <4>1, PairsGrow
      <4>3. listed(now) \in Nat /\ listed(files) \in Nat
        BY <3>5, <4>1, <4>2, PairsFinite
      <4> QED
        BY <4>1, <4>2, <4>3
    <3>9. PICK all : all = pages \o PageLocs[f]
      OBVIOUS
    <3>10. /\ all \in Seq(Url) /\ Len(all) = Len(pages) + Len(PageLocs[f])
           /\ DOMAIN all = 1 .. Len(all)
           /\ \A i \in 1 .. Len(pages) + Len(PageLocs[f]) : all[i] =
                IF i <= Len(pages) THEN pages[i] ELSE PageLocs[f][i - Len(pages)]
      BY <2>6, <3>4, <3>9, ConcatProperties, LenProperties
    <3>11. Len(all) = listed(now) /\ AtMost(limit, all) = all
      BY <2>6, <3>6, <3>8, <3>10 DEF AtMost
    <3>12. /\ Len(pages) \in Nat /\ DOMAIN pages = 1 .. Len(pages)
           /\ Len(PageLocs[f]) \in Nat /\ DOMAIN PageLocs[f] = 1 .. Len(PageLocs[f])
           /\ Len(ChildLocs[f]) \in Nat /\ DOMAIN ChildLocs[f] = 1 .. Len(ChildLocs[f])
      BY <2>6, <3>4, LenProperties
    <3>13. ASSUME NEW i \in DOMAIN pages PROVE i \in DOMAIN all /\ all[i] = pages[i]
      BY <3>10, <3>12, <3>13
    <3>14. ASSUME NEW i \in DOMAIN PageLocs[f]
           PROVE  Len(pages) + i \in DOMAIN all /\ all[Len(pages) + i] = PageLocs[f][i]
      <4>1. i \in Nat /\ 1 <= i /\ i <= Len(PageLocs[f])
        BY <3>12, <3>14
      <4>2. /\ Len(pages) + i \in 1 .. Len(pages) + Len(PageLocs[f])
            /\ ~ (Len(pages) + i <= Len(pages)) /\ (Len(pages) + i) - Len(pages) = i
        BY <3>12, <4>1
      <4> QED
        BY <3>10, <4>2
    <3>15. \A u \in Listed(now) : \E i \in DOMAIN all : all[i] = u
      <4> SUFFICES ASSUME NEW u \in Listed(now) PROVE \E i \in DOMAIN all : all[i] = u
        OBVIOUS
      <4>1. CASE u \in Listed(read)
        BY <2>6, <3>13, <4>1
      <4>2. CASE u \notin Listed(read)
        <5>1. PICK i \in DOMAIN PageLocs[f] : PageLocs[f][i] = u
          BY <3>2, <4>2 DEF Listed
        <5> QED
          BY <3>14, <5>1
      <4> QED
        BY <4>1, <4>2
    <3>16. /\ more \in Seq(CallType) /\ Len(more) = Len(ChildLocs[f]) + Len(rest)
           /\ FilesOf(more) = {ChildLocs[f][i] : i \in 1 .. Len(ChildLocs[f])} \cup FilesOf(rest)
           /\ InFront(more, Len(ChildLocs[f]) + after)
      BY <2>11, <3>1, <3>4, Pushed
    <3>17. FilesOf(more) \cup gone \subseteq reach /\ gone \subseteq SitemapFile
      <4>1. f \in reach \ bars
        BY <2>12, <2>20, <3>1
      <4>2. \A i \in DOMAIN ChildLocs[f] : ChildLocs[f][i] \in reach
        BY <2>13, <4>1 DEF Closed
      <4>3. {ChildLocs[f][i] : i \in 1 .. Len(ChildLocs[f])} \subseteq reach
        BY <3>12, <4>2
      <4>4. FilesOf(rest) \subseteq reach /\ visited \subseteq reach
        BY <2>6, <2>11
      <4>5. FilesOf(more) \subseteq reach
        BY <3>16, <4>3, <4>4
      <4> QED
        BY <2>6, <3>1, <3>3, <4>1, <4>4, <4>5
    <3>18. /\ \A i \in DOMAIN declared : declared[i] \in gone \cup FilesOf(more)
           /\ \A g \in now : \A i \in DOMAIN ChildLocs[g] :
                ChildLocs[g][i] \in gone \cup FilesOf(more)
      <4>1. visited \cup FilesOf(calls) \subseteq gone \cup FilesOf(more)
        BY <2>11, <3>1, <3>16
      <4>2. \A i \in DOMAIN ChildLocs[f] : ChildLocs[f][i] \in FilesOf(more)
        BY <3>12, <3>16
      <4> QED
        BY <2>6, <2>20, <3>2, <4>1, <4>2
    <3>19. counted + (Len(ChildLocs[f]) + after) = below(now)
      BY <2>7, <2>15, <2>18, <3>7, <3>12
    <3>20. (n + 1) + Len(more) = Len(declared) + below(now)
      <4>1. Len(declared) \in Nat
        BY LenProperties
      <4>2. PICK d \in Nat : d = Len(declared)
        BY <4>1
      <4>3. PICK a \in Nat : a = below(read)
        BY <2>15
      <4>4. PICK b \in Nat : b = Len(ChildLocs[f])
        BY <3>12
      <4>5. PICK m \in Nat : m = Len(calls)
        BY <2>11
      <4>6. n + m = d + a
        BY <2>6, <4>2, <4>3, <4>5, Zenon
      <4>7. Len(more) = b + (m - 1) /\ below(now) = a + b
        BY <2>11, <3>7, <3>16, <4>3, <4>4, <4>5, Zenon
      <4>8. (n + 1) + (b + (m - 1)) = d + (a + b)
        BY <4>6
      <4> QED
        BY <4>2, <4>7, <4>8, Zenon
    <3>21. v.calls = more /\ v.visited = gone /\ v.pages = all /\ v.children = counted
      BY <2>2, <2>3, <2>8, <2>9, <2>16, <2>17, <2>20, <3>1, <3>9, <3>11, Zenon DEF FetchSitemap
    <3>22. Read(v, unread) = now
      BY <3>3, <3>21 DEF Read
    <3>23. \E k \in Nat : InFront(more, k) /\ counted + k = below(now)
      <4>1. Len(ChildLocs[f]) + after \in Nat
        BY <3>12
      <4> QED
        BY <3>16, <3>19, <4>1, Zenon
    <3>24. WalkInv(v, n + 1, declared, limit, unread, bars)
      BY <3>10, <3>11, <3>15, <3>16, <3>17, <3>18, <3>20, <3>21, <3>22, <3>23, Zenon DEF WalkInv
    <3> QED
      BY <2>1, <3>24
  <2> QED
    BY <2>19, <2>20
<1> QED
  BY <1>1, <1>2

\* A lookup that no cap cuts finds every page that the files it can read list.
LEMMA WalkFinds ==
  ASSUME NEW declared \in Seq(SitemapFile), NEW limit \in Nat, NEW unread \in SUBSET SitemapFile
  PROVE  LET walk == DiscoverSitemapURLs(declared, limit, unread)
             bars == unread \cap walk.visited
             files == Reachable(declared, bars) \ bars
         IN Uncapped(files, limit) =>
              \A u \in Listed(files) : \E i \in DOMAIN walk.pages : walk.pages[i] = u
<1>1. PICK walk, bars, files :
        /\ walk = DiscoverSitemapURLs(declared, limit, unread)
        /\ bars = unread \cap walk.visited
        /\ files = Reachable(declared, bars) \ bars
  OBVIOUS
<1> SUFFICES ASSUME Uncapped(files, limit)
             PROVE  \A u \in Listed(files) : \E i \in DOMAIN walk.pages : walk.pages[i] = u
  BY <1>1
<1>2. PICK w : WholeWalk(w, declared, limit, unread)
  BY WalkUnfolds, Zenon
<1>3. bars \in SUBSET unread
  BY <1>1
<1>4. \A n \in Nat : WalkInv(w[n], n, declared, limit, unread, bars)
  <2> DEFINE Holds == {n \in Nat : WalkInv(w[n], n, declared, limit, unread, bars)}
  <2>1. 0 \in Holds
    BY <1>2, WalkBegins DEF WholeWalk
  <2>2. ASSUME NEW n \in Nat, n \in Holds PROVE n + 1 \in Holds
    <3>1. WalkInv(CallOrRest(w[n], limit, unread), n + 1, declared, limit, unread, bars)
      BY <1>1, <1>3, <2>2, WalkStep
    <3> QED
      BY <1>2, <3>1 DEF WholeWalk
  <2>3. Nat \subseteq Holds
    <3> HIDE DEF Holds
    <3> QED
      BY <2>1, <2>2, Induct
  <2> QED
    BY <2>3
<1>5. Pairs(ChildLocs, SitemapFile) = Children
  BY DEF Pairs, Children
<1>6. Len(declared) \in Nat /\ Cardinality(Children) \in Nat
  <2>1. ChildLocs \in [SitemapFile -> Seq(SitemapFile)]
    BY SitemapAssumption
  <2>2. Cardinality(Pairs(ChildLocs, SitemapFile)) \in Nat
    BY <2>1, PairsFinite
  <2> QED
    BY <1>5, <2>2, LenProperties
<1>7. PICK n \in Nat : n = Len(declared) + Cardinality(Children)
  BY <1>6
<1>8. WalkInv(walk, n, declared, limit, unread, bars)
  BY <1>1, <1>2, <1>4, <1>7, Zenon DEF WholeWalk
<1>9. PICK calls, visited, pages, read :
        /\ calls = walk.calls /\ visited = walk.visited /\ pages = walk.pages
        /\ read = visited \ unread
  OBVIOUS
<1>10. Read(walk, unread) = read
  BY <1>9 DEF Read
<1>11. /\ calls \in Seq(CallType) /\ visited \subseteq SitemapFile /\ pages \in Seq(Url)
       /\ FilesOf(calls) \cup visited \subseteq Reachable(declared, bars)
       /\ Len(pages) = Cardinality(Pairs(PageLocs, read))
       /\ \A u \in Listed(read) : \E i \in DOMAIN pages : pages[i] = u
       /\ Len(pages) < limit =>
            /\ \A i \in DOMAIN declared : declared[i] \in visited \cup FilesOf(calls)
            /\ \A f \in read : \A i \in DOMAIN ChildLocs[f] :
                 ChildLocs[f][i] \in visited \cup FilesOf(calls)
       /\ calls # <<>> =>
            n + Len(calls) = Len(declared) + Cardinality(Pairs(ChildLocs, read))
  BY <1>8, <1>9, <1>10, Zenon DEF WalkInv
<1>12. /\ Reachable(declared, bars) \subseteq SitemapFile
       /\ \A vs \in SUBSET SitemapFile :
            Closed(vs, bars) /\ (\A i \in DOMAIN declared : declared[i] \in vs)
              => Reachable(declared, bars) \subseteq vs
  BY ReachClosed
<1>13. /\ read \subseteq files /\ read \subseteq SitemapFile /\ files \subseteq SitemapFile
       /\ bars = unread \cap visited
  BY <1>1, <1>9, <1>11, <1>12
<1>14. calls = <<>>
  <2> SUFFICES ASSUME calls # <<>> PROVE FALSE
    OBVIOUS
  <2>1. ChildLocs \in [SitemapFile -> Seq(SitemapFile)]
    BY SitemapAssumption
  <2>2. Cardinality(Pairs(ChildLocs, read)) <= Cardinality(Children)
    BY <1>5, <1>13, <2>1, PairsGrow
  <2>3. Cardinality(Pairs(ChildLocs, read)) \in Nat
    BY <1>13, <2>1, PairsFinite
  <2>4. Len(calls) \in Nat /\ Len(calls) # 0
    BY <1>11, EmptySeq, LenProperties
  <2>5. n + Len(calls) = Len(declared) + Cardinality(Pairs(ChildLocs, read))
    BY <1>11
  <2> QED
    BY <1>6, <1>7, <2>2, <2>3, <2>4, <2>5
<1>15. Len(pages) \in Nat
  BY <1>11, LenProperties
<1>16. CASE Len(pages) < limit
  <2>1. FilesOf(calls) = {}
    <3>1. Len(calls) = 0
      BY <1>14
    <3> QED
      BY <3>1 DEF FilesOf
  <2>2. Closed(visited, bars)
    BY <1>11, <1>13, <1>9, <1>16, <2>1 DEF Closed
  <2>3. Reachable(declared, bars) \subseteq visited
    BY <1>11, <1>12, <1>16, <2>1, <2>2
  <2>4. files \subseteq read
    BY <1>1, <1>9, <1>13, <2>3
  <2>5. files = read
    BY <1>13, <2>4
  <2> QED
    BY <1>9, <1>11, <2>5
<1>17. CASE ~ (Len(pages) < limit)
  <2>1. PageLocs \in [SitemapFile -> Seq(Url)]
    BY SitemapAssumption
  <2>2. Cardinality(Pairs(PageLocs, files)) <= limit
    BY DEF Uncapped, Pairs
  <2>3. /\ Cardinality(Pairs(PageLocs, read)) <= Cardinality(Pairs(PageLocs, files))
        /\ Cardinality(Pairs(PageLocs, read)) = Cardinality(Pairs(PageLocs, files))
             => Pairs(PageLocs, read) = Pairs(PageLocs, files)
    BY <1>13, <2>1, PairsGrow
  <2>4. Cardinality(Pairs(PageLocs, read)) \in Nat /\ Cardinality(Pairs(PageLocs, files)) \in Nat
    BY <1>13, <2>1, PairsFinite
  <2>5. Pairs(PageLocs, read) = Pairs(PageLocs, files)
    BY <1>11, <1>15, <1>17, <2>2, <2>3, <2>4
  <2>6. Listed(files) \subseteq Listed(read)
    <3> SUFFICES ASSUME NEW f \in files, NEW i \in DOMAIN PageLocs[f] PROVE f \in read
      BY Zenon DEF Listed
    <3>1. <<f, i>> \in Pairs(PageLocs, files)
      BY Zenon, PairsOf
    <3>2. <<f, i>> \in Pairs(PageLocs, read)
      BY <2>5, <3>1
    <3> QED
      BY <3>2, PairsOf, Zenon
  <2> QED
    BY <1>9, <1>11, <2>6
<1> QED
  BY <1>16, <1>17

-----------------------------------------------------------------------------
(* What the lookups find is brought into the crawl *)

\* What a lookup found is marked seen, and stays so.
FoundIsSeen == \A l \in lookups : \A u \in l.found : KeyOf[u] \in seen

LEMMA EnqueuedIsSeen ==
  ASSUME NEW candidates, NEW known, EnqueueFresh(candidates, known)
  PROVE  known \cup KeysOf(candidates) \subseteq seen'
<1>1. PICK new \in OnePerKey({i \in candidates : KeyOf[i.url] \notin known}) :
        seen' = known \cup KeysOf(new)
  BY DEF EnqueueFresh
<1>2. KeysOf(new) = KeysOf({i \in candidates : KeyOf[i.url] \notin known})
  BY DEF OnePerKey
<1> QED
  BY <1>1, <1>2 DEF KeysOf

LEMMA FoundIsSeenStep == IInv /\ FoundIsSeen /\ [Next]_vars => FoundIsSeen'
<1> SUFFICES ASSUME IInv, FoundIsSeen, [Next]_vars PROVE FoundIsSeen'
  OBVIOUS
<1>1. ASSUME UNCHANGED lookups, seen \subseteq seen' PROVE FoundIsSeen'
  BY <1>1 DEF FoundIsSeen
<1>2. CASE Start
  <2>1. seen = {}
    BY <1>2 DEF Start, IInv, LoopInv
  <2> QED
    BY <1>1, <1>2, <2>1 DEF Start
<1>3. CASE StartNext \/ FillEnds \/ ContinueAsNew \/ End
  <2>1. UNCHANGED <<seen, lookups>>
    BY <1>3 DEF StartNext, FillEnds, ContinueAsNew, Carry, End, frontier, history
  <2> QED
    BY <1>1, <2>1
<1>4. ASSUME NEW s \in Seed, DiscoveryDone(s) PROVE FoundIsSeen'
  <2>1. CASE UNCHANGED <<seen, lookups>>
    BY <1>1, <2>1
  <2>2. CASE \E l \in Lookups :
               /\ EnqueueFresh({FrontierItem(u, 0, HostOf[SeedUrl[s]], SeedPriority[s])
                                  : u \in l.found}, seen)
               /\ lookups' = lookups \cup {l}
    <3>1. PICK l \in Lookups :
            /\ EnqueueFresh({FrontierItem(u, 0, HostOf[SeedUrl[s]], SeedPriority[s])
                               : u \in l.found}, seen)
            /\ lookups' = lookups \cup {l}
      BY <2>2
    <3> DEFINE items == {FrontierItem(u, 0, HostOf[SeedUrl[s]], SeedPriority[s]) : u \in l.found}
    <3>2. ASSUME NEW u \in l.found PROVE KeyOf[u] \in KeysOf(items)
      <4>1. PICK i \in items : i = FrontierItem(u, 0, HostOf[SeedUrl[s]], SeedPriority[s])
        OBVIOUS
      <4>2. i.url = u
        BY <4>1 DEF FrontierItem
      <4> HIDE DEF items
      <4> QED
        BY <4>2 DEF KeysOf
    <3>3. seen \cup KeysOf(items) \subseteq seen'
      <4> HIDE DEF items
      <4>1. EnqueueFresh(items, seen)
        BY <3>1 DEF items
      <4> QED
        BY <4>1, EnqueuedIsSeen
    <3> HIDE DEF items
    <3> QED
      BY <3>1, <3>2, <3>3 DEF FoundIsSeen
  <2> QED
    BY <1>4, <2>1, <2>2 DEF DiscoveryDone, frontier
<1>5. ASSUME NEW i \in active, NEW outcome \in Outcome, PageDone(i, outcome) PROVE FoundIsSeen'
  <2>1. UNCHANGED lookups
    BY <1>5 DEF PageDone
  <2>2. CASE UNCHANGED frontier
    BY <1>1, <2>1, <2>2 DEF frontier
  <2>3. CASE \E nofollow \in BOOLEAN : EnqueueFresh(Follow(i, nofollow), seen \cup Aliases[i.url])
    <3>1. seen \cup Aliases[i.url] \subseteq seen'
      BY <2>3, EnqueuedIsSeen
    <3> QED
      BY <1>1, <2>1, <3>1
  <2> QED
    BY <1>5, <2>2, <2>3 DEF PageDone
<1>6. CASE Cancel \/ UNCHANGED vars
  <2>1. UNCHANGED <<seen, lookups>>
    BY <1>6 DEF Cancel, vars, frontier, history
  <2> QED
    BY <1>1, <2>1
<1> QED
  BY <1>2, <1>3, <1>4, <1>5, <1>6 DEF Next, Work, Ended

\* What a lookup has found when no cap cuts it (WalkFinds), in the terms of the property.
LEMMA LookupsFind ==
  ASSUME NEW l \in Lookups, Uncapped(Reachable(Declared[l.seed], l.unread) \ l.unread, MaxURLs)
  PROVE  \A u \in Listed(Reachable(Declared[l.seed], l.unread) \ l.unread) : u \in l.found
<1>1. PICK s \in Seed, unread \in SUBSET SitemapFile : l = Lookup(s, unread)
  BY DEF Lookups
<1>2. PICK walk : walk = DiscoverSitemapURLs(Declared[s], MaxURLs, unread)
  OBVIOUS
<1>3. l.seed = s /\ l.unread = unread \cap walk.visited /\ l.found = Found(walk)
  BY <1>1, <1>2 DEF Lookup
<1>4. PICK bars : bars = unread \cap walk.visited
  OBVIOUS
<1>5. PICK files : files = Reachable(Declared[s], bars) \ bars
  OBVIOUS
<1>6. Declared[s] \in Seq(SitemapFile) /\ MaxURLs \in Nat
  BY InputAssumption DEF MaxURLs
<1>7. Uncapped(files, MaxURLs)
  BY <1>3, <1>4, <1>5
<1>8. \A u \in Listed(files) : \E i \in DOMAIN walk.pages : walk.pages[i] = u
  BY <1>2, <1>4, <1>5, <1>6, <1>7, WalkFinds
<1>9. files \subseteq SitemapFile
  BY <1>5 DEF Reachable
<1>10. Listed(files) \subseteq Url
  <2> SUFFICES ASSUME NEW u \in Listed(files) PROVE u \in Url
    OBVIOUS
  <2>1. PICK f \in files : \E n \in DOMAIN PageLocs[f] : u = PageLocs[f][n]
    BY DEF Listed
  <2>2. PageLocs[f] \in Seq(Url)
    BY <1>9, <2>1, SitemapAssumption
  <2> QED
    BY <2>1, <2>2, LenProperties
<1>11. \A u \in Listed(files) : u \in l.found
  BY <1>3, <1>8, <1>10 DEF Found
<1> QED
  BY <1>3, <1>4, <1>5, <1>11

\* Every page that a site's readable sitemaps list, through any indexes, is brought into
\* the crawl by its seed's lookup unless a cap cuts the lookup (crawl.go, the result of a
\* discovery; sitemap.go, the whole walk).
THEOREM SitemapsFollowed == Spec => []SitemapsAreFollowed
<1>1. Init => FoundIsSeen
  BY DEF Init, FoundIsSeen
<1>2. IInv /\ FoundIsSeen => SitemapsAreFollowed
  <2> SUFFICES ASSUME IInv, FoundIsSeen PROVE SitemapsAreFollowed
    OBVIOUS
  <2>1. lookups \subseteq Lookups
    BY DEF IInv, TypeOK
  <2> QED
    BY <2>1, LookupsFind, Zenon DEF FoundIsSeen, SitemapsAreFollowed
<1>3. Spec => []FoundIsSeen
  BY Invariance, <1>1, FoundIsSeenStep, PTL DEF Spec
<1> QED
  BY Invariance, <1>2, <1>3, PTL
=============================================================================
