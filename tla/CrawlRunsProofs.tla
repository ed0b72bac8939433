-------------------------- MODULE CrawlRunsProofs --------------------------
(***************************************************************************)
(* Proofs about CrawlRuns: types, the order of batches, events and         *)
(* manifest updates, and the truth of a finished run's summary.            *)
(***************************************************************************)
EXTENDS CrawlRuns, FiniteSetTheorems, FunctionTheorems, SequenceTheorems,
        WellFoundedInduction, TLAPS

(* Induction, stated on sets: the provers cannot instantiate the library's   *)
(* theorems on predicates.                                                    *)

Below == {ss \in Nat \X Nat : ss[1] < ss[2]}

LEMMA BelowIsLess == OpToRel(<, Nat) = Below
  BY Zenon DEF OpToRel, Below

\* A set of naturals that is not empty has a least member.
LEMMA Least ==
  ASSUME NEW S \in SUBSET Nat, S # {}
  PROVE  \E n \in S : \A m \in S : n <= m
<1>1. IsWellFoundedOn(Below, Nat)
  BY NatLessThanWellFounded, BelowIsLess, Zenon
<1>2. PICK n \in S : \A m \in S : ~ (<<m, n>> \in Below)
  BY <1>1, WFMin
<1>3. ASSUME NEW m \in S PROVE n <= m
  <2>1. n \in Nat /\ m \in Nat
    OBVIOUS
  <2>2. m < n => <<m, n>> \in Below
    BY <2>1 DEF Below
  <2> QED
    BY <1>2, <2>1, <2>2
<1> QED
  BY <1>3

\* Induction over the naturals.
LEMMA Induct ==
  ASSUME NEW S, 0 \in S, \A n \in Nat : n \in S => n + 1 \in S
  PROVE  Nat \subseteq S
<1> SUFFICES ASSUME NEW k \in Nat, k \notin S PROVE FALSE
  OBVIOUS
<1>1. PICK n \in Nat \ S : \A m \in Nat \ S : n <= m
  BY Least
<1> QED
  BY <1>1

\* Taking a member out of a set.
LEMMA OneLess ==
  ASSUME NEW S, IsFiniteSet(S), NEW x \in S
  PROVE  Cardinality(S) # 0 /\ Cardinality(S \ {x}) = Cardinality(S) - 1
  BY FS_RemoveElement, FS_EmptySet

\* Induction over the subsets of a finite set.
LEMMA SetInduct ==
  ASSUME NEW D, IsFiniteSet(D), NEW Good,
         \A S \in SUBSET D : (\A x \in S : S \ {x} \in Good) => S \in Good
  PROVE  SUBSET D \subseteq Good
<1> DEFINE Sizes == {n \in Nat : \A S \in SUBSET D : Cardinality(S) = n => S \in Good}
<1>1. \A S \in SUBSET D : IsFiniteSet(S) /\ Cardinality(S) \in Nat
  BY FS_Subset, FS_CardinalityType
<1>2. 0 \in Sizes
  BY <1>1, FS_EmptySet
<1>3. ASSUME NEW n \in Nat, n \in Sizes PROVE n + 1 \in Sizes
  <2>1. ASSUME NEW S \in SUBSET D, Cardinality(S) = n + 1 PROVE S \in Good
    <3>1. ASSUME NEW x \in S PROVE S \ {x} \in Good
      <4>1. IsFiniteSet(S) /\ S \ {x} \in SUBSET D
        BY <1>1
      <4>2. Cardinality(S \ {x}) = Cardinality(S) - 1
        BY <4>1, OneLess
      <4>3. Cardinality(S \ {x}) = n
        BY <2>1, <4>2
      <4> QED
        BY <1>3, <4>1, <4>3
    <3> QED
      BY <3>1
  <2> QED
    BY <2>1
<1>4. Nat \subseteq Sizes
  <2> HIDE DEF Sizes
  <2> QED
    BY <1>2, <1>3, Induct
<1> QED
  BY <1>1, <1>4

-----------------------------------------------------------------------------
(* Sums *)

First(S) == CHOOSE x \in S : TRUE
Steps(g, f, S) ==
  g[S] = IF S = {} THEN 0 ELSE f[First(S)] + g[S \ {First(S)}]

\* The sum of a function over a finite set, a member at a time.
LEMMA SumSteps ==
  ASSUME NEW D, IsFiniteSet(D), NEW f, \A x \in D : f[x] \in Nat
  PROVE  \E g \in [SUBSET D -> Nat] : \A S \in SUBSET D : Steps(g, f, S)
<1> DEFINE
      UpTo == {n \in Nat : \E g \in [SUBSET D -> Nat] :
                 \A S \in SUBSET D : Cardinality(S) <= n => Steps(g, f, S)}
<1>1. \A S \in SUBSET D : /\ IsFiniteSet(S) /\ Cardinality(S) \in Nat
                          /\ Cardinality(S) <= Cardinality(D)
  BY FS_Subset, FS_CardinalityType
<1>2. \A S \in SUBSET D : S # {} =>
        /\ First(S) \in S /\ f[First(S)] \in Nat /\ S \ {First(S)} \in SUBSET D
        /\ Cardinality(S \ {First(S)}) = Cardinality(S) - 1
  <2> SUFFICES ASSUME NEW S \in SUBSET D, S # {}
               PROVE  /\ First(S) \in S /\ f[First(S)] \in Nat /\ S \ {First(S)} \in SUBSET D
                      /\ Cardinality(S \ {First(S)}) = Cardinality(S) - 1
    OBVIOUS
  <2>1. First(S) \in S
    BY DEF First
  <2> QED
    BY <1>1, <2>1, FS_RemoveElement
<1>3. 0 \in UpTo
  <2> DEFINE g == [S \in SUBSET D |-> 0]
  <2>1. \A S \in SUBSET D : Cardinality(S) <= 0 => S = {}
    BY <1>1, FS_EmptySet
  <2>2. g \in [SUBSET D -> Nat] /\ \A S \in SUBSET D : Cardinality(S) <= 0 => Steps(g, f, S)
    BY <2>1 DEF Steps
  <2> QED
    BY <2>2
<1>4. ASSUME NEW n \in Nat, n \in UpTo PROVE n + 1 \in UpTo
  <2>1. PICK h \in [SUBSET D -> Nat] :
          \A S \in SUBSET D : Cardinality(S) <= n => Steps(h, f, S)
    BY <1>4
  <2> DEFINE g == [S \in SUBSET D |-> IF Cardinality(S) = n + 1
                                        THEN f[First(S)] + h[S \ {First(S)}] ELSE h[S]]
  <2>2. g \in [SUBSET D -> Nat]
    <3> SUFFICES ASSUME NEW S \in SUBSET D, Cardinality(S) = n + 1
                 PROVE  f[First(S)] + h[S \ {First(S)}] \in Nat
      OBVIOUS
    <3>1. S # {}
      <4>1. n + 1 # 0
        OBVIOUS
      <4>2. S = {} => Cardinality(S) = 0
        BY FS_EmptySet
      <4> QED
        BY <4>1, <4>2
    <3>2. h[S \ {First(S)}] \in Nat
      BY <1>2, <3>1
    <3> QED
      BY <1>2, <3>1, <3>2
  <2>3. ASSUME NEW S \in SUBSET D, Cardinality(S) <= n + 1 PROVE Steps(g, f, S)
    <3>1. CASE S = {}
      <4>1. g[S] = h[S] /\ h[S] = 0
        BY <2>1, <3>1, FS_EmptySet DEF Steps
      <4> QED
        BY <3>1, <4>1 DEF Steps
    <3>2. CASE S # {}
      <4>1. /\ S \ {First(S)} \in SUBSET D /\ Cardinality(S \ {First(S)}) # n + 1
            /\ Cardinality(S) \in Nat
        BY <1>1, <1>2, <2>3, <3>2
      <4>2. g[S \ {First(S)}] = h[S \ {First(S)}]
        BY <4>1
      <4>3. Cardinality(S) # n + 1 => Steps(h, f, S)
        BY <2>1, <2>3, <4>1
      <4>4. g[S] = f[First(S)] + h[S \ {First(S)}]
        BY <3>2, <4>3 DEF Steps
      <4> QED
        BY <3>2, <4>2, <4>4 DEF Steps
    <3> QED
      BY <3>1, <3>2
  <2> HIDE DEF g
  <2> QED
    BY <2>2, <2>3
<1>5. Nat \subseteq UpTo
  <2> HIDE DEF UpTo
  <2> QED
    BY <1>3, <1>4, Induct
<1>6. PICK g \in [SUBSET D -> Nat] :
        \A S \in SUBSET D : Cardinality(S) <= Cardinality(D) => Steps(g, f, S)
  BY <1>1, <1>5
<1>7. \A S \in SUBSET D : Steps(g, f, S)
  BY <1>1, <1>6
<1> QED
  BY <1>7

\* SumFunctionOnSet sums in the order of the members it chooses.
LEMMA SumUnfolds ==
  ASSUME NEW D, IsFiniteSet(D), NEW f, \A x \in D : f[x] \in Nat
  PROVE  \E g \in [SUBSET D -> Nat] :
           /\ \A S \in SUBSET D : Steps(g, f, S)
           /\ g[D] = SumFunctionOnSet(f, D)
<1> DEFINE R(g) == [S \in SUBSET D |-> IF S = {} THEN 0 ELSE f[First(S)] + g[S \ {First(S)}]]
           G == CHOOSE g : g = R(g)
<1>1. \E g : g = R(g)
  <2>1. PICK g \in [SUBSET D -> Nat] :
          \A S \in SUBSET D : Steps(g, f, S)
    BY SumSteps, Zenon
  <2>2. g = R(g)
    BY <2>1 DEF Steps
  <2> QED
    BY <2>2
<1>2. G = R(G)
  <2> HIDE DEF R
  <2> QED
    BY <1>1
<1>3. \A S \in SUBSET D : Steps(G, f, S)
  <2> SUFFICES ASSUME NEW S \in SUBSET D PROVE Steps(G, f, S)
    OBVIOUS
  <2>1. R(G)[S] = IF S = {} THEN 0 ELSE f[First(S)] + G[S \ {First(S)}]
    BY DEF R
  <2> QED
    BY <1>2, <2>1 DEF Steps
<1>4. SumFunctionOnSet(f, D) = G[D]
  BY DEF SumFunctionOnSet, FoldFunctionOnSet, MapThenFoldSet, First
<1> HIDE DEF G
<1>5. DOMAIN G = SUBSET D
  BY <1>2
<1>6. SUBSET D \subseteq {S \in SUBSET D : G[S] \in Nat}
  <2> DEFINE Good == {S \in SUBSET D : G[S] \in Nat}
  <2>1. ASSUME NEW S \in SUBSET D, \A x \in S : S \ {x} \in Good PROVE G[S] \in Nat
    <3>0. G[S] = IF S = {} THEN 0 ELSE f[First(S)] + G[S \ {First(S)}]
      <4>1. Steps(G, f, S)
        BY <1>3
      <4> QED
        BY <4>1 DEF Steps
    <3>1. CASE S = {}
      BY <3>0, <3>1
    <3>2. CASE S # {}
      <4>1. First(S) \in S
        BY <3>2 DEF First
      <4>2. f[First(S)] \in Nat /\ G[S \ {First(S)}] \in Nat
        BY <2>1, <4>1
      <4> QED
        BY <3>0, <3>2, <4>2
    <3> QED
      BY <3>1, <3>2
  <2>2. \A S \in SUBSET D : (\A x \in S : S \ {x} \in Good) => S \in Good
    BY <2>1
  <2>3. SUBSET D \subseteq Good
    <3> HIDE DEF Good
    <3> QED
      BY <2>2, SetInduct
  <2> QED
    BY <2>3
<1>7. G \in [SUBSET D -> Nat]
  <2>1. G = [S \in SUBSET D |-> G[S]]
    BY <1>2
  <2> QED
    BY <1>6, <2>1
<1> QED
  BY <1>3, <1>4, <1>7

LEMMA SameSteps ==
  ASSUME NEW D, IsFiniteSet(D), NEW f, NEW g, NEW h,
         \A S \in SUBSET D : Steps(g, f, S), \A S \in SUBSET D : Steps(h, f, S)
  PROVE  g[D] = h[D]
<1> DEFINE Same == {S \in SUBSET D : g[S] = h[S]}
<1>1. ASSUME NEW S \in SUBSET D, \A x \in S : S \ {x} \in Same PROVE g[S] = h[S]
  <2>1. Steps(g, f, S) /\ Steps(h, f, S)
    OBVIOUS
  <2>2. ASSUME S # {} PROVE g[S \ {First(S)}] = h[S \ {First(S)}]
    <3>1. First(S) \in S
      BY <2>2 DEF First
    <3> QED
      BY <1>1, <3>1
  <2> QED
    BY <2>1, <2>2 DEF Steps
<1>2. SUBSET D \subseteq Same
  <2>1. \A S \in SUBSET D : (\A x \in S : S \ {x} \in Same) => S \in Same
    BY <1>1
  <2> HIDE DEF Same
  <2> QED
    BY <2>1, SetInduct
<1> QED
  BY <1>2

\* Whatever set it is begun from.
LEMMA SumChosen ==
  ASSUME NEW D, IsFiniteSet(D), NEW f, \A x \in D : f[x] \in Nat
  PROVE  /\ SumFunctionOnSet(f, D) \in Nat
         /\ D = {} => SumFunctionOnSet(f, D) = 0
         /\ D # {} => SumFunctionOnSet(f, D)
                        = f[First(D)] + SumFunctionOnSet(f, D \ {First(D)})
<1>1. PICK g \in [SUBSET D -> Nat] :
        (\A S \in SUBSET D : Steps(g, f, S)) /\ g[D] = SumFunctionOnSet(f, D)
  BY SumUnfolds, Zenon
<1>2. g[D] = IF D = {} THEN 0 ELSE f[First(D)] + g[D \ {First(D)}]
  <2>1. Steps(g, f, D)
    BY <1>1
  <2> QED
    BY <2>1 DEF Steps
<1>3. ASSUME D # {} PROVE g[D \ {First(D)}] = SumFunctionOnSet(f, D \ {First(D)})
  <2> DEFINE T == D \ {First(D)}
  <2>1. T \subseteq D /\ IsFiniteSet(T)
    BY FS_Subset
  <2> HIDE DEF T
  <2>2. PICK h \in [SUBSET T -> Nat] :
          (\A S \in SUBSET T : Steps(h, f, S)) /\ h[T] = SumFunctionOnSet(f, T)
    BY <2>1, SumUnfolds, Zenon
  <2>3. \A S \in SUBSET T : Steps(g, f, S)
    BY <1>1, <2>1
  <2>4. g[T] = h[T]
    BY <2>1, <2>2, <2>3, SameSteps
  <2> QED
    BY <2>2, <2>4 DEF T
<1> QED
  BY <1>1, <1>2, <1>3

\* A sum without one of its members.
LEMMA SumSplits ==
  ASSUME NEW D, IsFiniteSet(D), NEW f, \A x \in D : f[x] \in Nat
  PROVE  \A x \in D : SumFunctionOnSet(f, D) = f[x] + SumFunctionOnSet(f, D \ {x})
<1> DEFINE Sum(S) == SumFunctionOnSet(f, S)
           Good == {S \in SUBSET D : \A x \in S : Sum(S) = f[x] + Sum(S \ {x})}
<1>1. \A S \in SUBSET D : IsFiniteSet(S) /\ \A x \in S : f[x] \in Nat
  BY FS_Subset
<1>2. \A S \in SUBSET D : /\ Sum(S) \in Nat
                          /\ S # {} => Sum(S) = f[First(S)] + Sum(S \ {First(S)})
  BY <1>1, SumChosen
<1> HIDE DEF Sum
<1>3. ASSUME NEW S \in SUBSET D, \A x \in S : S \ {x} \in Good, NEW x \in S
      PROVE  Sum(S) = f[x] + Sum(S \ {x})
  <2> DEFINE c == First(S)
  <2>1. c \in S /\ Sum(S) = f[c] + Sum(S \ {c})
    BY <1>2 DEF First
  <2> HIDE DEF c
  <2>2. CASE x = c
    BY <2>1, <2>2
  <2>3. CASE x # c
    <3>1. x \in S \ {c} /\ c \in S \ {x} /\ (S \ {c}) \ {x} = (S \ {x}) \ {c}
      BY <2>1, <2>3
    <3>2. Sum(S \ {c}) = f[x] + Sum((S \ {c}) \ {x})
      BY <1>3, <2>1, <3>1
    <3>3. Sum(S \ {x}) = f[c] + Sum((S \ {c}) \ {x})
      BY <1>3, <3>1
    <3>4. f[x] \in Nat /\ f[c] \in Nat /\ Sum((S \ {c}) \ {x}) \in Nat
      BY <1>1, <1>2, <2>1
    <3> QED
      BY <2>1, <3>2, <3>3, <3>4
  <2> QED
    BY <2>2, <2>3
<1>4. SUBSET D \subseteq Good
  <2>1. \A S \in SUBSET D : (\A x \in S : S \ {x} \in Good) => S \in Good
    BY <1>3
  <2> HIDE DEF Good
  <2> QED
    BY <2>1, SetInduct
<1> QED
  BY <1>4 DEF Sum

\* A sum is that of the function's values on the set, whatever they are elsewhere.
LEMMA SumSame ==
  ASSUME NEW D, IsFiniteSet(D), NEW f, NEW g, \A x \in D : f[x] \in Nat /\ g[x] = f[x]
  PROVE  SumFunctionOnSet(f, D) = SumFunctionOnSet(g, D)
<1> DEFINE Good == {S \in SUBSET D : SumFunctionOnSet(f, S) = SumFunctionOnSet(g, S)}
<1>1. ASSUME NEW S \in SUBSET D, \A x \in S : S \ {x} \in Good
      PROVE  SumFunctionOnSet(f, S) = SumFunctionOnSet(g, S)
  <2>1. IsFiniteSet(S) /\ (\A x \in S : f[x] \in Nat) /\ (\A x \in S : g[x] \in Nat)
    BY FS_Subset
  <2>2. CASE S = {}
    BY <2>1, <2>2, SumChosen
  <2>3. CASE S # {}
    <3>1. First(S) \in S
      BY <2>3 DEF First
    <3>2. SumFunctionOnSet(f, S) = f[First(S)] + SumFunctionOnSet(f, S \ {First(S)})
      BY <2>1, <2>3, SumChosen
    <3>3. SumFunctionOnSet(g, S) = g[First(S)] + SumFunctionOnSet(g, S \ {First(S)})
      BY <2>1, <2>3, SumChosen
    <3> QED
      BY <1>1, <3>1, <3>2, <3>3
  <2> QED
    BY <2>2, <2>3
<1>2. SUBSET D \subseteq Good
  <2>1. \A S \in SUBSET D : (\A x \in S : S \ {x} \in Good) => S \in Good
    BY <1>1
  <2> HIDE DEF Good
  <2> QED
    BY <2>1, SetInduct
<1> QED
  BY <1>2

-----------------------------------------------------------------------------
(* The order of the domains *)

\* Of finitely many integers one is the greatest.
LEMMA Greatest ==
  ASSUME NEW D, IsFiniteSet(D), D # {}, NEW f, \A x \in D : f[x] \in Int
  PROVE  \E x \in D : \A y \in D : f[y] <= f[x]
<1> DEFINE Good == {S \in SUBSET D : S # {} => \E x \in S : \A y \in S : f[y] <= f[x]}
<1>1. ASSUME NEW S \in SUBSET D, \A x \in S : S \ {x} \in Good, NEW z \in S
      PROVE  \E x \in S : \A y \in S : f[y] <= f[x]
  <2>1. \A x \in S : f[x] \in Int
    OBVIOUS
  <2>2. CASE S \ {z} = {}
    <3>1. \A y \in S : f[y] <= f[z]
      BY <2>1, <2>2
    <3> QED
      BY <3>1
  <2>3. CASE S \ {z} # {}
    <3>1. PICK x \in S \ {z} : \A y \in S \ {z} : f[y] <= f[x]
      BY <1>1, <2>3
    <3>2. CASE f[z] <= f[x]
      BY <3>1, <3>2
    <3>3. CASE ~ (f[z] <= f[x])
      <4>1. f[x] \in Int /\ f[z] \in Int /\ f[x] <= f[z]
        BY <2>1, <3>3
      <4>2. ASSUME NEW y \in S PROVE f[y] <= f[z]
        <5>1. y # z => f[y] <= f[x]
          BY <3>1
        <5> QED
          BY <2>1, <4>1, <5>1
      <4> QED
        BY <4>2
    <3> QED
      BY <3>2, <3>3
  <2> QED
    BY <2>2, <2>3
<1>2. SUBSET D \subseteq Good
  <2>1. \A S \in SUBSET D : (\A x \in S : S \ {x} \in Good) => S \in Good
    BY <1>1
  <2> HIDE DEF Good
  <2> QED
    BY <2>1, SetInduct
<1> QED
  BY <1>2

\* A host's best seed and its first one.
Top(h) == CHOOSE p \in Int : /\ \E i \in SeedsOf(h) : Seeds[i].priority = p
                            /\ \A i \in SeedsOf(h) : Seeds[i].priority <= p
Lead(h) == CHOOSE i \in SeedsOf(h) : \A j \in SeedsOf(h) : i <= j

LEMMA SeedsTyped ==
  /\ Len(Seeds) \in Nat /\ DOMAIN Seeds = 1 .. Len(Seeds)
  /\ \A i \in DOMAIN Seeds : i \in Nat /\ Seeds[i].host \in Host /\ Seeds[i].priority \in Int
  /\ \A h : SeedsOf(h) \subseteq DOMAIN Seeds /\ IsFiniteSet(SeedsOf(h))
<1>1. Seeds \in Seq([host : Host, priority : Int])
  BY DomainsAssumption
<1>2. /\ Len(Seeds) \in Nat /\ DOMAIN Seeds = 1 .. Len(Seeds)
      /\ Seeds \in [1 .. Len(Seeds) -> [host : Host, priority : Int]]
  BY <1>1, LenProperties
<1>3. ASSUME NEW i \in DOMAIN Seeds
      PROVE  i \in Nat /\ Seeds[i].host \in Host /\ Seeds[i].priority \in Int
  <2>1. Seeds[i] \in [host : Host, priority : Int]
    BY <1>2
  <2> QED
    BY <1>2, <2>1
<1>4. IsFiniteSet(DOMAIN Seeds)
  BY <1>2, FS_Interval
<1>5. ASSUME NEW h PROVE SeedsOf(h) \subseteq DOMAIN Seeds /\ IsFiniteSet(SeedsOf(h))
  <2>1. SeedsOf(h) \subseteq DOMAIN Seeds
    BY DEF SeedsOf
  <2> QED
    BY <1>4, <2>1, FS_Subset
<1> QED
  BY <1>2, <1>3, <1>5

LEMMA TopAndLead ==
  ASSUME NEW h \in SeededHosts
  PROVE  /\ Top(h) \in Int
         /\ \E i \in SeedsOf(h) : Seeds[i].priority = Top(h)
         /\ \A i \in SeedsOf(h) : Seeds[i].priority <= Top(h)
         /\ Lead(h) \in SeedsOf(h) /\ Lead(h) \in Nat /\ Seeds[Lead(h)].host = h
         /\ \A i \in SeedsOf(h) : Lead(h) <= i
<1>1. /\ SeedsOf(h) # {} /\ SeedsOf(h) \subseteq Nat /\ IsFiniteSet(SeedsOf(h))
      /\ \A i \in SeedsOf(h) : Seeds[i].priority \in Int
  BY SeedsTyped DEF SeededHosts
<1>2. \E i \in SeedsOf(h) : \A j \in SeedsOf(h) : Seeds[j].priority <= Seeds[i].priority
  <2> DEFINE f == [i \in SeedsOf(h) |-> Seeds[i].priority]
  <2>1. \A i \in SeedsOf(h) : f[i] \in Int
    BY <1>1
  <2>2. PICK i \in SeedsOf(h) : \A j \in SeedsOf(h) : f[j] <= f[i]
    <3> HIDE DEF f
    <3> QED
      BY <1>1, <2>1, Greatest
  <2> QED
    BY <2>2
<1>3. \E p \in Int : /\ \E i \in SeedsOf(h) : Seeds[i].priority = p
                     /\ \A i \in SeedsOf(h) : Seeds[i].priority <= p
  BY <1>1, <1>2
<1>4. \E i \in SeedsOf(h) : \A j \in SeedsOf(h) : i <= j
  BY <1>1, Least
<1>5. Lead(h) \in SeedsOf(h) /\ \A i \in SeedsOf(h) : Lead(h) <= i
  BY <1>4 DEF Lead
<1>6. Seeds[Lead(h)].host = h
  BY <1>5 DEF SeedsOf
<1> QED
  BY <1>1, <1>3, <1>5, <1>6 DEF Top

\* Hosts are ordered by their best seed, then by their first.
LEMMA Ranked ==
  ASSUME NEW g \in SeededHosts, NEW h \in SeededHosts
  PROVE  Precedes(g, h) <=> Top(g) > Top(h) \/ (Top(g) = Top(h) /\ Lead(g) < Lead(h))
<1>1. ASSUME NEW a \in SeededHosts, NEW b \in SeededHosts
      PROVE  (\E i \in SeedsOf(a) : Outranks(i, b)) <=> Top(a) > Top(b)
  <2>1. ASSUME NEW i \in SeedsOf(a), Outranks(i, b) PROVE Top(a) > Top(b)
    <3>1. PICK j \in SeedsOf(b) : Seeds[j].priority = Top(b)
      BY TopAndLead
    <3>2. Seeds[i].priority > Seeds[j].priority /\ Seeds[i].priority <= Top(a)
      BY <2>1, TopAndLead DEF Outranks
    <3>3. Seeds[i].priority \in Int /\ Top(a) \in Int /\ Top(b) \in Int
      BY SeedsTyped, TopAndLead
    <3> QED
      BY <3>1, <3>2, <3>3
  <2>2. ASSUME Top(a) > Top(b) PROVE \E i \in SeedsOf(a) : Outranks(i, b)
    <3>1. PICK i \in SeedsOf(a) : Seeds[i].priority = Top(a)
      BY TopAndLead
    <3>2. ASSUME NEW j \in SeedsOf(b) PROVE Seeds[i].priority > Seeds[j].priority
      <4>1. /\ Seeds[j].priority <= Top(b) /\ Seeds[j].priority \in Int
            /\ Top(a) \in Int /\ Top(b) \in Int
        BY SeedsTyped, TopAndLead
      <4> QED
        BY <2>2, <3>1, <4>1
    <3> QED
      BY <3>2 DEF Outranks
  <2> QED
    BY <2>1, <2>2
<1>2. (\E i \in SeedsOf(g) : \A j \in SeedsOf(h) : i < j) <=> Lead(g) < Lead(h)
  <2>1. ASSUME NEW i \in SeedsOf(g), \A j \in SeedsOf(h) : i < j PROVE Lead(g) < Lead(h)
    <3>1. i < Lead(h) /\ Lead(g) <= i /\ i \in Nat /\ Lead(g) \in Nat /\ Lead(h) \in Nat
      BY <2>1, SeedsTyped, TopAndLead
    <3> QED
      BY <3>1
  <2>2. ASSUME Lead(g) < Lead(h), NEW j \in SeedsOf(h) PROVE Lead(g) < j
    <3>1. Lead(h) <= j /\ j \in Nat /\ Lead(g) \in Nat /\ Lead(h) \in Nat
      BY SeedsTyped, TopAndLead
    <3> QED
      BY <2>2, <3>1
  <2>3. Lead(g) \in SeedsOf(g)
    BY TopAndLead
  <2> QED
    BY <2>1, <2>2, <2>3
<1>3. Top(g) \in Int /\ Top(h) \in Int
  BY TopAndLead
<1>4. Precedes(g, h) <=> Top(g) > Top(h) \/ (~ (Top(h) > Top(g)) /\ Lead(g) < Lead(h))
  BY <1>1, <1>2, Zenon DEF Precedes
<1> QED
  BY <1>3, <1>4

\* The hosts before a host, as Groups counts them.
Before(h) == {g \in SeededHosts : Precedes(g, h)}

LEMMA SeededFinite == IsFiniteSet(SeededHosts) /\ Cardinality(SeededHosts) \in Nat
<1>1. SeededHosts \subseteq Host
  BY DEF SeededHosts
<1> QED
  BY <1>1, DomainsAssumption, FS_Subset, FS_CardinalityType

LEMMA StrictOrder ==
  ASSUME NEW g \in SeededHosts, NEW h \in SeededHosts
  PROVE  /\ ~ Precedes(h, h)
         /\ g # h => Precedes(g, h) \/ Precedes(h, g)
         /\ Precedes(g, h) => Before(g) \subseteq Before(h)
<1>1. \A a \in SeededHosts : Top(a) \in Int /\ Lead(a) \in Nat /\ Seeds[Lead(a)].host = a
  BY TopAndLead
<1>2. \A a \in SeededHosts, b \in SeededHosts :
        Precedes(a, b) <=> Top(a) > Top(b) \/ (Top(a) = Top(b) /\ Lead(a) < Lead(b))
  BY Ranked
<1>3. ~ Precedes(h, h)
  BY <1>1, <1>2
<1>4. ASSUME g # h PROVE Precedes(g, h) \/ Precedes(h, g)
  <2>1. Lead(g) # Lead(h)
    BY <1>1, <1>4
  <2> QED
    BY <1>1, <1>2, <2>1
<1>5. ASSUME Precedes(g, h), NEW a \in SeededHosts, Precedes(a, g) PROVE Precedes(a, h)
  <2>1. Top(g) > Top(h) \/ (Top(g) = Top(h) /\ Lead(g) < Lead(h))
    BY <1>2, <1>5
  <2>2. Top(a) > Top(g) \/ (Top(a) = Top(g) /\ Lead(a) < Lead(g))
    BY <1>2, <1>5
  <2>3. Top(a) > Top(h) \/ (Top(a) = Top(h) /\ Lead(a) < Lead(h))
    BY <1>1, <2>1, <2>2
  <2> QED
    BY <1>2, <2>3
<1> QED
  BY <1>3, <1>4, <1>5 DEF Before

\* No two hosts have the same place, so every place has its host.
LEMMA PlacesAreTaken ==
  ASSUME NEW n \in 1 .. Cardinality(SeededHosts)
  PROVE  \E h \in SeededHosts : Cardinality(Before(h)) = n - 1
<1> DEFINE N == Cardinality(SeededHosts)
           place == [h \in SeededHosts |-> Cardinality(Before(h)) + 1]
<1>1. \A h \in SeededHosts : IsFiniteSet(Before(h)) /\ Cardinality(Before(h)) \in 0 .. N - 1
  <2> SUFFICES ASSUME NEW h \in SeededHosts
               PROVE  IsFiniteSet(Before(h)) /\ Cardinality(Before(h)) \in 0 .. N - 1
    OBVIOUS
  <2>1. Before(h) \subseteq SeededHosts \ {h}
    BY StrictOrder DEF Before
  <2>2. IsFiniteSet(SeededHosts \ {h}) /\ Cardinality(SeededHosts \ {h}) = N - 1
    BY SeededFinite, OneLess, FS_RemoveElement
  <2>3. IsFiniteSet(Before(h)) /\ Cardinality(Before(h)) <= Cardinality(SeededHosts \ {h})
    BY <2>1, <2>2, FS_Subset
  <2>4. Cardinality(Before(h)) \in Nat /\ N \in Nat
    BY <2>3, FS_CardinalityType, SeededFinite
  <2> QED
    BY <2>2, <2>3, <2>4
<1>2. ASSUME NEW g \in SeededHosts, NEW h \in SeededHosts, Precedes(g, h)
      PROVE  Cardinality(Before(g)) # Cardinality(Before(h))
  <2>1. Before(g) \subseteq Before(h) /\ g \in Before(h) /\ g \notin Before(g)
    BY <1>2, StrictOrder DEF Before
  <2>2. Before(g) # Before(h)
    BY <2>1
  <2> QED
    BY <1>1, <2>1, <2>2, FS_Subset
<1>3. place \in Injection(SeededHosts, 1 .. N)
  <2>1. place \in [SeededHosts -> 1 .. N]
    BY <1>1, SeededFinite
  <2>2. ASSUME NEW g \in SeededHosts, NEW h \in SeededHosts, place[g] = place[h] PROVE g = h
    <3>1. Cardinality(Before(g)) = Cardinality(Before(h))
      BY <1>1, <2>2
    <3> QED
      BY <1>2, <3>1, StrictOrder
  <2> HIDE DEF place
  <2> QED
    BY <2>1, <2>2 DEF Injection, IsInjective
<1>4. place \in Surjection(SeededHosts, 1 .. N)
  <2>1. IsFiniteSet(1 .. N) /\ Cardinality(1 .. N) = N
    BY SeededFinite, FS_Interval
  <2> HIDE DEF place
  <2> QED
    BY <1>3, <2>1, FS_Injection
<1>5. PICK h \in SeededHosts : place[h] = n
  <2> HIDE DEF place
  <2> QED
    BY <1>4 DEF Surjection
<1> QED
  BY <1>1, <1>5, SeededFinite

\* groupSeedsByHost lists every seeded host, and none of them twice.
LEMMA GroupsAreHosts ==
  /\ Len(Groups) = Cardinality(SeededHosts) /\ Len(Groups) \in Nat
  /\ \A n \in 1 .. Len(Groups) : Groups[n] \in Host
  /\ \A m, n \in 1 .. Len(Groups) : Groups[m] = Groups[n] => m = n
<1> DEFINE N == Cardinality(SeededHosts)
<1>1. ASSUME NEW n \in 1 .. N
      PROVE  Groups[n] \in SeededHosts /\ Cardinality(Before(Groups[n])) = n - 1
  <2>1. Groups[n] = CHOOSE h \in SeededHosts : Cardinality(Before(h)) = n - 1
    BY DEF Groups, Before
  <2> QED
    BY <2>1, PlacesAreTaken
<1>2. Groups \in Seq(SeededHosts) /\ Len(Groups) = N
  <2>1. Groups \in [1 .. N -> SeededHosts]
    BY <1>1 DEF Groups
  <2> QED
    BY <2>1, SeededFinite, IsASeq, LenProperties
<1>3. SeededHosts \subseteq Host
  BY DEF SeededHosts
<1>4. ASSUME NEW m \in 1 .. N, NEW n \in 1 .. N, Groups[m] = Groups[n] PROVE m = n
  <2>1. m - 1 = n - 1 /\ N \in Nat
    BY <1>1, <1>4, SeededFinite
  <2> QED
    BY <2>1
<1> QED
  BY <1>1, <1>2, <1>3, <1>4, SeededFinite

-----------------------------------------------------------------------------
(* The invariant *)

\* The types, by what changes together.
CrawlTyped ==
  /\ child \in [Host -> {"none", "running", "killed", "completed", "failed"}]
  /\ pages \in [Host -> 0 .. MaxPages] /\ writing \subseteq Host /\ docs \in [Host -> Nat]
  /\ announced \in [Host -> {"none", "lost", "completed", "failed"}]
  /\ faults \in 0 .. MaxFaults
ControlTyped ==
  /\ startedThisRun \in 0 .. DomainsPerRun /\ startedInBatch \in 0 .. DomainBatchSize
  /\ active \subseteq Host /\ IsFiniteSet(active)
  /\ Cardinality(active) \in Nat /\ Cardinality(active) <= Concurrent
  /\ total \in Nat
  /\ domains \in [{"started", "completed", "failed"} -> Nat]
  /\ domains["started"] = domains["completed"] + domains["failed"] + Cardinality(active)
ParentTyped ==
  /\ parent \in {"starting", "filling", "waiting", "handingOver", "finishing", "ended", "killed"}
  /\ cursor \in 0 .. Len(Groups)
ManifestTyped ==
  /\ runID \in {0, 1} /\ manifest \in [etag : Nat, content : Content]
  /\ late \subseteq [seen : Nat, content : Content]

Started == {Groups[n] : n \in 1 .. cursor}

\* Hosts are started in the order of Groups, each once; a host nobody waits for any
\* more has ended and its event was told, and a batch ends before the next.
HostInv(h) ==
  /\ child[h] = "none" <=> h \notin Started
  /\ batchOf[h] = 0 <=> h \notin Started
  /\ batchOf[h] \in 1 .. batch - 1 => h \notin active
  /\ h \in Started \ active => Ended(h) /\ Told(h)
  /\ child[h] \in Terminal => h \notin writing /\ Told(h)
  /\ announced[h] # "none" => Ended(h)
HostsInv ==
  /\ active \subseteq Started
  /\ batch \in Nat \ {0} /\ batchOf \in [Host -> 0 .. batch]
  /\ \A h \in Host : HostInv(h)
  /\ parent \in {"finishing", "ended"} => active = {} /\ cursor = Len(Groups)

\* What the parent has counted.
Counted == {h \in Host : child[h] = "completed" /\ h \notin active}
SumInv ==
  /\ total = SumFunctionOnSet(pages, Counted)
  /\ domains["started"] = cursor

\* The loop of updateManifest never counts to its limit.
RecordType ==
  [op : {"none", "start", "update", "finish"}, step : {"idle", "get", "put"},
   seen : Nat, tries : 0 .. MaxCASRetry - 1, attempt : 0 .. MaximumAttempts, content : Content]

Final == [status |-> "completed", fetched |-> total]

Closing == {"finishing", "ended", "killed"}

\* An activity belongs to what the parent waits for.
ActivityInv ==
  /\ rec \in RecordType
  /\ rec.op = "start" <=> parent = "starting"
  /\ rec.op = "update" => parent = "handingOver"
  /\ rec.op = "finish" => parent = "finishing" /\ rec.content = Final
  /\ rec.step = "get" => rec.op \in {"update", "finish"}
  /\ rec.step = "put" => rec.op # "none"
  /\ rec.op \in {"start", "update"} => rec.content.status \notin Terminal
  /\ rec.step = "put" /\ rec.op # "start" => rec.seen <= manifest.etag

\* A PUT on its way matches a finished manifest only if it writes the same.
LateInv ==
  /\ parent = "starting" => late = {}
  /\ \A put \in late :
       /\ put.seen <= manifest.etag
       /\ put.content.status \in Terminal => put.content = Final /\ parent \in Closing
FinishedInv ==
  manifest.content.status \in Terminal =>
    /\ manifest.content = Final /\ parent \in Closing
    /\ \A put \in late : put.seen = manifest.etag => put.content = Final

RecordInv == ActivityInv /\ LateInv /\ FinishedInv

RunInv ==
  /\ CrawlTyped /\ ControlTyped /\ ParentTyped /\ ManifestTyped
  /\ HostsInv /\ SumInv /\ RecordInv

-----------------------------------------------------------------------------
(* Types *)

LEMMA Limits ==
  /\ MaxConcurrentDomains \in Nat \ {0} /\ DomainBatchSize \in Nat \ {0}
  /\ DomainsPerRun \in Nat \ {0} /\ MaxCASRetry \in Nat \ {0}
  /\ MaximumAttempts \in Nat \ {0} /\ MaxPages \in Nat /\ MaxFaults \in Nat
  /\ Concurrent \in Nat \ {0} /\ IsFiniteSet(Host)
  BY DomainsAssumption DEF Concurrent

LEMMA CursorTyped ==
  ASSUME ParentTyped, CanStart
  PROVE  /\ cursor + 1 \in 1 .. Len(Groups) /\ Groups[cursor + 1] \in Host
         /\ cursor \in Nat
<1>1. cursor \in 0 .. Len(Groups) /\ cursor < Len(Groups) /\ Len(Groups) \in Nat
  BY GroupsAreHosts DEF ParentTyped, CanStart
<1>2. cursor + 1 \in 1 .. Len(Groups) /\ cursor \in Nat
  BY <1>1
<1> QED
  BY <1>2, GroupsAreHosts

\* The host that is started next was not started before.
LEMMA NextIsNew ==
  ASSUME ParentTyped, CanStart
  PROVE  Groups[cursor + 1] \notin Started
<1>1. SUFFICES ASSUME NEW n \in 1 .. cursor, Groups[n] = Groups[cursor + 1] PROVE FALSE
  BY DEF Started
<1>2. n \in 1 .. Len(Groups) /\ n # cursor + 1
  BY <1>1, CursorTyped, GroupsAreHosts
<1> QED
  BY <1>1, <1>2, CursorTyped, GroupsAreHosts

LEMMA ActivityTyped ==
  ASSUME NEW op \in {"none", "start", "update", "finish"}, NEW content \in Content
  PROVE  /\ Activity(op, content) \in RecordType /\ Activity(op, content).op = op
         /\ Activity(op, content).content = content
         /\ Activity(op, content).step = IF op = "start" THEN "put" ELSE "get"
  BY Limits DEF Activity, RecordType

LEMMA NoRecordTyped ==
  NoRecord \in RecordType /\ NoRecord.op = "none" /\ NoRecord.step = "idle"
  BY Limits DEF NoRecord, RecordType, Content

\* What an activity is after an attempt, or a try of its loop, that did not succeed.
Failed(r) ==
  \/ r = NoRecord
  \/ /\ r \in RecordType /\ r.op = rec.op /\ r.content = rec.content
     /\ r.step = IF rec.op = "start" THEN "put" ELSE "get"

LEMMA AttemptFailed ==
  ASSUME rec \in RecordType
  PROVE  Failed(AttemptFails)
<1>1. CASE rec.attempt = MaximumAttempts
  BY <1>1 DEF AttemptFails, Failed
<1>2. CASE rec.attempt # MaximumAttempts
  <2>1. rec.attempt + 1 \in 0 .. MaximumAttempts /\ rec.content \in Content
    BY <1>2, Limits DEF RecordType
  <2>2. rec.op \in {"none", "start", "update", "finish"}
    BY DEF RecordType
  <2> DEFINE a == Activity(rec.op, rec.content)
  <2>3. /\ a \in RecordType /\ a.op = rec.op /\ a.content = rec.content
        /\ a.step = IF rec.op = "start" THEN "put" ELSE "get"
    BY <2>1, <2>2, ActivityTyped
  <2> HIDE DEF a
  <2>4. Failed([a EXCEPT !.attempt = rec.attempt + 1])
    BY <2>1, <2>3 DEF RecordType, Failed
  <2> QED
    BY <1>2, <2>4 DEF AttemptFails, a
<1> QED
  BY <1>1, <1>2

LEMMA TriedAgain ==
  ASSUME rec \in RecordType, rec.op # "start"
  PROVE  Failed(TryAgain)
<1>1. CASE rec.tries + 1 = MaxCASRetry
  BY <1>1, AttemptFailed DEF TryAgain
<1>2. CASE rec.tries + 1 # MaxCASRetry
  <2>1. rec.tries + 1 \in 0 .. MaxCASRetry - 1
    BY <1>2, Limits DEF RecordType
  <2>2. Failed([rec EXCEPT !.tries = @ + 1, !.step = "get"])
    BY <2>1 DEF RecordType, Failed
  <2> QED
    BY <1>2, <2>2 DEF TryAgain
<1> QED
  BY <1>1, <1>2

\* What a PUT or a stats update leaves in the manifest.
LEMMA PutTyped ==
  ASSUME ManifestTyped, NEW put, put.content \in Content, Put(put)
  PROVE  /\ manifest' \in [etag : Nat, content : Content]
         /\ manifest'.etag = manifest.etag + 1 /\ manifest'.content = put.content
  BY DEF ManifestTyped, Put

LEMMA MergedTyped ==
  ASSUME ManifestTyped, rec \in RecordType
  PROVE  /\ Merged(manifest.content) \in Content
         /\ rec.op # "update" => Merged(manifest.content) = rec.content
         /\ rec.op = "update" => Merged(manifest.content).status = manifest.content.status
  BY DEF ManifestTyped, RecordType, Merged, Content

\* The parts together.
LEMMA Typing ==
  ASSUME RunInv
  PROVE  TypeOK
<1>1. rec \in [op : {"none", "start", "update", "finish"}, step : {"idle", "get", "put"},
              seen : Nat, tries : 0 .. MaxCASRetry, attempt : 0 .. MaximumAttempts,
              content : Content]
  BY Limits DEF RunInv, RecordInv, ActivityInv, RecordType
<1> QED
  BY <1>1, Zenon DEF RunInv, CrawlTyped, ControlTyped, ParentTyped, ManifestTyped, TypeOK, Terminal

LEMMA CrawlStep ==
  ASSUME RunInv, [Next]_vars
  PROVE  CrawlTyped'
<1>1. CrawlTyped
  BY DEF RunInv
<1>2. ASSUME NEW h \in Host, ChildPage(h) PROVE CrawlTyped'
  BY <1>1, <1>2, Limits DEF ChildPage, ChildOpen, CrawlTyped
<1>3. ASSUME NEW h \in Host, WriteLands(h) \/ WriteFails(h) PROVE CrawlTyped'
  BY <1>1, <1>3, Limits DEF WriteLands, WriteFails, Fault, CrawlTyped
<1>4. ASSUME NEW h \in Host, ChildEnds(h) PROVE CrawlTyped'
  BY <1>1, <1>4, Limits DEF ChildEnds, Publish, Fault, CrawlTyped, Terminal
<1>5. ASSUME NEW h \in Host, KillChild(h) PROVE CrawlTyped'
  BY <1>1, <1>5, Limits DEF KillChild, Fault, CrawlTyped
<1>6. ASSUME StartChild PROVE CrawlTyped'
  BY <1>1, <1>6 DEF StartChild, CrawlTyped
<1>7. ASSUME NEW h \in Host, ChildDone(h) PROVE CrawlTyped'
  BY <1>1, <1>7, Limits DEF ChildDone, Publish, Fault, CrawlTyped
<1>8. ASSUME Wait \/ NextBatch \/ LoopEnds \/ ContinueAsNew \/ End PROVE CrawlTyped'
  BY <1>1, <1>8 DEF Wait, NextBatch, LoopEnds, ContinueAsNew, End, crawl, CrawlTyped
<1>9. ASSUME GetManifest \/ CreateManifest \/ PutManifest \/ PutTimesOut PROVE CrawlTyped'
  BY <1>1, <1>9, Limits
     DEF GetManifest, CreateManifest, PutManifest, PutTimesOut, crawl, Fault, CrawlTyped
<1>10. ASSUME NEW put \in late, LatePut(put) PROVE CrawlTyped'
  BY <1>1, <1>10 DEF LatePut, crawl, CrawlTyped
<1>11. ASSUME KillParent PROVE CrawlTyped'
  BY <1>1, <1>11, Limits DEF KillParent, Fault, CrawlTyped
<1>12. ASSUME UNCHANGED vars PROVE CrawlTyped'
  BY <1>1, <1>12 DEF vars, CrawlTyped
<1> QED
  BY <1>2, <1>3, <1>4, <1>5, <1>6, <1>7, <1>8, <1>9, <1>10, <1>11, <1>12
     DEF Next, Parent, Recorder, Failures, Over, Child

\* What the children and the recorder leave to the parent.
LEMMA OthersLeaveControl ==
  ASSUME \/ \E h \in Host : Child(h) \/ KillChild(h) \/ WriteFails(h)
         \/ GetManifest \/ CreateManifest \/ PutManifest \/ PutTimesOut \/ KillParent
         \/ \E put \in late : LatePut(put)
         \/ UNCHANGED vars
  PROVE  UNCHANGED control
<1>1. ASSUME NEW h \in Host, Child(h) \/ KillChild(h) \/ WriteFails(h) PROVE UNCHANGED control
  BY <1>1 DEF Child, ChildPage, WriteLands, ChildEnds, KillChild, WriteFails
<1>2. ASSUME GetManifest \/ CreateManifest \/ PutManifest \/ PutTimesOut \/ KillParent
      PROVE  UNCHANGED control
  BY <1>2 DEF GetManifest, CreateManifest, PutManifest, PutTimesOut, KillParent
<1>3. ASSUME NEW put \in late, LatePut(put) PROVE UNCHANGED control
  BY <1>3 DEF LatePut
<1> QED
  BY <1>1, <1>2, <1>3 DEF vars, control

LEMMA ControlStep ==
  ASSUME RunInv, [Next]_vars
  PROVE  ControlTyped'
<1>1. ControlTyped
  BY DEF RunInv
<1>2. ASSUME StartChild PROVE ControlTyped'
  <2> DEFINE h == Groups[cursor + 1]
  <2>1. h \in Host /\ h \notin active
    BY <1>2, CursorTyped, NextIsNew DEF StartChild, RunInv, HostsInv
  <2> HIDE DEF h
  <2>2. /\ active' = active \cup {h}
        /\ IsFiniteSet(active') /\ Cardinality(active') = Cardinality(active) + 1
    BY <1>1, <1>2, <2>1, FS_AddElement DEF StartChild, ControlTyped, h
  <2> QED
    BY <1>1, <1>2, <2>1, <2>2, Limits DEF StartChild, CanStart, ControlTyped
<1>3. ASSUME NEW h \in Host, ChildDone(h) PROVE ControlTyped'
  <2>1. /\ active' = active \ {h} /\ h \in active
        /\ UNCHANGED <<startedThisRun, startedInBatch>>
    BY <1>3 DEF ChildDone
  <2>2. IsFiniteSet(active') /\ Cardinality(active') = Cardinality(active) - 1
    BY <1>1, <2>1, OneLess, FS_RemoveElement DEF ControlTyped
  <2>3. /\ domains' \in [{"started", "completed", "failed"} -> Nat]
        /\ domains'["started"]
             = domains'["completed"] + domains'["failed"] + Cardinality(active')
    <3>1. CASE child[h] = "completed"
      BY <1>1, <1>3, <2>2, <3>1 DEF ChildDone, ControlTyped
    <3>2. CASE child[h] # "completed"
      BY <1>1, <1>3, <2>2, <3>2 DEF ChildDone, ControlTyped
    <3> QED
      BY <3>1, <3>2
  <2>4. total' \in Nat
    <3>1. pages[h] \in Nat
      BY Limits DEF RunInv, CrawlTyped
    <3> QED
      BY <1>1, <1>3, <3>1 DEF ChildDone, ControlTyped
  <2>5. Cardinality(active') \in Nat /\ Cardinality(active') <= Concurrent
    BY <1>1, <2>2, FS_CardinalityType, Limits DEF ControlTyped
  <2> QED
    BY <1>1, <2>1, <2>2, <2>3, <2>4, <2>5 DEF ControlTyped
<1>4. ASSUME NextBatch \/ ContinueAsNew PROVE ControlTyped'
  BY <1>1, <1>4, Limits DEF NextBatch, ContinueAsNew, ControlTyped
<1>5. ASSUME UNCHANGED control PROVE ControlTyped'
  BY <1>1, <1>5 DEF control, ControlTyped
<1>6. ASSUME Wait \/ LoopEnds \/ End PROVE UNCHANGED control
  BY <1>6 DEF Wait, LoopEnds, End
<1> QED
  BY <1>2, <1>3, <1>4, <1>5, <1>6, OthersLeaveControl DEF Next, Parent, Recorder, Failures, Over

LEMMA ParentStep ==
  ASSUME RunInv, [Next]_vars
  PROVE  ParentTyped'
<1>1. ParentTyped
  BY DEF RunInv
<1>2. ASSUME StartChild PROVE ParentTyped'
  <2>1. cursor' \in 0 .. Len(Groups) /\ parent' = parent
    BY <1>1, <1>2, CursorTyped, GroupsAreHosts DEF StartChild
  <2> QED
    BY <1>1, <2>1 DEF ParentTyped
<1>3. ASSUME \/ Wait \/ NextBatch \/ LoopEnds \/ ContinueAsNew \/ End
             \/ \E h \in Host : ChildDone(h)
      PROVE  ParentTyped'
  BY <1>1, <1>3
     DEF Wait, NextBatch, LoopEnds, ContinueAsNew, End, ChildDone, control, ParentTyped
<1>4. ASSUME UNCHANGED control,
             parent' = parent \/ parent' \in {"filling", "killed"}
      PROVE  ParentTyped'
  BY <1>1, <1>4 DEF control, ParentTyped
<1>5. ASSUME \/ \E h \in Host : Child(h) \/ KillChild(h) \/ WriteFails(h)
             \/ GetManifest \/ CreateManifest \/ PutManifest \/ PutTimesOut \/ KillParent
             \/ \E put \in late : LatePut(put)
             \/ UNCHANGED vars
      PROVE  parent' = parent \/ parent' \in {"filling", "killed"}
  BY <1>5 DEF Child, ChildPage, WriteLands, ChildEnds, KillChild, WriteFails, GetManifest,
     CreateManifest, PutManifest, PutTimesOut, KillParent, LatePut, vars
<1> QED
  BY <1>2, <1>3, <1>4, <1>5, OthersLeaveControl DEF Next, Parent, Recorder, Failures, Over

\* The PUTs of given-up attempts and the manifest are what recorder steps make of them.
LEMMA ManifestStep ==
  ASSUME RunInv, [Next]_vars
  PROVE  ManifestTyped'
<1>1. ManifestTyped /\ rec \in RecordType
  BY DEF RunInv, RecordInv, ActivityInv
<1>2. rec.content \in Content /\ rec.seen \in Nat
  BY <1>1 DEF RecordType
<1>3. ASSUME GetManifest PROVE ManifestTyped'
  BY <1>1, <1>3 DEF GetManifest, ManifestTyped
<1>4. ASSUME CreateManifest PROVE ManifestTyped'
  BY <1>1, <1>2, <1>4 DEF CreateManifest, ManifestTyped
<1>5. ASSUME PutManifest PROVE ManifestTyped'
  <2>1. UNCHANGED manifest \/ Put(rec)
    BY <1>5 DEF PutManifest
  <2>2. UNCHANGED <<runID, late>>
    BY <1>5 DEF PutManifest
  <2> QED
    BY <1>1, <1>2, <2>1, <2>2, PutTyped DEF ManifestTyped
<1>6. ASSUME PutTimesOut \/ KillParent PROVE ManifestTyped'
  BY <1>1, <1>2, <1>6 DEF PutTimesOut, KillParent, ManifestTyped
<1>7. ASSUME NEW put \in late, LatePut(put) PROVE ManifestTyped'
  <2>1. put.content \in Content
    BY <1>1 DEF ManifestTyped
  <2>2. UNCHANGED manifest \/ Put(put)
    BY <1>7 DEF LatePut
  <2>3. runID' = runID /\ late' \subseteq late
    BY <1>7 DEF LatePut
  <2> QED
    BY <1>1, <2>1, <2>2, <2>3, PutTyped DEF ManifestTyped
<1>8. ASSUME UNCHANGED <<runID, manifest, late>> PROVE ManifestTyped'
  BY <1>1, <1>8 DEF ManifestTyped
<1>9. ASSUME \/ Parent \/ UNCHANGED vars
             \/ \E h \in Host : Child(h) \/ KillChild(h) \/ WriteFails(h)
      PROVE  UNCHANGED <<runID, manifest, late>>
  BY <1>9 DEF Parent, StartChild, Wait, NextBatch, LoopEnds, ContinueAsNew, End, ChildDone,
     Child, ChildPage, WriteLands, ChildEnds, KillChild, WriteFails, record, vars
<1> QED
  BY <1>3, <1>4, <1>5, <1>6, <1>7, <1>8, <1>9 DEF Next, Recorder, Failures, Over

-----------------------------------------------------------------------------
(* Hosts, their batches and their events *)

\* A host nothing happens to.
LEMMA HostStays ==
  ASSUME NEW h \in Host, HostInv(h), UNCHANGED control,
         child'[h] = child[h], pages'[h] = pages[h], announced'[h] = announced[h],
         h \in writing' => h \in writing
  PROVE  HostInv(h)'
  BY DEF HostInv, Started, Ended, Told, control

\* The hosts' part of the invariant when only one child moves.
LEMMA OneHostMoves ==
  ASSUME RunInv, NEW h \in Host, UNCHANGED <<parent, control>>, HostInv(h)',
         \A g \in Host \ {h} : /\ child'[g] = child[g] /\ pages'[g] = pages[g]
                               /\ announced'[g] = announced[g]
                               /\ g \in writing' => g \in writing
  PROVE  HostsInv'
<1>1. ASSUME NEW g \in Host \ {h} PROVE HostInv(g)'
  BY HostStays DEF RunInv, HostsInv
<1> QED
  BY <1>1 DEF RunInv, HostsInv, Started, control

LEMMA ChildrenKeepHosts ==
  ASSUME RunInv, NEW h \in Host, Child(h) \/ WriteFails(h) \/ KillChild(h)
  PROVE  HostsInv'
<1>1. CrawlTyped /\ HostInv(h)
  BY DEF RunInv, HostsInv
<1>2. UNCHANGED <<parent, control>>
  BY DEF Child, ChildPage, WriteLands, ChildEnds, WriteFails, KillChild
<1>3. UNCHANGED <<Started, active, batchOf, batch>>
  BY <1>2 DEF control, Started
<1>4. ASSUME NEW g \in Host \ {h}
      PROVE  /\ child'[g] = child[g] /\ pages'[g] = pages[g] /\ announced'[g] = announced[g]
             /\ g \in writing' => g \in writing
  BY <1>1 DEF Child, ChildPage, WriteLands, ChildEnds, Publish, WriteFails, KillChild, CrawlTyped
<1>5. child[h] = "running" => h \in Started /\ h \in active
  BY <1>1 DEF HostInv, Ended, Terminal
<1>6. CASE ChildPage(h)
  <2>1. child'[h] = "running" /\ child[h] = "running" /\ announced'[h] = announced[h]
    BY <1>6 DEF ChildPage, ChildOpen
  <2>2. HostInv(h)'
    BY <1>1, <1>3, <1>5, <2>1 DEF HostInv, Ended, Terminal
  <2> QED
    BY <1>2, <1>4, <2>2, OneHostMoves
<1>7. CASE WriteLands(h) \/ WriteFails(h)
  <2>1. HostInv(h)'
    BY <1>1, <1>2, <1>7, HostStays DEF WriteLands, WriteFails
  <2> QED
    BY <1>2, <1>4, <2>1, OneHostMoves
<1>8. CASE ChildEnds(h)
  <2>1. /\ child[h] = "running" /\ h \notin writing /\ UNCHANGED <<pages, writing>>
        /\ child'[h] \in Terminal
        /\ pages[h] > 0 => announced'[h] # "none"
    BY <1>1, <1>8 DEF ChildEnds, ChildOpen, Publish, CrawlTyped, Terminal
  <2>2. HostInv(h)'
    BY <1>1, <1>3, <1>5, <2>1 DEF HostInv, Ended, Told, Terminal
  <2> QED
    BY <1>2, <1>4, <2>2, OneHostMoves
<1>9. CASE KillChild(h)
  <2>1. child[h] = "running" /\ child'[h] = "killed" /\ UNCHANGED <<pages, writing, announced>>
    BY <1>1, <1>9 DEF KillChild, CrawlTyped
  <2>2. HostInv(h)'
    BY <1>1, <1>3, <1>5, <2>1 DEF HostInv, Ended, Terminal
  <2> QED
    BY <1>2, <1>4, <2>2, OneHostMoves
<1> QED
  BY <1>6, <1>7, <1>8, <1>9 DEF Child

LEMMA StartKeepsHosts ==
  ASSUME RunInv, StartChild
  PROVE  HostsInv'
<1>1. CrawlTyped /\ ParentTyped /\ HostsInv /\ CanStart /\ parent = "filling"
  BY DEF RunInv, StartChild
<1>0. PICK h \in Host : h = Groups[cursor + 1]
  BY <1>1, CursorTyped
<1>2. h \in Host /\ h \notin Started /\ cursor \in Nat
  BY <1>1, <1>0, CursorTyped, NextIsNew
<1>3. Started' = Started \cup {h}
  <2>1. cursor' = cursor + 1
    BY DEF StartChild
  <2>2. 1 .. cursor + 1 = (1 .. cursor) \cup {cursor + 1}
    BY <1>2
  <2> QED
    BY <1>0, <2>1, <2>2 DEF Started
<1>4. /\ active' = active \cup {h} /\ child' = [child EXCEPT ![h] = "running"]
      /\ batchOf' = [batchOf EXCEPT ![h] = batch]
      /\ UNCHANGED <<parent, batch, pages, writing, announced>>
  BY <1>0 DEF StartChild
<1>5. HostInv(h)'
  <2>1. HostInv(h) /\ child[h] = "none" /\ announced[h] = "none"
    BY <1>1, <1>2 DEF HostsInv, HostInv, Ended, Terminal
  <2>2. child'[h] = "running" /\ batchOf'[h] = batch /\ batch \in Nat \ {0} /\ h \in active'
    BY <1>1, <1>2, <1>4 DEF CrawlTyped, HostsInv
  <2>3. batchOf'[h] # 0 /\ batchOf'[h] \notin 1 .. batch' - 1 /\ announced'[h] = "none"
    BY <1>4, <2>1, <2>2
  <2>4. child'[h] \notin Terminal /\ child'[h] # "none" /\ h \in Started'
    BY <1>3, <2>2 DEF Terminal
  <2> QED
    BY <2>2, <2>3, <2>4 DEF HostInv
<1>6. ASSUME NEW g \in Host, g # h PROVE HostInv(g)'
  <2>1. HostInv(g)
    BY <1>1 DEF HostsInv
  <2>2. child'[g] = child[g] /\ batchOf'[g] = batchOf[g] /\ (g \in active' <=> g \in active)
    BY <1>1, <1>4, <1>6 DEF CrawlTyped, HostsInv
  <2> QED
    BY <1>3, <1>4, <1>6, <2>1, <2>2 DEF HostInv, Ended, Told
<1>7. /\ active' \subseteq Started' /\ batch' \in Nat \ {0} /\ batchOf' \in [Host -> 0 .. batch']
      /\ parent' = "filling"
  BY <1>1, <1>2, <1>3, <1>4 DEF HostsInv
<1> QED
  BY <1>5, <1>6, <1>7 DEF HostsInv

LEMMA DoneKeepsHosts ==
  ASSUME RunInv, NEW h \in Host, ChildDone(h)
  PROVE  HostsInv'
<1>1. CrawlTyped /\ HostsInv
  BY DEF RunInv
<1>2. /\ active' = active \ {h} /\ child[h] \in Terminal \cup {"killed"} /\ parent' = "filling"
      /\ UNCHANGED <<cursor, batch, batchOf, child, pages, writing>>
  BY DEF ChildDone
<1>3. Started' = Started
  BY <1>2 DEF Started
<1>4. ASSUME NEW g \in Host, g # h PROVE HostInv(g)'
  <2>1. HostInv(g) /\ announced'[g] = announced[g] /\ (g \in active' <=> g \in active)
    BY <1>1, <1>2, <1>4 DEF HostsInv, ChildDone, Publish, CrawlTyped
  <2> QED
    BY <1>2, <1>3, <2>1 DEF HostInv, Ended, Told
<1>5. HostInv(h)'
  <2>1. HostInv(h) /\ Ended(h)
    BY <1>1, <1>2 DEF HostsInv, Ended
  <2>2. child[h] = "killed" => announced'[h] # "none"
    BY <1>1 DEF ChildDone, Publish, CrawlTyped
  <2>3. child[h] # "killed" => announced'[h] = announced[h]
    BY DEF ChildDone
  <2>4. Told(h)'
    BY <1>2, <2>1, <2>2, <2>3 DEF HostInv, Told
  <2>5. Ended(h)'
    BY <1>2, <2>1 DEF Ended
  <2> QED
    BY <1>2, <1>3, <2>1, <2>4, <2>5 DEF HostInv
<1> QED
  BY <1>1, <1>2, <1>3, <1>4, <1>5 DEF HostsInv

LEMMA HostsStep ==
  ASSUME RunInv, [Next]_vars
  PROVE  HostsInv'
<1>1. CrawlTyped /\ ParentTyped /\ HostsInv
  BY DEF RunInv
<1>2. ASSUME UNCHANGED <<cursor, active, batch, batchOf, child, pages, writing, announced>>,
             \/ parent' \notin {"finishing", "ended"}
             \/ active = {} /\ cursor = Len(Groups)
      PROVE  HostsInv'
  <2>1. Started' = Started
    BY <1>2 DEF Started
  <2>2. ASSUME NEW h \in Host PROVE HostInv(h)'
    BY <1>1, <1>2, <2>1 DEF HostsInv, HostInv, Ended, Told
  <2> QED
    BY <1>1, <1>2, <2>1, <2>2 DEF HostsInv
<1>3. ASSUME Wait \/ ContinueAsNew \/ End \/ LoopEnds PROVE HostsInv'
  <2>1. UNCHANGED <<cursor, active, batch, batchOf, child, pages, writing, announced>>
    BY <1>3 DEF Wait, ContinueAsNew, End, LoopEnds, control, crawl
  <2>2. \/ parent' \notin {"finishing", "ended"}
        \/ active = {} /\ cursor = Len(Groups)
    BY <1>1, <1>3, GroupsAreHosts
       DEF Wait, ContinueAsNew, End, LoopEnds, HostsInv, ParentTyped
  <2> QED
    BY <1>2, <2>1, <2>2
<1>4. ASSUME NextBatch PROVE HostsInv'
  <2>1. /\ active = {} /\ batch' = batch + 1 /\ parent = "filling"
        /\ UNCHANGED <<parent, cursor, active, batchOf, child, pages, writing, announced>>
    BY <1>4 DEF NextBatch, crawl
  <2>2. Started' = Started
    BY <2>1 DEF Started
  <2>3. ASSUME NEW h \in Host PROVE HostInv(h)'
    BY <1>1, <2>1, <2>2, <2>3 DEF HostsInv, HostInv, Ended, Told
  <2>4. batch' \in Nat \ {0} /\ batchOf' \in [Host -> 0 .. batch']
    BY <1>1, <2>1 DEF HostsInv
  <2> QED
    BY <2>1, <2>2, <2>3, <2>4 DEF HostsInv
<1>5. ASSUME \/ GetManifest \/ CreateManifest \/ PutManifest \/ PutTimesOut
             \/ \E put \in late : LatePut(put)
             \/ UNCHANGED vars
      PROVE  HostsInv'
  <2>1. UNCHANGED <<cursor, active, batch, batchOf, child, pages, writing, announced>>
    BY <1>5 DEF GetManifest, CreateManifest, PutManifest, PutTimesOut, LatePut, control, crawl,
       vars
  <2>2. parent' = parent \/ parent' = "filling"
    BY <1>5 DEF GetManifest, CreateManifest, PutManifest, PutTimesOut, LatePut, vars
  <2> QED
    BY <1>1, <1>2, <2>1, <2>2 DEF HostsInv
<1>6. ASSUME KillParent PROVE HostsInv'
  <2>1. /\ parent' = "killed"
        /\ child' = [h \in Host |-> IF child[h] = "running" THEN "killed" ELSE child[h]]
        /\ UNCHANGED <<cursor, active, batch, batchOf, pages, writing, announced>>
    BY <1>6 DEF KillParent, control
  <2>2. Started' = Started
    BY <2>1 DEF Started
  <2>3. ASSUME NEW h \in Host PROVE HostInv(h)'
    <3>1. HostInv(h)
      BY <1>1 DEF HostsInv
    <3>2. child'[h] = IF child[h] = "running" THEN "killed" ELSE child[h]
      BY <2>1
    <3> QED
      BY <2>1, <2>2, <3>1, <3>2 DEF HostInv, Ended, Told, Terminal
  <2> QED
    BY <1>1, <2>1, <2>2, <2>3 DEF HostsInv
<1> QED
  BY <1>3, <1>4, <1>5, <1>6, ChildrenKeepHosts, StartKeepsHosts, DoneKeepsHosts
     DEF Next, Parent, Recorder, Failures, Over

-----------------------------------------------------------------------------
(* What the parent has counted *)

LEMMA SumStep ==
  ASSUME RunInv, [Next]_vars
  PROVE  SumInv'
<1>1. CrawlTyped /\ ControlTyped /\ HostsInv /\ SumInv
  BY DEF RunInv
<1>2. IsFiniteSet(Counted) /\ Counted \subseteq Host /\ \A g \in Host : pages[g] \in Nat
  BY <1>1, Limits, FS_Subset DEF Counted, CrawlTyped
<1>3. ASSUME Counted' = Counted, UNCHANGED total, \A g \in Counted : pages'[g] = pages[g],
             domains'["started"] = cursor'
      PROVE  SumInv'
  <2>1. SumFunctionOnSet(pages, Counted) = SumFunctionOnSet(pages', Counted)
    BY <1>2, <1>3, SumSame
  <2> QED
    BY <1>1, <1>3, <2>1 DEF SumInv
<1>4. ASSUME NEW h \in Host, Child(h) \/ WriteFails(h) \/ KillChild(h) PROVE SumInv'
  <2>1. UNCHANGED control
    BY <1>4, OthersLeaveControl
  <2>2. child[h] = "running" => h \in active
    BY <1>1 DEF HostsInv, HostInv, Ended, Terminal
  <2>3. \A g \in Host : child'[g] = child[g] \/ (g = h /\ child[h] = "running")
    BY <1>1, <1>4 DEF Child, ChildPage, ChildEnds, ChildOpen, WriteLands, WriteFails, KillChild,
       CrawlTyped
  <2>4. \A g \in Host : pages'[g] = pages[g] \/ (g = h /\ child[h] = "running")
    BY <1>1, <1>4 DEF Child, ChildPage, ChildEnds, ChildOpen, WriteLands, WriteFails, KillChild,
       CrawlTyped
  <2>5. Counted' = Counted
    BY <2>1, <2>2, <2>3 DEF Counted, control
  <2> QED
    BY <1>1, <1>3, <2>1, <2>2, <2>4, <2>5 DEF SumInv, Counted, control
<1>5. ASSUME StartChild PROVE SumInv'
  <2>1. PICK h \in Host : h = Groups[cursor + 1] /\ h \notin Started
    BY <1>5, CursorTyped, NextIsNew DEF StartChild, RunInv
  <2>2. child[h] = "none"
    BY <1>1, <2>1 DEF HostsInv, HostInv
  <2>3. /\ active' = active \cup {h} /\ child' = [child EXCEPT ![h] = "running"]
        /\ UNCHANGED <<total, pages>>
        /\ domains' = [domains EXCEPT !["started"] = @ + 1] /\ cursor' = cursor + 1
    BY <1>5, <2>1 DEF StartChild
  <2>4. Counted' = Counted
    BY <1>1, <2>2, <2>3 DEF Counted, CrawlTyped
  <2>5. domains'["started"] = cursor'
    BY <1>1, <2>3 DEF SumInv, ControlTyped
  <2> QED
    BY <1>3, <2>3, <2>4, <2>5
<1>6. ASSUME NEW h \in Host, ChildDone(h) PROVE SumInv'
  <2>1. /\ h \in active /\ active' = active \ {h} /\ UNCHANGED <<child, pages, cursor>>
    BY <1>6 DEF ChildDone
  <2>2. domains'["started"] = cursor'
    BY <1>1, <1>6, <2>1 DEF ChildDone, SumInv, ControlTyped
  <2>3. CASE child[h] = "completed"
    <3>1. Counted' = Counted \cup {h} /\ h \notin Counted /\ total' = total + pages[h]
      BY <1>6, <2>1, <2>3 DEF Counted, ChildDone
    <3>2. IsFiniteSet(Counted \cup {h}) /\ \A g \in Counted \cup {h} : pages[g] \in Nat
      BY <1>2, FS_AddElement
    <3>3. (Counted \cup {h}) \ {h} = Counted
      BY <3>1
    <3>4. SumFunctionOnSet(pages, Counted \cup {h})
            = pages[h] + SumFunctionOnSet(pages, (Counted \cup {h}) \ {h})
      BY <3>2, SumSplits
    <3>5. total = SumFunctionOnSet(pages, Counted) /\ total \in Nat /\ pages[h] \in Nat
      BY <1>1, <1>2 DEF SumInv, ControlTyped
    <3>6. SumFunctionOnSet(pages, Counted \cup {h}) = pages[h] + total
      BY <3>3, <3>4, <3>5, Zenon
    <3>7. total' = SumFunctionOnSet(pages, Counted \cup {h})
      BY <3>1, <3>5, <3>6
    <3> QED
      BY <2>1, <2>2, <3>1, <3>7 DEF SumInv
  <2>4. CASE child[h] # "completed"
    <3>1. Counted' = Counted /\ UNCHANGED total
      BY <1>6, <2>1, <2>4 DEF Counted, ChildDone
    <3> QED
      BY <1>3, <2>1, <2>2, <3>1
  <2> QED
    BY <2>3, <2>4
<1>7. ASSUME UNCHANGED <<active, child, total, pages, domains, cursor>> PROVE SumInv'
  BY <1>1, <1>3, <1>7 DEF Counted, SumInv
<1>8. ASSUME \/ Wait \/ NextBatch \/ ContinueAsNew \/ End \/ LoopEnds
             \/ GetManifest \/ CreateManifest \/ PutManifest \/ PutTimesOut
             \/ \E put \in late : LatePut(put)
             \/ UNCHANGED vars
      PROVE  UNCHANGED <<active, child, total, pages, domains, cursor>>
  BY <1>8 DEF Wait, NextBatch, ContinueAsNew, End, LoopEnds, GetManifest, CreateManifest,
     PutManifest, PutTimesOut, LatePut, control, crawl, vars
<1>9. ASSUME KillParent PROVE SumInv'
  <2>1. Counted' = Counted /\ UNCHANGED <<total, pages, domains, cursor>>
    BY <1>9 DEF KillParent, control, Counted
  <2> QED
    BY <1>1, <1>3, <2>1 DEF SumInv
<1> QED
  BY <1>4, <1>5, <1>6, <1>7, <1>8, <1>9 DEF Next, Parent, Recorder, Failures, Over

-----------------------------------------------------------------------------
(* The run's manifest *)

\* Where the parent goes on while no activity is under way.
LEMMA ParentKeepsRecord ==
  ASSUME RecordInv, rec.op = "none", UNCHANGED record, parent # "starting",
         parent' # "starting",
         total' = total \/ parent \notin Closing, parent \in Closing => parent' \in Closing
  PROVE  RecordInv'
<1>1. ActivityInv'
  BY DEF RecordInv, ActivityInv, record
<1>2. LateInv'
  BY DEF RecordInv, LateInv, Final, record
<1>3. FinishedInv'
  BY DEF RecordInv, FinishedInv, Final, record
<1> QED
  BY <1>1, <1>2, <1>3 DEF RecordInv

LEMMA ParentSteps ==
  ASSUME RunInv, Parent, ~ LoopEnds
  PROVE  RecordInv'
<1>1. RecordInv /\ ParentTyped
  BY DEF RunInv
<1>2. CASE StartChild \/ Wait \/ NextBatch \/ ContinueAsNew \/ End
  <2>1. /\ rec.op = "none" /\ UNCHANGED record /\ total' = total
        /\ parent # "starting" /\ parent' # "starting"
        /\ parent \in Closing => parent' \in Closing
    BY <1>2 DEF StartChild, Wait, NextBatch, ContinueAsNew, End, Idle, control, Closing
  <2> QED
    BY <1>1, <2>1, ParentKeepsRecord
<1>3. ASSUME NEW h \in Host, ChildDone(h) PROVE RecordInv'
  <2>1. parent = "waiting" /\ parent' = "filling" /\ UNCHANGED record
    BY <1>3 DEF ChildDone
  <2>2. rec.op = "none"
    BY <1>1, <2>1 DEF RecordInv, ActivityInv, RecordType
  <2>3. parent \notin Closing
    BY <2>1 DEF Closing
  <2> QED
    BY <1>1, <2>1, <2>2, <2>3, ParentKeepsRecord
<1> QED
  BY <1>2, <1>3 DEF Parent

LEMMA LoopEndsKeepsRecord ==
  ASSUME RunInv, LoopEnds
  PROVE  RecordInv'
<1>1. RecordInv /\ ControlTyped
  BY DEF RunInv
<1>2. /\ parent = "filling" /\ UNCHANGED <<total, manifest, late>>
      /\ parent' \in {"handingOver", "finishing"}
  BY DEF LoopEnds, control
<1>3. LateInv' /\ FinishedInv'
  <2>1. parent \notin Closing
    BY <1>2 DEF Closing
  <2>2. LateInv'
    BY <1>1, <1>2, <2>1 DEF RecordInv, LateInv, Final
  <2>3. FinishedInv'
    BY <1>1, <1>2, <2>1 DEF RecordInv, FinishedInv
  <2> QED
    BY <2>2, <2>3
<1>4. ActivityInv'
  <2>1. CASE rec' = NoRecord
    BY <1>2, <2>1, NoRecordTyped DEF ActivityInv
  <2>2. CASE rec' = Activity("update", Running(total)) /\ parent' = "handingOver"
    <3>1. Running(total) \in Content /\ Running(total).status \notin Terminal
      BY <1>1 DEF Running, Content, ControlTyped, Terminal
    <3>2. /\ rec' \in RecordType /\ rec'.op = "update" /\ rec'.step = "get"
          /\ rec'.content = Running(total)
      BY <2>2, <3>1, ActivityTyped
    <3> QED
      BY <2>2, <3>1, <3>2 DEF ActivityInv
  <2>3. CASE rec' = Activity("finish", Final) /\ parent' = "finishing"
    <3>1. Final \in Content
      BY <1>1 DEF Final, Content, ControlTyped, Terminal
    <3>2. /\ rec' \in RecordType /\ rec'.op = "finish" /\ rec'.step = "get"
          /\ rec'.content = Final
      BY <2>3, <3>1, ActivityTyped
    <3>3. rec'.content = Final'
      BY <1>2, <3>2 DEF Final
    <3> QED
      BY <2>3, <3>2, <3>3 DEF ActivityInv
  <2> QED
    BY <2>1, <2>2, <2>3 DEF LoopEnds, Final
<1> QED
  BY <1>3, <1>4 DEF RecordInv

\* An attempt that did not succeed leaves the rest as it was.
LEMMA FailureKeepsActivity ==
  ASSUME ActivityInv, Failed(rec'), UNCHANGED <<parent, total>>, rec.op # "none"
  PROVE  ActivityInv' \/ (rec' = NoRecord /\ parent = "starting")
<1>1. Final' = Final
  BY DEF Final
<1>2. CASE rec' = NoRecord
  BY <1>2, NoRecordTyped DEF ActivityInv
<1>3. CASE rec' # NoRecord
  <2>1. /\ rec' \in RecordType /\ rec'.op = rec.op /\ rec'.content = rec.content
        /\ rec'.step = IF rec.op = "start" THEN "put" ELSE "get"
    BY <1>3 DEF Failed
  <2>2. rec.op \in {"start", "update", "finish"}
    BY DEF ActivityInv, RecordType
  <2> QED
    BY <1>1, <2>1, <2>2 DEF ActivityInv
<1> QED
  BY <1>2, <1>3

LEMMA GetKeepsRecord ==
  ASSUME RunInv, GetManifest
  PROVE  RecordInv'
<1>1. RecordInv /\ ManifestTyped /\ rec \in RecordType
  BY DEF RunInv, RecordInv, ActivityInv
<1>2. /\ rec.step = "get" /\ rec.op \in {"update", "finish"}
      /\ UNCHANGED <<parent, total, manifest, late>>
  BY <1>1 DEF GetManifest, RecordInv, ActivityInv, control
<1>3. LateInv' /\ FinishedInv' /\ Final' = Final
  BY <1>1, <1>2 DEF RecordInv, LateInv, FinishedInv, Final
<1>4. CASE rec' = AttemptFails
  <2>1. Failed(rec')
    BY <1>1, <1>4, AttemptFailed
  <2>2. parent # "starting"
    BY <1>1, <1>2 DEF RecordInv, ActivityInv
  <2> QED
    BY <1>1, <1>2, <1>3, <2>1, <2>2, FailureKeepsActivity DEF RecordInv
<1>5. CASE rec' = [rec EXCEPT !.step = "put", !.seen = manifest.etag,
                              !.content = Merged(manifest.content)]
  <2>1. /\ Merged(manifest.content) \in Content
        /\ rec.op # "update" => Merged(manifest.content) = rec.content
        /\ rec.op = "update" => Merged(manifest.content).status = manifest.content.status
    BY <1>1, MergedTyped
  <2>2. /\ rec' \in RecordType /\ rec'.op = rec.op /\ rec'.step = "put"
        /\ rec'.seen = manifest.etag /\ rec'.content = Merged(manifest.content)
    BY <1>1, <1>5, <2>1 DEF RecordType, ManifestTyped
  <2>3. rec.op = "update" => manifest.content.status \notin Terminal
    BY <1>1 DEF RecordInv, ActivityInv, FinishedInv, Closing
  <2>4. manifest.etag \in Nat
    BY <1>1 DEF ManifestTyped
  <2>5. ActivityInv'
    BY <1>1, <1>2, <1>3, <2>1, <2>2, <2>3, <2>4 DEF RecordInv, ActivityInv
  <2> QED
    BY <1>3, <2>5 DEF RecordInv
<1> QED
  BY <1>4, <1>5 DEF GetManifest

LEMMA CreateKeepsRecord ==
  ASSUME RunInv, CreateManifest
  PROVE  RecordInv'
<1>1. RecordInv /\ rec \in RecordType
  BY DEF RunInv, RecordInv, ActivityInv
<1>2. rec.op = "start" /\ parent = "starting" /\ late = {} /\ UNCHANGED <<total, late>>
  BY <1>1 DEF CreateManifest, RecordInv, ActivityInv, LateInv, control
<1>3. manifest.content.status \notin Terminal /\ rec.content.status \notin Terminal
  BY <1>1, <1>2 DEF RecordInv, ActivityInv, FinishedInv, Closing
<1>4. manifest'.content.status \notin Terminal
  BY <1>3 DEF CreateManifest
<1>5. LateInv' /\ FinishedInv'
  BY <1>2, <1>4 DEF LateInv, FinishedInv
<1>6. ActivityInv'
  <2>1. CASE rec' = NoRecord
    <3>1. parent' = "filling"
      BY <2>1 DEF CreateManifest
    <3> QED
      BY <2>1, <3>1, NoRecordTyped DEF ActivityInv
  <2>2. CASE rec' # NoRecord
    <3>1. rec' = AttemptFails /\ parent' = parent
      BY <2>2 DEF CreateManifest
    <3>2. Failed(rec')
      BY <1>1, <3>1, AttemptFailed
    <3> QED
      BY <1>1, <1>2, <2>2, <3>1, <3>2, FailureKeepsActivity DEF RecordInv
  <2> QED
    BY <2>1, <2>2
<1> QED
  BY <1>5, <1>6 DEF RecordInv

\* A PUT that lands makes every other one on its way too old.
LEMMA LandedKeepsLate ==
  ASSUME RunInv, NEW put, put.content \in Content, Put(put),
         put.content.status \in Terminal => put.content = Final /\ parent \in Closing,
         parent # "starting",
         late' \subseteq late, UNCHANGED <<parent, total>>
  PROVE  LateInv' /\ FinishedInv' /\ manifest'.etag = manifest.etag + 1
<1>1. LateInv /\ ManifestTyped
  BY DEF RunInv, RecordInv
<1>2. manifest'.etag = manifest.etag + 1 /\ manifest'.content = put.content
  BY <1>1, PutTyped
<1>3. ASSUME NEW p \in late'
      PROVE  /\ p.seen <= manifest'.etag /\ p.seen # manifest'.etag
             /\ p.content.status \in Terminal => p.content = Final' /\ parent' \in Closing
  <2>1. p \in late /\ p.seen \in Nat /\ manifest.etag \in Nat /\ p.seen <= manifest.etag
    BY <1>1 DEF LateInv, ManifestTyped
  <2>2. p.content.status \in Terminal => p.content = Final /\ parent \in Closing
    BY <1>1, <2>1 DEF LateInv
  <2> QED
    BY <1>2, <2>1, <2>2 DEF Final
<1>4. LateInv'
  BY <1>3 DEF LateInv
<1>5. FinishedInv'
  BY <1>2, <1>3 DEF FinishedInv, Final
<1> QED
  BY <1>2, <1>4, <1>5

LEMMA PutKeepsRecord ==
  ASSUME RunInv, PutManifest
  PROVE  RecordInv'
<1>1. RecordInv /\ ManifestTyped /\ rec \in RecordType /\ rec.content \in Content
  BY DEF RunInv, RecordInv, ActivityInv, RecordType
<1>2. /\ rec.step = "put" /\ rec.op # "start" /\ rec.op # "none"
      /\ UNCHANGED <<parent, total, late>>
      /\ parent # "starting"
  BY <1>1 DEF PutManifest, RecordInv, ActivityInv, control
<1>3. /\ rec.content.status \in Terminal => rec.content = Final /\ parent \in Closing
  BY <1>1, <1>2 DEF RecordInv, ActivityInv, RecordType, Closing
<1>4. LateInv' /\ FinishedInv'
  <2>1. CASE UNCHANGED manifest
    BY <1>1, <1>2, <2>1 DEF RecordInv, LateInv, FinishedInv, Final
  <2>2. CASE Put(rec)
    BY <1>1, <1>2, <1>3, <2>2, LandedKeepsLate
  <2> QED
    BY <2>1, <2>2 DEF PutManifest
<1>5. Failed(rec')
  BY <1>1, <1>2, TriedAgain DEF PutManifest, Failed
<1>6. ActivityInv'
  BY <1>1, <1>2, <1>5, FailureKeepsActivity DEF RecordInv
<1> QED
  BY <1>4, <1>6 DEF RecordInv

\* A PUT that is given up is one more that may land later.
LEMMA GivenUpIsLate ==
  ASSUME RunInv, rec.step = "put", rec.op # "start",
         late' = late \cup {[seen |-> rec.seen, content |-> rec.content]},
         UNCHANGED <<total, manifest>>, parent' = parent \/ parent' = "killed"
  PROVE  LateInv' /\ FinishedInv'
<1>1. ActivityInv /\ LateInv /\ FinishedInv
  BY DEF RunInv, RecordInv
<1>2. /\ rec.op \in {"update", "finish"} /\ rec.seen <= manifest.etag /\ parent # "starting"
      /\ rec.content.status \in Terminal => rec.content = Final /\ parent \in Closing
      /\ rec.op = "update" => parent \notin Closing
  BY <1>1 DEF ActivityInv, RecordType, Closing
<1>3. Final' = Final /\ (parent \in Closing => parent' \in Closing) /\ parent' # "starting"
  BY <1>2 DEF Final, Closing
<1>4. LateInv'
  BY <1>1, <1>2, <1>3 DEF LateInv
<1>5. manifest.content.status \in Terminal => rec.content = Final
  BY <1>1, <1>2 DEF FinishedInv, ActivityInv
<1>6. FinishedInv'
  BY <1>1, <1>3, <1>5 DEF FinishedInv
<1> QED
  BY <1>4, <1>6

LEMMA TimeoutKeepsRecord ==
  ASSUME RunInv, PutTimesOut
  PROVE  RecordInv'
<1>1. RecordInv /\ rec \in RecordType
  BY DEF RunInv, RecordInv, ActivityInv
<1>2. /\ rec.step = "put" /\ rec.op # "start" /\ UNCHANGED <<parent, total, manifest>>
      /\ late' = late \cup {[seen |-> rec.seen, content |-> rec.content]}
      /\ rec' = AttemptFails
  BY DEF PutTimesOut, control
<1>3. LateInv' /\ FinishedInv'
  BY <1>2, GivenUpIsLate
<1>4. rec.op # "none" /\ parent # "starting"
  BY <1>1, <1>2 DEF RecordInv, ActivityInv
<1>5. ActivityInv'
  BY <1>1, <1>2, <1>4, AttemptFailed, FailureKeepsActivity DEF RecordInv
<1> QED
  BY <1>3, <1>5 DEF RecordInv

LEMMA KillKeepsRecord ==
  ASSUME RunInv, KillParent
  PROVE  RecordInv'
<1>1. RecordInv
  BY DEF RunInv
<1>2. parent' = "killed" /\ rec' = NoRecord /\ UNCHANGED <<total, manifest>>
  BY DEF KillParent, control
<1>3. ActivityInv'
  BY <1>2, NoRecordTyped DEF ActivityInv
<1>4. LateInv' /\ FinishedInv'
  <2>1. CASE rec.step = "put" /\ rec.op # "start"
    <3>1. late' = late \cup {[seen |-> rec.seen, content |-> rec.content]}
      BY <2>1 DEF KillParent
    <3> QED
      BY <1>2, <2>1, <3>1, GivenUpIsLate
  <2>2. CASE ~ (rec.step = "put" /\ rec.op # "start")
    <3>1. late' = late
      BY <2>2 DEF KillParent
    <3> QED
      BY <1>1, <1>2, <3>1 DEF RecordInv, LateInv, FinishedInv, Final, Closing
  <2> QED
    BY <2>1, <2>2
<1> QED
  BY <1>3, <1>4 DEF RecordInv

LEMMA LateKeepsRecord ==
  ASSUME RunInv, NEW put \in late, LatePut(put)
  PROVE  RecordInv'
<1>1. RecordInv /\ ManifestTyped /\ put.content \in Content
  BY DEF RunInv, ManifestTyped
<1>2. /\ late' \subseteq late /\ UNCHANGED <<parent, total, rec>>
      /\ parent # "starting"
      /\ put.content.status \in Terminal => put.content = Final /\ parent \in Closing
  BY <1>1 DEF LatePut, control, RecordInv, LateInv
<1>3. CASE UNCHANGED manifest
  <2>1. LateInv' /\ FinishedInv'
    BY <1>1, <1>2, <1>3 DEF RecordInv, LateInv, FinishedInv, Final
  <2>2. ActivityInv'
    BY <1>1, <1>2, <1>3 DEF RecordInv, ActivityInv, Final
  <2> QED
    BY <2>1, <2>2 DEF RecordInv
<1>4. CASE Put(put)
  <2>1. LateInv' /\ FinishedInv' /\ manifest'.etag = manifest.etag + 1
    BY <1>1, <1>2, <1>4, LandedKeepsLate
  <2>2. rec.seen \in Nat /\ manifest.etag \in Nat
    BY <1>1 DEF RecordInv, ActivityInv, RecordType, ManifestTyped
  <2>3. ActivityInv'
    BY <1>1, <1>2, <2>1, <2>2 DEF RecordInv, ActivityInv, Final
  <2> QED
    BY <2>1, <2>3 DEF RecordInv
<1> QED
  BY <1>3, <1>4 DEF LatePut

LEMMA RecordStep ==
  ASSUME RunInv, [Next]_vars
  PROVE  RecordInv'
<1>1. ASSUME UNCHANGED <<parent, total, record>> PROVE RecordInv'
  <2>1. RecordInv
    BY DEF RunInv
  <2>2. ActivityInv'
    BY <1>1, <2>1 DEF RecordInv, ActivityInv, Final, record
  <2>3. LateInv' /\ FinishedInv'
    BY <1>1, <2>1 DEF RecordInv, LateInv, FinishedInv, Final, record
  <2> QED
    BY <2>2, <2>3 DEF RecordInv
<1>2. ASSUME \/ UNCHANGED vars
             \/ \E h \in Host : Child(h) \/ KillChild(h) \/ WriteFails(h)
      PROVE  UNCHANGED <<parent, total, record>>
  BY <1>2 DEF Child, ChildPage, WriteLands, ChildEnds, KillChild, WriteFails, control, record, vars
<1> QED
  BY <1>1, <1>2, ParentSteps, LoopEndsKeepsRecord, GetKeepsRecord, CreateKeepsRecord,
     PutKeepsRecord, TimeoutKeepsRecord, KillKeepsRecord, LateKeepsRecord
     DEF Next, Recorder, Failures, Over

-----------------------------------------------------------------------------
(* Theorems *)

LEMMA InitRun == Init => RunInv
<1> SUFFICES ASSUME Init PROVE RunInv
  OBVIOUS
<1>1. CrawlTyped
  BY Limits DEF Init, CrawlTyped
<1>2. ControlTyped
  BY Limits, FS_EmptySet DEF Init, ControlTyped
<1>3. ParentTyped /\ ManifestTyped
  BY GroupsAreHosts DEF Init, ParentTyped, ManifestTyped, Content
<1>4. Started = {}
  BY DEF Init, Started
<1>5. HostsInv
  BY <1>4 DEF Init, HostsInv, HostInv, Ended, Terminal
<1>6. SumInv
  <2>1. Counted = {}
    BY DEF Init, Counted
  <2>2. SumFunctionOnSet(pages, {}) = 0
    BY FS_EmptySet, SumChosen
  <2> QED
    BY <2>1, <2>2 DEF Init, SumInv
<1>7. RecordInv
  <2>1. Running(0) \in Content /\ Running(0).status \notin Terminal
    BY DEF Running, Content, Terminal
  <2>2. /\ rec \in RecordType /\ rec.op = "start" /\ rec.step = "put"
        /\ rec.content = Running(0)
    BY <2>1, ActivityTyped DEF Init
  <2>3. ActivityInv
    BY <2>1, <2>2 DEF Init, ActivityInv
  <2> QED
    BY <2>3 DEF Init, RecordInv, LateInv, FinishedInv, Terminal
<1> QED
  BY <1>1, <1>2, <1>3, <1>5, <1>6, <1>7 DEF RunInv

LEMMA RunStep == RunInv /\ [Next]_vars => RunInv'
<1> SUFFICES ASSUME RunInv, [Next]_vars PROVE RunInv'
  OBVIOUS
<1> QED
  BY CrawlStep, ControlStep, ParentStep, ManifestStep, HostsStep, SumStep, RecordStep DEF RunInv

\* In every reachable state of CrawlDomainsWorkflow, its children and its recorder the
\* hosts, the sum and the manifest are as RunInv says.
THEOREM RunInvariant == Spec => []RunInv
  BY InitRun, RunStep, PTL DEF Spec

\* Type correctness: a run never counts a domain twice, never has more children than
\* its limit, and the recorder's loops stay within theirs.
THEOREM Typed == Spec => []TypeOK
<1>1. RunInv => TypeOK
  BY Typing
<1> QED
  BY <1>1, RunInvariant, PTL

\* Of two batches the earlier one has ended, and its site events are told.
LEMMA BatchesEnd == RunInv => BatchesInTurn
<1> SUFFICES ASSUME RunInv, NEW g \in Host, NEW h \in Host,
                    0 < batchOf[g], batchOf[g] < batchOf[h]
             PROVE  Ended(g) /\ Told(g)
  BY DEF BatchesInTurn
<1>1. HostsInv /\ HostInv(g) /\ batchOf[g] \in 0 .. batch /\ batchOf[h] \in 0 .. batch
  BY DEF RunInv, HostsInv
<1>2. batchOf[g] \in 1 .. batch - 1 /\ batchOf[g] # 0
  BY <1>1 DEF HostsInv
<1> QED
  BY <1>1, <1>2 DEF HostInv

\* A finished run has counted every domain that completed, and started them all.
LEMMA SummaryTells == RunInv => SummaryIsTrue
<1> SUFFICES ASSUME RunInv, parent = "ended", manifest.content.status \in Terminal
             PROVE  /\ manifest.content.fetched
                          = SumFunctionOnSet(pages, {h \in Host : child[h] = "completed"})
                    /\ domains["started"] = Len(Groups)
  BY DEF SummaryIsTrue
<1>1. active = {} /\ cursor = Len(Groups)
  BY DEF RunInv, HostsInv
<1>2. manifest.content = Final /\ Final.fetched = total
  BY DEF RunInv, RecordInv, FinishedInv, Final
<1>3. Counted = {h \in Host : child[h] = "completed"}
  BY <1>1 DEF Counted
<1>4. total = SumFunctionOnSet(pages, Counted) /\ domains["started"] = cursor
  BY DEF RunInv, SumInv
<1> QED
  BY <1>1, <1>2, <1>3, <1>4

\* No page of a site lands in the bucket after the site's event.
LEMMA EventIsLast ==
  RunInv /\ [Next]_vars =>
    \A h \in Host : announced[h] \in Terminal /\ child[h] # "killed" => docs'[h] = docs[h]
<1> SUFFICES ASSUME RunInv, [Next]_vars, NEW h \in Host, announced[h] \in Terminal,
                    child[h] # "killed"
             PROVE  docs'[h] = docs[h]
  OBVIOUS
<1>1. h \notin writing
  <2>1. HostInv(h) /\ announced[h] # "none"
    BY DEF RunInv, HostsInv, Terminal
  <2> QED
    BY <2>1 DEF HostInv, Ended
<1>2. ASSUME NEW g \in Host, WriteLands(g) PROVE docs'[h] = docs[h]
  BY <1>1, <1>2 DEF WriteLands, RunInv, CrawlTyped
<1>3. ASSUME NEW g \in Host,
             ChildPage(g) \/ ChildEnds(g) \/ KillChild(g) \/ WriteFails(g) \/ ChildDone(g)
      PROVE  docs' = docs
  BY <1>3 DEF ChildPage, ChildEnds, KillChild, WriteFails, ChildDone
<1>4. ASSUME \/ StartChild \/ Wait \/ NextBatch \/ LoopEnds \/ ContinueAsNew \/ End
             \/ Recorder \/ KillParent \/ PutTimesOut \/ UNCHANGED vars
             \/ \E put \in late : LatePut(put)
      PROVE  docs' = docs
  BY <1>4 DEF StartChild, Wait, NextBatch, LoopEnds, ContinueAsNew, End, Recorder, GetManifest,
     CreateManifest, PutManifest, KillParent, PutTimesOut, LatePut, crawl, vars
<1> QED
  BY <1>2, <1>3, <1>4 DEF Next, Parent, Failures, Over, Child

\* Whatever PUT is still on its way when the run is finished writes what stands.
LEMMA FinishedStands ==
  RunInv /\ [Next]_vars =>
    (manifest.content.status \in Terminal => manifest'.content = manifest.content)
<1> SUFFICES ASSUME RunInv, [Next]_vars, manifest.content.status \in Terminal
             PROVE  manifest'.content = manifest.content
  OBVIOUS
<1>1. /\ ManifestTyped /\ ActivityInv /\ manifest.content = Final /\ parent \in Closing
      /\ \A put \in late : put.seen = manifest.etag => put.content = Final
  BY DEF RunInv, RecordInv, FinishedInv
<1>2. CASE PutManifest
  <2>1. rec.op = "finish" /\ rec.content = Final
    BY <1>1, <1>2 DEF PutManifest, ActivityInv, RecordType, Closing
  <2> QED
    BY <1>1, <1>2, <2>1 DEF PutManifest, Put
<1>3. CASE CreateManifest
  BY <1>1, <1>3 DEF CreateManifest, ActivityInv, Closing
<1>4. ASSUME NEW put \in late, LatePut(put) PROVE manifest'.content = manifest.content
  BY <1>1, <1>4 DEF LatePut, Matches, Put
<1>5. ASSUME \/ Parent \/ GetManifest \/ PutTimesOut \/ KillParent \/ UNCHANGED vars
             \/ \E h \in Host : Child(h) \/ KillChild(h) \/ WriteFails(h)
      PROVE  manifest' = manifest
  BY <1>5 DEF Parent, StartChild, Wait, NextBatch, LoopEnds, ContinueAsNew, End, ChildDone,
     GetManifest, PutTimesOut, KillParent, Child, ChildPage, WriteLands, ChildEnds, KillChild,
     WriteFails, record, vars
<1> QED
  BY <1>2, <1>3, <1>4, <1>5 DEF Next, Recorder, Failures, Over

\* A run keeps its batches in turn, publishes a site's event after its pages, and a
\* finished manifest stands and is true, whatever attempt or PUT is late, lost or killed.
THEOREM RunsOrdered == Spec => RunIsOrdered
<1>1. RunInv => BatchesInTurn /\ SummaryIsTrue
  BY BatchesEnd, SummaryTells
<1>2. RunInv /\ [Next]_vars =>
        [\A h \in Host : announced[h] \in Terminal /\ child[h] # "killed" =>
           docs'[h] = docs[h]]_vars
  BY EventIsLast
<1>3. RunInv /\ [Next]_vars =>
        [manifest.content.status \in Terminal => manifest'.content = manifest.content]_vars
  BY FinishedStands
<1> QED
  BY <1>1, <1>2, <1>3, RunInvariant, PTL
     DEF Spec, RunIsOrdered, PagesBeforeEvent, FinalStands
=============================================================================
