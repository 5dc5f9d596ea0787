------------------------- MODULE WebResearch_proofs -------------------------
(***************************************************************************)
(* Theorems about WebResearch, for every web, every ranking of its links,  *)
(* every quota, and however much the model's research had read before.     *)
(***************************************************************************)
EXTENDS WebResearch, FiniteSetTheorems, WellFoundedInduction, TLAPS

-----------------------------------------------------------------------------
(* A page that was taken up, by the model or as a link, is visited, so that *)
(* its link is not followed: the check comes right before, however old the  *)
(* ranking is.                                                              *)

Followed ==
  /\ reads \in [Pages -> Nat]
  /\ \A p \in Pages : reads[p] <= 1 /\ (reads[p] = 1 => p \in visited)

LEMMA FollowedInit == Init => Followed
<1> SUFFICES ASSUME Init PROVE Followed
  OBVIOUS
<1>1. reads = [p \in Pages |-> IF p \in visited THEN 1 ELSE 0]
  BY DEF Init
<1> QED
  BY <1>1 DEF Followed

LEMMA FollowStep ==
  ASSUME Followed, NEW q, q \notin visited, Follow(q)
  PROVE  Followed'
<1>1. reads' = [reads EXCEPT ![q] = @ + 1] /\ visited' = visited \union {q}
  BY DEF Follow
<1>2. reads' \in [Pages -> Nat]
  <2>1. CASE q \in Pages
    BY <1>1, <2>1 DEF Followed
  <2>2. CASE q \notin Pages
    <3>1. reads' = reads
      BY <1>1, <2>2 DEF Followed
    <3> QED
      BY <3>1 DEF Followed
  <2> QED
    BY <2>1, <2>2
<1>3. ASSUME NEW p \in Pages
      PROVE  reads'[p] <= 1 /\ (reads'[p] = 1 => p \in visited')
  <2>1. CASE p = q
    <3>1. reads[p] = 0
      BY <2>1 DEF Followed
    <3> QED
      BY <1>1, <2>1, <3>1 DEF Followed
  <2>2. CASE p # q
    BY <1>1, <2>2 DEF Followed
  <2> QED
    BY <2>1, <2>2
<1> QED
  BY <1>2, <1>3 DEF Followed

LEMMA FollowedStep ==
  ASSUME Followed, [Next]_vars
  PROVE  Followed'
<1>1. CASE Click
  <2>1. Head(links) \notin visited /\ Follow(Head(links))
    BY <1>1 DEF Click, Stale
  <2> QED
    BY <2>1, FollowStep
<1>2. CASE FollowDeeper
  <2>1. Head(deeper) \notin visited /\ Follow(Head(deeper))
    BY <1>2 DEF FollowDeeper, Stale
  <2> QED
    BY <2>1, FollowStep
<1>3. CASE EndSeeds \/ SkipSeed \/ OpenSeed \/ EndLinks \/ SkipLink \/ Open \/ ReadArticle
           \/ EndDeeper \/ SkipDeeper \/ Done \/ UNCHANGED vars
  <2>1. UNCHANGED <<reads, visited>>
    BY <1>3 DEF EndSeeds, SkipSeed, OpenSeed, EndLinks, SkipLink, Open, ReadArticle,
       EndDeeper, SkipDeeper, Done, vars
  <2> QED
    BY <2>1 DEF Followed
<1> QED
  BY <1>1, <1>2, <1>3 DEF Next

(* No link is followed twice in a round of research, nor one to a page that *)
(* the model's own research had been to before it, whatever the links and   *)
(* their scores.                                                            *)
THEOREM NoneFollowedTwice == Spec => []FollowedOnce
<1>1. Followed => FollowedOnce
  BY DEF Followed, FollowedOnce
<1> QED
  BY <1>1, FollowedInit, FollowedStep, PTL DEF Spec

-----------------------------------------------------------------------------
(* The seeds.  The list is built page by page; what holds of it is shown   *)
(* by induction on the pages offered, over the set of the numbers for      *)
(* which it holds.                                                         *)

LEMMA NatInductionSet ==
  ASSUME NEW S, 0 \in S, \A n \in Nat : n \in S => n + 1 \in S
  PROVE  Nat \subseteq S
<1> DEFINE R == OpToRel(<, Nat)
<1>1. IsWellFoundedOn(R, Nat)
  BY NatLessThanWellFounded
<1>2. \A i, j \in Nat : i < j => <<i, j>> \in R
  BY DEF OpToRel
<1> HIDE DEF R
<1> SUFFICES ASSUME Nat \ S # {} PROVE FALSE
  OBVIOUS
<1>3. PICK n \in Nat \ S : \A m \in Nat \ S : ~ (<<m, n>> \in R)
  <2>1. Nat \ S \subseteq Nat /\ Nat \ S # {}
    OBVIOUS
  <2> QED
    BY <1>1, <2>1, WFMin
<1>4. n # 0 /\ n - 1 \in Nat /\ n - 1 < n /\ (n - 1) + 1 = n
  BY <1>3
<1>5. n - 1 \in S
  BY <1>2, <1>3, <1>4
<1> QED
  BY <1>3, <1>4, <1>5

Grown(list, p, most, key) ==
  IF \/ Len(list) >= most
     \/ \E i \in DOMAIN list : key[list[i]] = key[p]
  THEN list
  ELSE Append(list, p)

IsCollected(g, offered, limit, key, m) ==
  g = [n \in 0..m |-> IF n = 0 THEN <<>> ELSE Grown(g[n - 1], offered[n], limit[n], key)]

LEMMA CollectedExists ==
  ASSUME NEW offered, NEW limit, NEW key, NEW m \in Nat
  PROVE  \E g : IsCollected(g, offered, limit, key, m)
<1> DEFINE S == {k \in Nat : \E g : IsCollected(g, offered, limit, key, k)}
<1>1. 0 \in S
  <2>1. IsCollected([n \in 0..0 |-> <<>>], offered, limit, key, 0)
    BY DEF IsCollected
  <2> QED
    BY <2>1
<1>2. ASSUME NEW k \in Nat, k \in S
      PROVE  k + 1 \in S
  <2>1. PICK g : IsCollected(g, offered, limit, key, k)
    BY <1>2
  <2> DEFINE h == [n \in 0..(k + 1) |->
                     IF n = k + 1 THEN Grown(g[k], offered[n], limit[n], key) ELSE g[n]]
  <2>2. \A n \in 0..k : h[n] = g[n]
    OBVIOUS
  <2>3. \A n \in 0..(k + 1) :
          h[n] = IF n = 0 THEN <<>> ELSE Grown(h[n - 1], offered[n], limit[n], key)
    <3>1. ASSUME NEW n \in 0..k
          PROVE  g[n] = IF n = 0 THEN <<>> ELSE Grown(g[n - 1], offered[n], limit[n], key)
      BY <2>1 DEF IsCollected
    <3>2. h[k + 1] = Grown(h[k], offered[k + 1], limit[k + 1], key)
      BY <2>2
    <3>3. \A n \in 0..k : n # 0 => n - 1 \in 0..k
      OBVIOUS
    <3> QED
      BY <2>2, <3>1, <3>2, <3>3
  <2>4. IsCollected(h, offered, limit, key, k + 1)
    BY <2>3 DEF IsCollected
  <2> HIDE DEF h
  <2> QED
    BY <2>4
<1> HIDE DEF S
<1>3. Nat \subseteq S
  BY <1>1, <1>2, NatInductionSet
<1> QED
  BY <1>3 DEF S

LEMMA CollectIsCollected ==
  ASSUME NEW offered \in Seq(Pages), NEW limit, NEW key
  PROVE  \E g : /\ IsCollected(g, offered, limit, key, Len(offered))
                /\ Collect(offered, limit, key) = g[Len(offered)]
<1> DEFINE g == CHOOSE list : IsCollected(list, offered, limit, key, Len(offered))
<1>1. IsCollected(g, offered, limit, key, Len(offered))
  BY CollectedExists
<1>2. Collect(offered, limit, key) = g[Len(offered)]
  BY DEF Collect, IsCollected, Grown
<1> QED
  BY <1>1, <1>2

(* What one page may do to the list.                                       *)
LEMMA GrownCases ==
  ASSUME NEW list \in Seq(Pages), NEW p \in Pages, NEW most \in Nat, NEW key
  PROVE  \/ /\ Grown(list, p, most, key) = list
            /\ Len(list) >= most \/ \E i \in 1..Len(list) : key[list[i]] = key[p]
         \/ /\ Grown(list, p, most, key) = Append(list, p) /\ Len(list) < most
            /\ \A i \in 1..Len(list) : key[list[i]] # key[p]
            /\ Append(list, p) \in Seq(Pages) /\ Len(Append(list, p)) = Len(list) + 1
            /\ \A i \in 1..Len(list) : Append(list, p)[i] = list[i]
            /\ Append(list, p)[Len(list) + 1] = p
<1>1. Len(list) \in Nat /\ DOMAIN list = 1..Len(list)
  OBVIOUS
<1>2. CASE Len(list) >= most \/ \E i \in 1..Len(list) : key[list[i]] = key[p]
  BY <1>1, <1>2 DEF Grown
<1>3. CASE Len(list) < most /\ \A i \in 1..Len(list) : key[list[i]] # key[p]
  <2>1. ~(Len(list) >= most) /\ ~(\E i \in DOMAIN list : key[list[i]] = key[p])
    BY <1>1, <1>3
  <2>2. Grown(list, p, most, key) = Append(list, p)
    BY <2>1, Zenon DEF Grown
  <2> QED
    BY <1>3, <2>2
<1> QED
  BY <1>1, <1>2, <1>3

(* The lists that are possible after so many pages, where a page leads     *)
(* from one to the next.                                                   *)
LEMMA CollectInduction ==
  ASSUME NEW offered \in Seq(Pages), NEW limit, NEW key, NEW Inv, <<>> \in Inv[0],
         \A n \in 1..Len(offered) : \A list \in Inv[n - 1] :
           Grown(list, offered[n], limit[n], key) \in Inv[n]
  PROVE  Collect(offered, limit, key) \in Inv[Len(offered)]
<1>1. PICK g : /\ IsCollected(g, offered, limit, key, Len(offered))
               /\ Collect(offered, limit, key) = g[Len(offered)]
  BY CollectIsCollected
<1>2. Len(offered) \in Nat
  OBVIOUS
<1> DEFINE S == {n \in Nat : n <= Len(offered) => g[n] \in Inv[n]}
<1>3. 0 \in S
  BY <1>1, <1>2 DEF IsCollected
<1>4. ASSUME NEW n \in Nat, n \in S
      PROVE  n + 1 \in S
  <2>1. CASE n + 1 <= Len(offered)
    <3>1. g[n + 1] = Grown(g[n], offered[n + 1], limit[n + 1], key)
      BY <1>1, <1>2, <2>1 DEF IsCollected
    <3>2. g[n] \in Inv[n] /\ n + 1 \in 1..Len(offered) /\ (n + 1) - 1 = n
      BY <1>2, <1>4, <2>1
    <3>3. g[n + 1] \in Inv[n + 1]
      BY <3>1, <3>2
    <3> QED
      BY <3>3
  <2> QED
    BY <2>1
<1>5. Nat \subseteq S
  <2> HIDE DEF S
  <2> QED
    BY <1>3, <1>4, NatInductionSet
<1> QED
  BY <1>1, <1>2, <1>5

LEMMA Quotas ==
  /\ MaxSeeds \in Nat /\ MaxLinks \in Nat /\ PerSeed \in Nat /\ PerPage \in Nat
  /\ GiveUp \in Nat /\ MaxFound \in Nat
BY WebResearchAssumption

(* A list of seeds: pages, no more than there is room for.                 *)
Seeds(list) == list \in Seq(Pages) /\ Len(list) <= MaxSeeds

LEMMA CollectSeeds ==
  ASSUME NEW offered \in Seq(Pages), NEW limit, NEW key,
         \A n \in 1..Len(offered) : limit[n] \in 0..MaxSeeds
  PROVE  Seeds(Collect(offered, limit, key))
<1> DEFINE Inv == [n \in 0..Len(offered) |-> {list \in Seq(Pages) : Len(list) <= MaxSeeds}]
<1>1. <<>> \in Inv[0]
  BY Quotas
<1>2. ASSUME NEW n \in 1..Len(offered), NEW list \in Inv[n - 1]
      PROVE  Grown(list, offered[n], limit[n], key) \in Inv[n]
  <2>1. list \in Seq(Pages) /\ Len(list) <= MaxSeeds /\ Len(list) \in Nat
    OBVIOUS
  <2>2. PICK most \in Nat : most = limit[n] /\ most <= MaxSeeds
    BY Quotas
  <2>3. PICK next : next = Grown(list, offered[n], most, key)
    OBVIOUS
  <2>4. next \in Seq(Pages) /\ Len(next) <= MaxSeeds
    BY <2>1, <2>2, <2>3, GrownCases, Quotas
  <2> QED
    BY <2>2, <2>3, <2>4
<1>3. Collect(offered, limit, key) \in Inv[Len(offered)]
  <2> HIDE DEF Inv
  <2> QED
    BY <1>1, <1>2, CollectInduction
<1> QED
  BY <1>3 DEF Seeds

LEMMA FoundTyped ==
  ASSUME NEW found \in Seq(Pages), NEW evidence, NEW restrict
  PROVE  Seeds(FoundSeeds(found, evidence, restrict))
<1> DEFINE offered == found \o found
           Fit(n)  == /\ n <= Len(found) => evidence[offered[n]] = "empty"
                      /\ Host[offered[n]] \notin Search
                      /\ restrict => Host[offered[n]] \in News
           limit == [n \in DOMAIN offered |-> IF Fit(n) THEN MaxSeeds ELSE 0]
<1>1. offered \in Seq(Pages)
  OBVIOUS
<1>2. \A n \in 1..Len(offered) : limit[n] = MaxSeeds \/ limit[n] = 0
  <2>1. DOMAIN offered = 1..Len(offered)
    BY <1>1
  <2> HIDE DEF Fit, offered
  <2> QED
    BY <2>1
<1>3. \A n \in 1..Len(offered) : limit[n] \in 0..MaxSeeds
  BY <1>2, WebResearchAssumption
<1>4. FoundSeeds(found, evidence, restrict) = Collect(offered, limit, Host)
  BY DEF FoundSeeds
<1> QED
  <2> HIDE DEF limit, offered, Fit
  <2> QED
    BY <1>1, <1>3, <1>4, CollectSeeds

LEMMA MergeTyped ==
  ASSUME NEW primary \in Seq(Pages), NEW fallback \in Seq(Pages)
  PROVE  Seeds(Merge(primary, fallback))
<1> DEFINE offered == primary \o fallback \o primary
           limit == [n \in DOMAIN offered |->
                       IF n <= Len(primary) THEN MaxSeeds - MinFallback ELSE MaxSeeds]
           key == [p \in Pages |-> p]
<1>1. offered \in Seq(Pages)
  OBVIOUS
<1>2. MaxSeeds - MinFallback \in 0..MaxSeeds /\ MaxSeeds \in 0..MaxSeeds
  BY WebResearchAssumption
<1>3. \A n \in 1..Len(offered) : limit[n] \in 0..MaxSeeds
  <2>1. DOMAIN offered = 1..Len(offered)
    BY <1>1
  <2> HIDE DEF offered
  <2> QED
    BY <1>2, <2>1
<1>4. Merge(primary, fallback) = Collect(offered, limit, key)
  BY DEF Merge
<1> QED
  <2> HIDE DEF limit, offered, key
  <2> QED
    BY <1>1, <1>3, <1>4, CollectSeeds

(* collectResearchSeedURLs: a seed is a page that was found, of no search   *)
(* engine, of a news site where the request asks for those, and no other   *)
(* seed is of its host.                                                    *)
THEOREM SeedsOfFound ==
  ASSUME NEW found \in Seq(Pages), NEW evidence, NEW restrict \in BOOLEAN
  PROVE  LET list == FoundSeeds(found, evidence, restrict) IN
         /\ \A i \in 1..Len(list) :
              /\ list[i] \in ToSet(found) /\ Host[list[i]] \notin Search
              /\ restrict => Host[list[i]] \in News
         /\ \A i, j \in 1..Len(list) : i # j => Host[list[i]] # Host[list[j]]
<1> DEFINE offered == found \o found
           Fit(n)  == /\ n <= Len(found) => evidence[offered[n]] = "empty"
                      /\ Host[offered[n]] \notin Search
                      /\ restrict => Host[offered[n]] \in News
           limit == [n \in DOMAIN offered |-> IF Fit(n) THEN MaxSeeds ELSE 0]
           Good(p) == /\ p \in ToSet(found) /\ Host[p] \notin Search
                      /\ restrict => Host[p] \in News
           Lists == {list \in Seq(Pages) :
                       /\ \A i \in 1..Len(list) : Good(list[i])
                       /\ \A i, j \in 1..Len(list) : i # j => Host[list[i]] # Host[list[j]]}
           Inv == [n \in 0..Len(offered) |-> Lists]
<1>1. offered \in Seq(Pages) /\ \A n \in 1..Len(offered) : offered[n] \in ToSet(found)
  BY DEF ToSet
<1>2. \A n \in 1..Len(offered) :
        /\ limit[n] \in Nat
        /\ limit[n] > 0 => Host[offered[n]] \notin Search
        /\ limit[n] > 0 /\ restrict => Host[offered[n]] \in News
  <2> HIDE DEF offered
  <2>1. DOMAIN offered = 1..Len(offered)
    BY <1>1
  <2> QED
    BY <2>1, Quotas
<1>3. \A n \in 1..Len(offered) : limit[n] > 0 => Good(offered[n])
  BY <1>1, <1>2
<1>4. FoundSeeds(found, evidence, restrict) = Collect(offered, limit, Host)
  BY DEF FoundSeeds
<1> HIDE DEF limit, offered, Good, Fit
<1>5. <<>> \in Inv[0]
  BY <1>1
<1>6. ASSUME NEW n \in 1..Len(offered), NEW list \in Inv[n - 1]
      PROVE  Grown(list, offered[n], limit[n], Host) \in Inv[n]
  <2>1. /\ list \in Seq(Pages) /\ Len(list) \in Nat /\ \A i \in 1..Len(list) : Good(list[i])
        /\ \A i, j \in 1..Len(list) : i # j => Host[list[i]] # Host[list[j]]
    BY <1>1
  <2>0. offered[n] \in Pages /\ limit[n] \in Nat /\ (limit[n] > 0 => Good(offered[n]))
    BY <1>1, <1>2, <1>3
  <2>2. PICK p \in Pages, most \in Nat :
          p = offered[n] /\ most = limit[n] /\ (most > 0 => Good(p))
    BY <2>0, Zenon
  <2>3. PICK next : next = Grown(list, p, most, Host)
    OBVIOUS
  <2>4. next = list => next \in Lists
    BY <2>1
  <2>5. ASSUME /\ next \in Seq(Pages) /\ Len(next) = Len(list) + 1 /\ Len(list) < most
               /\ \A i \in 1..Len(list) : Host[list[i]] # Host[p]
               /\ \A i \in 1..Len(list) : next[i] = list[i]
               /\ next[Len(list) + 1] = p
        PROVE  next \in Lists
    <3>1. \A i \in 1..Len(next) : i \in 1..Len(list) \/ i = Len(list) + 1
      BY <2>1, <2>5
    <3>2. Good(p)
      BY <2>1, <2>2, <2>5
    <3>3. \A i \in 1..Len(next) : Good(next[i])
      BY <2>1, <2>5, <3>1, <3>2
    <3>4. \A i, j \in 1..Len(list) : i # j => Host[next[i]] # Host[next[j]]
      BY <2>1, <2>5
    <3>5. \A i \in 1..Len(list) : Host[next[i]] # Host[next[Len(list) + 1]]
      BY <2>5
    <3>6. ASSUME NEW i \in 1..Len(next), NEW j \in 1..Len(next), i # j
          PROVE  Host[next[i]] # Host[next[j]]
      <4>1. i \in 1..Len(list) \/ j \in 1..Len(list)
        BY <3>1, <3>6
      <4> QED
        BY <4>1, <3>1, <3>4, <3>5, <3>6, Zenon
    <3> QED
      BY <2>5, <3>3, <3>6
  <2>6. next \in Lists
    <3>1. \/ next = list
          \/ /\ next = Append(list, p) /\ Len(list) < most
             /\ \A i \in 1..Len(list) : Host[list[i]] # Host[p]
             /\ Append(list, p) \in Seq(Pages) /\ Len(Append(list, p)) = Len(list) + 1
             /\ \A i \in 1..Len(list) : Append(list, p)[i] = list[i]
             /\ Append(list, p)[Len(list) + 1] = p
      BY <2>1, <2>3, GrownCases
    <3> HIDE DEF Lists
    <3> QED
      BY <2>4, <2>5, <3>1
  <2>7. n \in 0..Len(offered)
    BY <1>1
  <2> QED
    <3> HIDE DEF Lists
    <3> QED
      BY <2>2, <2>3, <2>6, <2>7
<1>7. Collect(offered, limit, Host) \in Lists
  <2>1. Collect(offered, limit, Host) \in Inv[Len(offered)]
    <3> HIDE DEF Inv
    <3> QED
      BY <1>1, <1>5, <1>6, CollectInduction
  <2> HIDE DEF Lists
  <2> QED
    BY <1>1, <2>1
<1> QED
  BY <1>4, <1>7 DEF Good

(* mergeResearchSeeds: no seed twice; and the fallback has the share that  *)
(* is meant for it (minFallback), unless all of it is there: of a full     *)
(* list, no more than the first MaxSeeds - MinFallback seeds are others'.  *)
Shared(list, fallback) ==
  \/ \A j \in 1..Len(fallback) : fallback[j] \in ToSet(list)
  \/ /\ Len(list) = MaxSeeds
     /\ \A i \in 1..Len(list) : i > MaxSeeds - MinFallback => list[i] \in ToSet(fallback)

THEOREM FallbackHasItsShare ==
  ASSUME NEW primary \in Seq(Pages), NEW fallback \in Seq(Pages)
  PROVE  LET list == Merge(primary, fallback) IN
         /\ Shared(list, fallback)
         /\ \A i, j \in 1..Len(list) : i # j => list[i] # list[j]
<1> DEFINE offered == primary \o fallback \o primary
           limit == [n \in DOMAIN offered |->
                       IF n <= Len(primary) THEN MaxSeeds - MinFallback ELSE MaxSeeds]
           key == [p \in Pages |-> p]
           Most == MaxSeeds - MinFallback
           P == Len(primary)
           F == Len(fallback)
           Once(list) == \A i, j \in 1..Len(list) : i # j => list[i] # list[j]
           Early(n, list) == n <= P => Len(list) <= Most
           Filling(n, list) ==
             /\ n <= P + F
             /\ \A i \in 1..Len(list) : i > Most => list[i] \in ToSet(fallback)
             /\ \A j \in 1..F : P + j <= n => fallback[j] \in ToSet(list)
           Inv == [n \in 0..Len(offered) |->
                     {list \in Seq(Pages) :
                        /\ Len(list) <= MaxSeeds /\ Once(list) /\ Early(n, list)
                        /\ n >= P => Filling(n, list) \/ Shared(list, fallback)}]
<1>1. /\ offered \in Seq(Pages) /\ P \in Nat /\ F \in Nat /\ Len(offered) = P + F + P
      /\ DOMAIN offered = 1..Len(offered)
      /\ \A n \in 1..Len(offered) : n > P /\ n <= P + F => offered[n] = fallback[n - P]
  OBVIOUS
<1>2. Most \in Nat /\ MaxSeeds \in Nat /\ Most <= MaxSeeds
  BY WebResearchAssumption
<1>3. \A n \in 1..Len(offered) : limit[n] = IF n <= P THEN Most ELSE MaxSeeds
  <2> HIDE DEF offered, Most
  <2> QED
    BY <1>1 DEF Most
<1>4. Merge(primary, fallback) = Collect(offered, limit, key)
  BY DEF Merge
<1> HIDE DEF offered, limit, Most, P, F
<1>5. <<>> \in Inv[0]
  <2>1. Once(<<>>) /\ Early(0, <<>>)
    BY <1>1, <1>2
  <2>2. Filling(0, <<>>)
    BY <1>1, <1>2
  <2>3. 0 \in 0..Len(offered) /\ <<>> \in Seq(Pages) /\ Len(<<>>) <= MaxSeeds
    BY <1>1, <1>2
  <2> HIDE DEF Once, Early, Filling
  <2> QED
    BY <2>1, <2>2, <2>3
<1>6. ASSUME NEW n \in 1..Len(offered), NEW list \in Inv[n - 1]
      PROVE  Grown(list, offered[n], limit[n], key) \in Inv[n]
  <2>0. n \in Nat /\ n - 1 \in Nat /\ n - 1 \in 0..Len(offered) /\ n \in 0..Len(offered)
    BY <1>1
  <2>1. /\ list \in Seq(Pages) /\ Len(list) <= MaxSeeds
        /\ Once(list) /\ Early(n - 1, list)
        /\ n - 1 >= P => Filling(n - 1, list) \/ Shared(list, fallback)
    <3> HIDE DEF Once, Early, Filling
    <3> QED
      BY <2>0
  <2>2. PICK p \in Pages : p = offered[n]
    BY <1>1
  <2>3. PICK most \in Nat : most = limit[n] /\ most = IF n <= P THEN Most ELSE MaxSeeds
    BY <1>2, <1>3
  <2>4. PICK next : next = Grown(list, p, most, key)
    OBVIOUS
  <2>5. Len(list) \in Nat /\ \A i \in 1..Len(list) : list[i] \in Pages /\ key[list[i]] = list[i]
    BY <2>1
  <2>6. \/ /\ next = list
           /\ Len(list) >= most \/ \E i \in 1..Len(list) : list[i] = p
        \/ /\ next \in Seq(Pages) /\ Len(next) = Len(list) + 1 /\ Len(list) < most
           /\ \A i \in 1..Len(list) : list[i] # p
           /\ \A i \in 1..Len(list) : next[i] = list[i]
           /\ next[Len(list) + 1] = p
    <3>1. key[p] = p
      OBVIOUS
    <3> HIDE DEF key, Once, Early, Filling
    <3>2. \/ /\ next = list
             /\ Len(list) >= most \/ \E i \in 1..Len(list) : key[list[i]] = key[p]
          \/ /\ next = Append(list, p) /\ Len(list) < most
             /\ \A i \in 1..Len(list) : key[list[i]] # key[p]
             /\ Append(list, p) \in Seq(Pages) /\ Len(Append(list, p)) = Len(list) + 1
             /\ \A i \in 1..Len(list) : Append(list, p)[i] = list[i]
             /\ Append(list, p)[Len(list) + 1] = p
      BY <2>1, <2>4, GrownCases
    <3> QED
      BY <2>5, <3>1, <3>2
  <2>7. ASSUME NEW q, q \in ToSet(list)
        PROVE  q \in ToSet(next)
    <3>1. PICK i \in 1..Len(list) : list[i] = q
      BY <2>1, <2>7 DEF ToSet
    <3>2. next \in Seq(Pages) /\ i \in 1..Len(next) /\ next[i] = q
      BY <2>1, <2>5, <2>6, <3>1
    <3> QED
      BY <3>2 DEF ToSet
  <2>8. next \in Seq(Pages) /\ Len(next) <= MaxSeeds /\ Len(next) \in Nat
    BY <1>2, <2>1, <2>3, <2>5, <2>6
  <2>9. Once(next)
    <3>1. \A i \in 1..Len(next) :
            \/ i \in 1..Len(list) /\ next[i] = list[i]
            \/ (i = Len(list) + 1 /\ next[i] = p /\ \A k \in 1..Len(list) : list[k] # p)
      BY <2>1, <2>5, <2>6
    <3> QED
      BY <2>1, <3>1
  <2>10. Early(n, next)
    BY <1>1, <1>2, <2>0, <2>1, <2>3, <2>5, <2>6
  <2>11. n = P => Filling(n, next)
    BY <1>1, <1>2, <2>8, <2>10
  <2>12. n > P /\ Shared(list, fallback) => Shared(next, fallback)
    <3>1. CASE \A j \in 1..Len(fallback) : fallback[j] \in ToSet(list)
      BY <2>7, <3>1 DEF Shared
    <3>2. CASE n > P /\ Len(list) = MaxSeeds
      BY <1>1, <1>2, <2>3, <2>6, <3>2
    <3> QED
      BY <3>1, <3>2 DEF Shared
  <2>13. ASSUME n > P, n <= P + F, Filling(n - 1, list)
         PROVE  Filling(n, next) \/ Shared(next, fallback)
    <3>1. p = fallback[n - P] /\ n - P \in 1..F /\ p \in ToSet(fallback)
      BY <1>1, <2>2, <2>13 DEF ToSet, F
    <3>2. most = MaxSeeds
      BY <1>1, <2>3, <2>13
    <3>3. CASE p \in ToSet(next)
      <4>1. \A i \in 1..Len(next) : i > Most => next[i] \in ToSet(fallback)
        BY <2>5, <2>6, <2>13, <3>1
      <4>2. ASSUME NEW j \in 1..F, P + j <= n
            PROVE  fallback[j] \in ToSet(next)
        <5>1. CASE P + j <= n - 1
          BY <2>7, <2>13, <5>1
        <5>2. CASE j = n - P
          BY <3>1, <3>3, <5>2
        <5> QED
          BY <1>1, <2>0, <4>2, <5>1, <5>2
      <4> QED
        BY <2>13, <4>1, <4>2
    <3>4. CASE p \notin ToSet(next)
      <4>1. next = list /\ Len(list) >= MaxSeeds
        <5>1. p \notin ToSet(list)
          BY <2>7, <3>4
        <5>2. ~ \E i \in 1..Len(list) : list[i] = p
          BY <2>1, <5>1 DEF ToSet
        <5>3. next[Len(list) + 1] # p \/ Len(next) # Len(list) + 1
          BY <2>5, <2>8, <3>4 DEF ToSet
        <5> QED
          BY <2>6, <3>2, <5>2, <5>3
      <4> QED
        BY <1>2, <2>8, <2>13, <4>1 DEF Shared, Most
    <3> QED
      BY <3>3, <3>4
  <2>14. n > P + F /\ Filling(n - 1, list) => Shared(list, fallback)
    BY <1>1, <2>0 DEF Shared, F
  <2>15. n >= P => Filling(n, next) \/ Shared(next, fallback)
    <3> HIDE DEF Filling
    <3> QED
      BY <1>1, <2>0, <2>1, <2>11, <2>12, <2>13, <2>14
  <2>16. next \in Inv[n]
    <3> HIDE DEF Once, Early, Filling
    <3> QED
      BY <2>0, <2>8, <2>9, <2>10, <2>15
  <2> QED
    BY <2>2, <2>3, <2>4, <2>16
<1>7. Collect(offered, limit, key) \in Inv[Len(offered)]
  <2> HIDE DEF Inv, key
  <2> QED
    BY <1>1, <1>5, <1>6, CollectInduction
<1>8. PICK list : list = Collect(offered, limit, key)
  OBVIOUS
<1>9. list \in Seq(Pages) /\ Once(list) /\ (Filling(Len(offered), list) \/ Shared(list, fallback))
  <2>1. Len(offered) \in 0..Len(offered) /\ Len(offered) >= P
    BY <1>1
  <2> HIDE DEF Once, Early, Filling
  <2> QED
    BY <1>7, <1>8, <2>1
<1>10. ASSUME Filling(Len(offered), list)
       PROVE  Shared(list, fallback)
  <2>1. \A j \in 1..F : P + j <= Len(offered)
    BY <1>1
  <2>2. \A j \in 1..F : fallback[j] \in ToSet(list)
    BY <1>10, <2>1
  <2> QED
    BY <2>2 DEF Shared, F
<1> QED
  BY <1>4, <1>8, <1>9, <1>10

-----------------------------------------------------------------------------
(* Types.  While a link is followed there is one, of a seed, and a quota   *)
(* is passed by the article that shows the deeper links at most.           *)

Typed ==
  /\ TypeOK
  /\ pc \in {"article", "open", "read", "deeper"} => seeds # <<>>
  /\ pc \in {"open", "read", "deeper"} => links # <<>>
  /\ pc \in {"open", "read"} => total < MaxLinks /\ used < PerSeed
  /\ pc = "deeper" => total <= MaxLinks /\ used <= PerSeed

LEMMA AtMostTyped ==
  ASSUME NEW a \in Nat
  PROVE  AtMost(a, GiveUp) \in 0..GiveUp
BY Quotas DEF AtMost

LEMMA FoundPages ==
  ASSUME NEW found \in SeqOf(Pages, MaxFound)
  PROVE  found \in Seq(Pages) /\ ToSet(found) \subseteq Pages
<1>1. PICK m \in 0..MaxFound : found \in [1..m -> Pages]
  BY DEF SeqOf
<1>2. m \in Nat
  BY Quotas
<1> QED
  BY <1>1, <1>2 DEF ToSet

(* How a round begins, of what the model's research found. *)
Begun(found, evidence, restrict, query) ==
  /\ visited = ToSet(found)
  /\ successes = {Host[p] : p \in {q \in visited : evidence[q] = "extractable"}}
  /\ failures = [h \in HostSet |->
       AtMost(Cardinality({p \in visited : Host[p] = h /\ evidence[p] # "extractable"}), GiveUp)]
  /\ seeds = Merge(FoundSeeds(found, evidence, restrict), IF query THEN Fallback ELSE <<>>)

LEMMA TypedInit == Init => Typed
<1> SUFFICES ASSUME Init PROVE Typed
  OBVIOUS
<1>1. PICK found \in {s \in SeqOf(Pages, MaxFound) : IsInjective(s)}, restrict \in BOOLEAN,
           query \in BOOLEAN :
       \E evidence \in [ToSet(found) -> Evidence] : Begun(found, evidence, restrict, query)
  BY DEF Init, Begun
<1>2. PICK evidence \in [ToSet(found) -> Evidence] : Begun(found, evidence, restrict, query)
  BY <1>1
<1>3. found \in Seq(Pages) /\ visited \subseteq Pages
  BY <1>2, FoundPages DEF Begun
<1>4. Seeds(seeds)
  <2>1. FoundSeeds(found, evidence, restrict) \in Seq(Pages)
    BY <1>3, FoundTyped DEF Seeds
  <2>2. (IF query THEN Fallback ELSE <<>>) \in Seq(Pages)
    BY WebResearchAssumption
  <2> QED
    BY <1>2, <2>1, <2>2, MergeTyped DEF Begun
<1>5. reads \in [Pages -> Nat]
  <2>1. reads = [p \in Pages |-> IF p \in visited THEN 1 ELSE 0]
    BY DEF Init
  <2> QED
    BY <2>1
<1>6. failures \in [HostSet -> 0..GiveUp]
  <2>1. ASSUME NEW h \in HostSet
        PROVE  AtMost(Cardinality({p \in visited : Host[p] = h /\ evidence[p] # "extractable"}),
                      GiveUp) \in 0..GiveUp
    <3> DEFINE lost == {p \in visited : Host[p] = h /\ evidence[p] # "extractable"}
    <3>1. lost \in SUBSET Pages
      BY <1>3
    <3> HIDE DEF lost
    <3>2. Cardinality(lost) \in Nat
      BY <3>1, WebResearchAssumption, FS_Subset, FS_CardinalityType
    <3>3. AtMost(Cardinality(lost), GiveUp) \in 0..GiveUp
      BY <3>2, AtMostTyped
    <3> QED
      BY <3>3 DEF lost
  <2> QED
    BY <1>2, <2>1 DEF Begun
<1>7. successes \subseteq HostSet
  BY <1>2, <1>3 DEF Begun, HostSet
<1>8. /\ pc \in {"done", "seed"} /\ links = <<>> /\ deeper = <<>>
      /\ total = 0 /\ used = 0 /\ deeperUsed = 0
  BY DEF Init
<1> QED
  BY <1>3, <1>4, <1>5, <1>6, <1>7, <1>8, Quotas DEF Typed, TypeOK, Seeds

LEMMA RankingsTyped ==
  ASSUME NEW from, NEW ranked \in Rankings(from)
  PROVE  ranked \in Seq(Articles)
<1>1. PICK S \in SUBSET Linked(from) : ranked \in SetToSeqs(S)
  BY DEF Rankings
<1>2. S \subseteq Articles
  BY <1>1 DEF Linked
<1>3. Cardinality(S) \in Nat
  BY <1>2, WebResearchAssumption, FS_Subset, FS_CardinalityType
<1>4. ranked \in [1..Cardinality(S) -> S]
  BY <1>1 DEF SetToSeqs
<1> QED
  BY <1>2, <1>3, <1>4

LEMMA OutcomeTyped ==
  ASSUME Typed, NEW p \in Pages, Failure(p) \/ Success(p)
  PROVE  failures' \in [HostSet -> 0..GiveUp] /\ successes' \subseteq HostSet
<1>1. Host[p] \in HostSet
  BY DEF HostSet
<1>2. CASE Failure(p)
  <2>1. failures[Host[p]] + 1 \in Nat
    BY <1>1, Quotas DEF Typed, TypeOK
  <2>2. AtMost(failures[Host[p]] + 1, GiveUp) \in 0..GiveUp
    BY <2>1, AtMostTyped
  <2> QED
    BY <1>2, <2>2 DEF Failure, Typed, TypeOK
<1>3. CASE Success(p)
  BY <1>1, <1>3 DEF Success, Typed, TypeOK
<1> QED
  BY <1>2, <1>3

LEMMA FollowTyped ==
  ASSUME Typed, NEW p \in Pages, Follow(p)
  PROVE  visited' \subseteq Pages /\ reads' \in [Pages -> Nat]
<1>1. reads[p] + 1 \in Nat
  BY DEF Typed, TypeOK
<1> QED
  BY <1>1 DEF Follow, Typed, TypeOK

LEMMA Pieces ==
  ASSUME Typed
  PROVE  /\ seeds # <<>> => /\ Head(seeds) \in Pages /\ Tail(seeds) \in Seq(Pages)
                            /\ Len(Tail(seeds)) <= MaxSeeds
         /\ links # <<>> => /\ Head(links) \in Articles /\ Head(links) \in Pages
                            /\ Tail(links) \in Seq(Articles)
         /\ deeper # <<>> => /\ Head(deeper) \in Articles /\ Head(deeper) \in Pages
                             /\ Tail(deeper) \in Seq(Articles)
<1>1. Articles \subseteq Pages
  BY WebResearchAssumption
<1> QED
  BY <1>1, Quotas DEF Typed, TypeOK

LEMMA TypedStep ==
  ASSUME Typed, [Next]_vars
  PROVE  Typed'
<1> USE Quotas
<1>t. TypeOK
  BY DEF Typed
<1>1. CASE EndSeeds
  BY <1>1, <1>t DEF EndSeeds, loops, hosts, counts, Typed, TypeOK
<1>2. CASE SkipSeed \/ EndLinks
  <2>1. seeds # <<>> /\ NextSeed
    BY <1>2 DEF SkipSeed, EndLinks, Typed
  <2>2. UNCHANGED <<deeper, visited, hosts, counts, reads>>
    BY <1>2 DEF SkipSeed, EndLinks
  <2> QED
    BY <1>t, <2>1, <2>2, Pieces DEF NextSeed, hosts, counts, Typed, TypeOK
<1>3. CASE OpenSeed
  <2>1. /\ pc = "seed" /\ seeds # <<>>
        /\ UNCHANGED <<deeper, visited, total, deeperUsed, reads>>
    BY <1>3 DEF OpenSeed
  <2>2. CASE NextSeed /\ UNCHANGED used /\ (Failure(Head(seeds)) \/ UNCHANGED hosts)
    <3>1. failures' \in [HostSet -> 0..GiveUp] /\ successes' \subseteq HostSet
      BY <1>t, <2>1, <2>2, Pieces, OutcomeTyped DEF hosts, TypeOK
    <3> QED
      BY <1>t, <2>1, <2>2, <3>1, Pieces DEF NextSeed, Typed, TypeOK
  <2>3. CASE /\ links' \in Rankings(Head(seeds)) /\ used' = 0 /\ pc' = "article"
             /\ UNCHANGED <<seeds, hosts>>
    <3>1. links' \in Seq(Articles)
      BY <2>3, RankingsTyped
    <3> QED
      BY <1>t, <2>1, <2>3, <3>1 DEF hosts, Typed, TypeOK
  <2> QED
    BY <1>3, <2>2, <2>3 DEF OpenSeed
<1>4. CASE SkipLink
  BY <1>4, <1>t, Pieces DEF SkipLink, hosts, counts, Typed, TypeOK
<1>5. CASE Click
  <2>1. /\ pc = "article" /\ links # <<>> /\ ~SeedOver /\ seeds # <<>>
        /\ UNCHANGED <<loops, hosts, counts>> /\ Follow(Head(links))
        /\ pc' \in {"read", "open"}
    BY <1>5 DEF Click, Typed
  <2>2. total < MaxLinks /\ used < PerSeed
    BY <1>t, <2>1 DEF SeedOver, TypeOK
  <2>3. visited' \subseteq Pages /\ reads' \in [Pages -> Nat]
    BY <2>1, Pieces, FollowTyped
  <2> QED
    BY <1>t, <2>1, <2>2, <2>3 DEF loops, hosts, counts, Typed, TypeOK
<1>6. CASE Open
  <2>1. /\ pc = "open" /\ links # <<>> /\ seeds # <<>> /\ total < MaxLinks /\ used < PerSeed
        /\ UNCHANGED <<seeds, deeper, visited, counts, reads>>
    BY <1>6 DEF Open, Typed
  <2>2. CASE Failure(Head(links)) /\ links' = Tail(links) /\ pc' = "article"
    <3>1. failures' \in [HostSet -> 0..GiveUp] /\ successes' \subseteq HostSet
      BY <2>1, <2>2, Pieces, OutcomeTyped
    <3> QED
      BY <1>t, <2>1, <2>2, <3>1, Pieces DEF counts, Typed, TypeOK
  <2>3. CASE pc' = "read" /\ UNCHANGED <<links, hosts>>
    BY <1>t, <2>1, <2>3 DEF hosts, counts, Typed, TypeOK
  <2> QED
    BY <1>6, <2>2, <2>3 DEF Open
<1>7. CASE ReadArticle
  <2>1. /\ pc = "read" /\ links # <<>> /\ seeds # <<>> /\ total < MaxLinks /\ used < PerSeed
        /\ UNCHANGED <<seeds, visited, reads>>
    BY <1>7 DEF ReadArticle, Typed
  <2>2. Failure(Head(links)) \/ Success(Head(links))
    BY <1>7 DEF ReadArticle
  <2>3. failures' \in [HostSet -> 0..GiveUp] /\ successes' \subseteq HostSet
    BY <2>1, <2>2, Pieces, OutcomeTyped
  <2>4. CASE /\ deeper' \in Rankings(Head(links)) /\ deeperUsed' = 0 /\ pc' = "deeper"
             /\ UNCHANGED <<links, used, total>>
    <3>1. deeper' \in Seq(Articles)
      BY <2>4, RankingsTyped
    <3> QED
      BY <1>t, <2>1, <2>3, <2>4, <3>1 DEF Typed, TypeOK
  <2>5. CASE /\ CountLink /\ links' = Tail(links) /\ pc' = "article"
             /\ UNCHANGED <<deeper, deeperUsed>>
    BY <1>t, <2>1, <2>3, <2>5, Pieces DEF CountLink, Typed, TypeOK
  <2> QED
    BY <1>7, <2>4, <2>5 DEF ReadArticle
<1>8. CASE EndDeeper
  BY <1>8, <1>t, Pieces DEF EndDeeper, CountLink, hosts, Typed, TypeOK
<1>9. CASE SkipDeeper
  BY <1>9, <1>t, Pieces DEF SkipDeeper, hosts, counts, Typed, TypeOK
<1>10. CASE FollowDeeper
  <2>1. /\ pc = "deeper" /\ deeper # <<>> /\ ~DeeperOver /\ seeds # <<>> /\ links # <<>>
        /\ UNCHANGED <<pc, seeds, links>>
        /\ Follow(Head(deeper)) /\ deeper' = Tail(deeper)
    BY <1>10 DEF FollowDeeper, Typed
  <2>2. visited' \subseteq Pages /\ reads' \in [Pages -> Nat]
    BY <2>1, Pieces, FollowTyped
  <2>3. failures' \in [HostSet -> 0..GiveUp] /\ successes' \subseteq HostSet
    <3>1. Failure(Head(deeper)) \/ Success(Head(deeper))
      BY <1>10 DEF FollowDeeper
    <3> QED
      BY <2>1, <3>1, Pieces, OutcomeTyped
  <2>4. /\ total' \in 0..MaxLinks /\ used' \in 0..PerSeed /\ deeperUsed' \in 0..PerPage
    <3>1. CASE UNCHANGED counts
      BY <1>t, <2>1, <3>1 DEF counts, Typed, TypeOK
    <3>2. CASE CountLink /\ deeperUsed' = deeperUsed + 1
      BY <1>t, <2>1, <3>2 DEF CountLink, DeeperOver, Typed, TypeOK
    <3> QED
      BY <1>10, <3>1, <3>2 DEF FollowDeeper
  <2>5. deeper' \in Seq(Articles)
    BY <2>1, Pieces
  <2>6. TypeOK'
    <3>1. total' \in 0..(MaxLinks + 1) /\ used' \in 0..(PerSeed + 1)
      BY <2>4
    <3> QED
      BY <1>t, <2>1, <2>2, <2>3, <2>4, <2>5, <3>1 DEF TypeOK
  <2>7. pc' = pc /\ seeds' # <<>> /\ links' # <<>> /\ total' <= MaxLinks /\ used' <= PerSeed
    BY <2>1, <2>4
  <2>8. pc' = "deeper"
    BY <1>10, <2>7 DEF FollowDeeper
  <2> QED
    BY <2>6, <2>7, <2>8 DEF Typed
<1>11. CASE Done \/ UNCHANGED vars
  BY <1>11, <1>t DEF Done, vars, loops, hosts, counts, Typed, TypeOK
<1> QED
  BY <1>1, <1>2, <1>3, <1>4, <1>5, <1>6, <1>7, <1>8, <1>9, <1>10, <1>11 DEF Next

(* Whatever the web and the ranking of its links: no more seeds than there *)
(* is room for, and each quota of a round passed by one article at most.   *)
THEOREM ResearchTyped == Spec => []TypeOK
<1>1. Typed => TypeOK
  BY DEF Typed
<1> QED
  BY <1>1, TypedInit, TypedStep, PTL DEF Spec

-----------------------------------------------------------------------------
(* The hosts.  A link that is clicked, opened or read is of a host that is  *)
(* not given up, so that what comes of it cannot bring back one that is.    *)

Asked == pc \in {"open", "read"} => ~Skip(Head(links))

LEMMA AskedStep ==
  ASSUME Typed, Asked, [Next]_vars
  PROVE  Asked'
<1>1. CASE Click
  BY <1>1 DEF Click, Stale, Skip, loops, hosts, Asked
<1>2. CASE Open
  <2>1. pc = "open" /\ ~Skip(Head(links))
    BY <1>2 DEF Open, Asked
  <2>2. CASE pc' = "article"
    BY <2>2 DEF Asked
  <2>3. CASE pc' = "read" /\ UNCHANGED <<links, hosts>>
    BY <2>1, <2>3 DEF Skip, hosts, Asked
  <2> QED
    BY <1>2, <2>2, <2>3 DEF Open
<1>3. CASE EndSeeds \/ SkipSeed \/ OpenSeed \/ EndLinks \/ SkipLink \/ ReadArticle
           \/ EndDeeper \/ SkipDeeper \/ FollowDeeper
  <2>1. pc' \notin {"open", "read"}
    BY <1>3 DEF EndSeeds, SkipSeed, OpenSeed, EndLinks, SkipLink, ReadArticle, EndDeeper,
       SkipDeeper, FollowDeeper, NextSeed
  <2> QED
    BY <2>1 DEF Asked
<1>4. CASE Done \/ UNCHANGED vars
  BY <1>4 DEF Done, vars, loops, hosts, Skip, Asked
<1> QED
  BY <1>1, <1>2, <1>3, <1>4 DEF Next

LEMMA OutcomeKeeps ==
  ASSUME Typed, NEW p \in Pages, Failure(p) \/ (Success(p) /\ ~Skip(p)),
         NEW h \in HostSet, GivenUp(h)
  PROVE  GivenUp(h)'
<1>1. failures \in [HostSet -> 0..GiveUp] /\ failures[h] >= GiveUp /\ h \notin successes
  BY DEF Typed, TypeOK, GivenUp
<1>2. CASE Failure(p)
  <2>1. /\ failures' = [failures EXCEPT ![Host[p]] = AtMost(@ + 1, GiveUp)]
        /\ successes' = successes
    BY <1>2 DEF Failure
  <2>2. failures'[h] >= GiveUp
    <3>1. CASE Host[p] = h
      <4>1. failures'[h] = AtMost(failures[h] + 1, GiveUp) /\ failures[h] \in Nat
        BY <1>1, <2>1, <3>1, Quotas
      <4> QED
        BY <1>1, <4>1, Quotas DEF AtMost
    <3>2. CASE Host[p] # h
      BY <1>1, <2>1, <3>2
    <3> QED
      BY <3>1, <3>2
  <2> QED
    BY <1>1, <2>1, <2>2 DEF GivenUp
<1>3. CASE Success(p) /\ ~Skip(p)
  <2>1. Host[p] # h
    BY <1>1, <1>3 DEF Skip
  <2> QED
    BY <1>1, <1>3, <2>1 DEF Success, GivenUp
<1> QED
  BY <1>2, <1>3

LEMMA GivenUpStep ==
  ASSUME Typed, Asked, [Next]_vars, NEW h \in HostSet, GivenUp(h)
  PROVE  GivenUp(h)'
<1>1. CASE UNCHANGED hosts
  BY <1>1 DEF hosts, GivenUp
<1>2. ASSUME NEW p \in Pages, Failure(p) \/ (Success(p) /\ ~Skip(p))
      PROVE  GivenUp(h)'
  BY <1>2, OutcomeKeeps
<1>3. CASE OpenSeed
  <2>1. seeds # <<>> /\ (Failure(Head(seeds)) \/ UNCHANGED hosts)
    BY <1>3 DEF OpenSeed
  <2> QED
    BY <1>1, <1>2, <2>1, Pieces
<1>4. CASE Open
  <2>1. links # <<>> /\ (Failure(Head(links)) \/ UNCHANGED hosts)
    BY <1>4 DEF Open, Typed
  <2> QED
    BY <1>1, <1>2, <2>1, Pieces
<1>5. CASE ReadArticle
  <2>1. links # <<>> /\ ~Skip(Head(links)) /\ (Failure(Head(links)) \/ Success(Head(links)))
    BY <1>5 DEF ReadArticle, Typed, Asked
  <2> QED
    BY <1>2, <2>1, Pieces
<1>6. CASE FollowDeeper
  <2>1. deeper # <<>> /\ ~Skip(Head(deeper)) /\ (Failure(Head(deeper)) \/ Success(Head(deeper)))
    BY <1>6 DEF FollowDeeper, Stale
  <2> QED
    BY <1>2, <2>1, Pieces
<1>7. CASE EndSeeds \/ SkipSeed \/ EndLinks \/ SkipLink \/ Click \/ EndDeeper \/ SkipDeeper
           \/ Done \/ UNCHANGED vars
  <2>1. UNCHANGED hosts
    BY <1>7 DEF EndSeeds, SkipSeed, EndLinks, SkipLink, Click, EndDeeper, SkipDeeper, Done,
       vars, hosts
  <2> QED
    BY <1>1, <2>1
<1> QED
  BY <1>3, <1>4, <1>5, <1>6, <1>7 DEF Next

(* A host that is given up stays so to the end of the round, whatever was   *)
(* ranked, clicked or opened when it was.                                   *)
THEOREM HostsStayGivenUp == Spec => GivenUpStays
<1>1. Init => Asked
  BY DEF Init, Asked
<1>2. Typed /\ Asked /\ [Next]_vars => [\A h \in HostSet : GivenUp(h) => GivenUp(h)']_vars
  BY GivenUpStep
<1>3. Typed /\ Asked /\ [Next]_vars => Asked'
  BY AskedStep
<1> QED
  BY <1>1, <1>2, <1>3, TypedInit, TypedStep, PTL DEF Spec, GivenUpStays
=============================================================================
