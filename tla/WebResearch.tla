----------------------------- MODULE WebResearch -----------------------------
(***************************************************************************)
(* autoDeepenWebResearch: the worker's own round of web research, when the *)
(* model's research has not found enough.  It opens seed pages, follows    *)
(* the article links they show, follows the links of articles that turn    *)
(* out to be indexes, and keeps account of the hosts that give nothing.    *)
(*                                                                         *)
(* A page stands for a normalised address; the order of the links is the   *)
(* order of their scores, which may be any.  What the browser shows is a   *)
(* choice at every call: it stays wherever the last call left it, a click  *)
(* may still be under way when the next call comes, and so may a page that *)
(* took too long to open.                                                  *)
(***************************************************************************)
EXTENDS Naturals, Sequences, FiniteSets, SequencesExt

CONSTANTS Pages,
          Host,      \* the host of a page
          Articles,  \* pages whose address is not that of an index, a search, ...
          Search,    \* hosts of search engines
          News,      \* hosts of the known news sites
          Fallback,  \* fallbackResearchSeedURLsFromRequest, of a request with a query
          MaxSeeds,  \* maxAutoResearchSeedPages
          MinFallback, \* the share of fallback seeds
          MaxLinks,  \* maxAutoResearchLinks
          PerSeed,   \* maxAutoResearchPerSeed
          PerPage,   \* deeper links followed per page
          GiveUp,    \* failures after which a host is skipped
          MaxFound   \* bound: pages the model's research had reached

ASSUME WebResearchAssumption ==
  /\ IsFiniteSet(Pages)
  /\ DOMAIN Host = Pages
  /\ Articles \subseteq Pages
  /\ Fallback \in Seq(Pages)
  /\ {MaxSeeds, MinFallback, MaxLinks, PerSeed, PerPage, GiveUp, MaxFound} \subseteq Nat
  /\ MinFallback <= MaxSeeds

VARIABLES
  pc,         \* "seed", "article", "open", "read", "deeper", "done"
  seeds,      \* the seeds left
  links,      \* candidates left of the seed
  deeper,     \* deeperCandidates left of the article
  visited,    \* visited
  failures,   \* hostFailures, as far as GiveUp
  successes,  \* the hosts of hostSuccesses
  total,      \* totalArticleLinks
  used,       \* usedForSeed
  deeperUsed, \* deeperUsed
  reads       \* history: how often a page was taken up: by the model's own
              \* research before the round, and as a link since

loops == <<seeds, links, deeper>>
hosts == <<failures, successes>>
counts == <<total, used, deeperUsed>>
vars == <<pc, loops, visited, hosts, counts, reads>>

(* The evidence of a page, after the filters of collectWebResearchEvidence: *)
(* something to use; nothing extractable, which an index and a page without *)
(* a text are too; a wall in front of the page.                             *)
Evidence == {"extractable", "empty", "blocked"}

(* The reason that the diagnostics of an extraction give against a page. *)
Reasons == {"none", "empty", "blocked"}

HostSet == {Host[p] : p \in Pages}

(* The quotas are checked before a link is followed; an article counts      *)
(* itself after its deeper links, so that either may be passed by one.      *)
TypeOK ==
  /\ pc \in {"seed", "article", "open", "read", "deeper", "done"}
  /\ seeds \in Seq(Pages) /\ Len(seeds) <= MaxSeeds
  /\ links \in Seq(Articles) /\ deeper \in Seq(Articles)
  /\ visited \subseteq Pages
  /\ failures \in [HostSet -> 0..GiveUp] /\ successes \subseteq HostSet
  /\ total \in 0..(MaxLinks + 1) /\ used \in 0..(PerSeed + 1) /\ deeperUsed \in 0..PerPage
  /\ reads \in [Pages -> Nat]

-----------------------------------------------------------------------------
(* Seeds.                                                                  *)

AtMost(a, b) == IF a < b THEN a ELSE b

(* What is offered, in this order, as far as there is room for it (limit;   *)
(* 0 refuses it) and nothing of the same key is there.                      *)
Collect(offered, limit, key) ==
  LET list[n \in 0..Len(offered)] ==
        IF n = 0 THEN <<>>
        ELSE IF \/ Len(list[n - 1]) >= limit[n]
                \/ \E i \in DOMAIN list[n - 1] : key[list[n - 1][i]] = key[offered[n]]
        THEN list[n - 1]
        ELSE Append(list[n - 1], offered[n])
  IN  list[Len(offered)]

(* collectResearchSeedURLs: of the pages found, first those of which        *)
(* nothing could be extracted, then any, one of a host.                     *)
FoundSeeds(found, evidence, restrict) ==
  LET offered == found \o found
      Fit(n)  == /\ n <= Len(found) => evidence[offered[n]] = "empty"
                 /\ Host[offered[n]] \notin Search
                 /\ restrict => Host[offered[n]] \in News IN
  Collect(offered, [n \in DOMAIN offered |-> IF Fit(n) THEN MaxSeeds ELSE 0], Host)

(* mergeResearchSeeds: no page twice, and room is left for the fallback.    *)
Merge(primary, fallback) ==
  LET offered == primary \o fallback \o primary IN
  Collect(offered,
          [n \in DOMAIN offered |-> IF n <= Len(primary) THEN MaxSeeds - MinFallback ELSE MaxSeeds],
          [p \in Pages |-> p])

-----------------------------------------------------------------------------
(* Links.                                                                  *)

(* rankArticleLinkCandidates: articles not yet visited, of the same site;   *)
(* from a search engine, of the news sites.                                 *)
Linked(from) ==
  {p \in Articles \ visited :
     IF Host[from] \in Search THEN Host[p] \in News \ Search ELSE Host[p] = Host[from]}

Rankings(from) == UNION {SetToSeqs(S) : S \in SUBSET Linked(from)}

(* shouldSkipHost. *)
Skip(p) == failures[Host[p]] >= GiveUp /\ Host[p] \notin successes

(* Whether a click passes for having led to its link: it did not fail, and  *)
(* the metadata read after it names the link's address or, on its host, one *)
(* that ends the same (metadataPointsToTarget).                             *)
Landed == BOOLEAN

(* recordHostOutcome. *)
Failure(p) == failures' = [failures EXCEPT ![Host[p]] = AtMost(@ + 1, GiveUp)] /\ UNCHANGED successes
Success(p) == successes' = successes \union {Host[p]} /\ UNCHANGED failures

-----------------------------------------------------------------------------
Init ==
  /\ \E found \in {s \in SeqOf(Pages, MaxFound) : IsInjective(s)}, restrict, query \in BOOLEAN :
       \E evidence \in [ToSet(found) -> Evidence] :
         /\ \A p \in ToSet(found) \ Articles : evidence[p] # "extractable"
         /\ visited = ToSet(found)
         /\ successes = {Host[p] : p \in {q \in visited : evidence[q] = "extractable"}}
         /\ failures = [h \in HostSet |->
              AtMost(Cardinality({p \in visited : Host[p] = h /\ evidence[p] # "extractable"}), GiveUp)]
         /\ seeds = Merge(FoundSeeds(found, evidence, restrict), IF query THEN Fallback ELSE <<>>)
  /\ pc = IF seeds = <<>> THEN "done" ELSE "seed"
  /\ links = <<>> /\ deeper = <<>>
  /\ total = 0 /\ used = 0 /\ deeperUsed = 0
  /\ reads = [p \in Pages |-> IF p \in visited THEN 1 ELSE 0]

-----------------------------------------------------------------------------
NextSeed == seeds' = Tail(seeds) /\ links' = <<>> /\ pc' = "seed"

EndSeeds ==
  /\ pc = "seed" /\ (seeds = <<>> \/ total >= MaxLinks)
  /\ pc' = "done"
  /\ UNCHANGED <<loops, visited, hosts, counts, reads>>

SkipSeed ==
  /\ pc = "seed" /\ seeds # <<>> /\ total < MaxLinks /\ Skip(Head(seeds))
  /\ NextSeed
  /\ UNCHANGED <<deeper, visited, hosts, counts, reads>>

(* The seed does not open, or not its links; or it opens, is scrolled, and  *)
(* its links are ranked.                                                    *)
OpenSeed ==
  /\ pc = "seed" /\ seeds # <<>> /\ total < MaxLinks /\ ~Skip(Head(seeds))
  /\ \/ Failure(Head(seeds)) /\ NextSeed /\ UNCHANGED used
     \/ NextSeed /\ UNCHANGED <<used, hosts>>
     \/ /\ links' \in Rankings(Head(seeds)) /\ used' = 0 /\ pc' = "article"
        /\ UNCHANGED <<seeds, hosts>>
  /\ UNCHANGED <<deeper, visited, total, deeperUsed, reads>>

SeedOver == total >= MaxLinks \/ used >= PerSeed

EndLinks ==
  /\ pc = "article" /\ (links = <<>> \/ SeedOver)
  /\ NextSeed
  /\ UNCHANGED <<deeper, visited, hosts, counts, reads>>

(* Mutant: the ranking has left out what was visited. *)
StaleAsRanked(p) == Skip(p)

(* Mutant: the host was looked at when the seed was opened. *)
StaleByPage(p) == p \in visited

(* A link may have been visited since it was ranked. *)
Stale(p) == Skip(p) \/ p \in visited

SkipLink ==
  /\ pc = "article" /\ links # <<>> /\ ~SeedOver /\ Stale(Head(links))
  /\ links' = Tail(links)
  /\ UNCHANGED <<pc, seeds, deeper, visited, hosts, counts, reads>>

Follow(p) == visited' = visited \union {p} /\ reads' = [reads EXCEPT ![p] = @ + 1]

(* The link is clicked on the page where the browser is; if that does not   *)
(* pass for its page, it is to be opened.                                   *)
Click ==
  /\ pc = "article" /\ links # <<>> /\ ~SeedOver /\ ~Stale(Head(links))
  /\ Follow(Head(links))
  /\ \E landed \in Landed : pc' = IF landed THEN "read" ELSE "open"
  /\ UNCHANGED <<loops, hosts, counts>>

Open ==
  /\ pc = "open"
  /\ \/ Failure(Head(links)) /\ links' = Tail(links) /\ pc' = "article"
     \/ pc' = "read" /\ UNCHANGED <<links, hosts>>
  /\ UNCHANGED <<seeds, deeper, visited, counts, reads>>

CountLink == used' = used + 1 /\ total' = total + 1

(* The text, a scroll, the text again; what the first text, or else the     *)
(* metadata, says of the page judges the host of the link, and an index is  *)
(* followed deeper.                                                         *)
ReadArticle ==
  /\ pc = "read"
  /\ \E reason \in Reasons :
       /\ IF reason = "none" THEN Success(Head(links)) ELSE Failure(Head(links))
       /\ \/ /\ reason = "empty" /\ total < MaxLinks
             /\ deeper' \in Rankings(Head(links)) /\ deeperUsed' = 0 /\ pc' = "deeper"
             /\ UNCHANGED <<links, used, total>>
          \/ /\ CountLink /\ links' = Tail(links) /\ pc' = "article"
             /\ UNCHANGED <<deeper, deeperUsed>>
  /\ UNCHANGED <<seeds, visited, reads>>

(* Mutant: only the page's own quota is asked. *)
DeeperOverOfPage == deeperUsed >= PerPage

DeeperOver == total >= MaxLinks \/ used >= PerSeed \/ deeperUsed >= PerPage

(* The article counts itself, whatever its deeper links have counted. *)
EndDeeper ==
  /\ pc = "deeper" /\ (deeper = <<>> \/ DeeperOver)
  /\ CountLink /\ links' = Tail(links) /\ deeper' = <<>> /\ deeperUsed' = 0
  /\ pc' = "article"
  /\ UNCHANGED <<seeds, visited, hosts, reads>>

SkipDeeper ==
  /\ pc = "deeper" /\ deeper # <<>> /\ ~DeeperOver /\ Stale(Head(deeper))
  /\ deeper' = Tail(deeper)
  /\ UNCHANGED <<pc, seeds, links, visited, hosts, counts, reads>>

(* A deeper link is opened and read, and speaks for its host in any case. *)
FollowDeeper ==
  /\ pc = "deeper" /\ deeper # <<>> /\ ~DeeperOver /\ ~Stale(Head(deeper))
  /\ Follow(Head(deeper)) /\ deeper' = Tail(deeper)
  /\ \/ Failure(Head(deeper)) /\ UNCHANGED counts
     \/ Success(Head(deeper)) /\ CountLink /\ deeperUsed' = deeperUsed + 1
  /\ UNCHANGED <<pc, seeds, links>>

Done == pc = "done" /\ UNCHANGED vars

Next ==
  \/ EndSeeds \/ SkipSeed \/ OpenSeed \/ EndLinks \/ SkipLink \/ Click \/ Open
  \/ ReadArticle \/ EndDeeper \/ SkipDeeper \/ FollowDeeper \/ Done

Spec == Init /\ [][Next]_vars

-----------------------------------------------------------------------------
(* Properties.                                                             *)

(* No link is followed that was followed before, or to whose page the       *)
(* model's own research had been: whichever seed or index shows it, and     *)
(* although links are ranked long before they are followed.  (Of addresses; *)
(* a click or a redirect may show the page of another.)                     *)
FollowedOnce == \A p \in Pages : reads[p] <= 1

(* A host that is given up stays so: two of its pages failed and none was   *)
(* read, and nothing that was already ranked, clicked or under way on a     *)
(* seed or an index brings it back.                                         *)
GivenUp(h) == failures[h] >= GiveUp /\ h \notin successes
GivenUpStays == [][\A h \in HostSet : GivenUp(h) => GivenUp(h)']_vars
=============================================================================
