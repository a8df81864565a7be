---------------------------- MODULE PolicyRetrieval ----------------------------
(***************************************************************************)
(* The hybrid search of the policies in force (HybridPolicyIndex.search),  *)
(* for the chat agent and for the inspections of one process at the same   *)
(* time.  Its two legs run concurrently, each in a transaction of its own: *)
(* the keyword leg loads the active chunks and ranks them with an index it *)
(* keeps for the tenant (TenantBM25PolicyIndex); the vector leg asks for   *)
(* the embedding of the query and then the database for its neighbours.    *)
(* Versions of policies come into force in the meantime: Publish is the    *)
(* step of PolicyVersions, which KnowledgeVersions implements.             *)
(*                                                                         *)
(* One tenant; each version of a document is one chunk; and a query is the *)
(* chunks that are relevant to it, with the place each leg gives them.     *)
(* Left out: the disabled embedding provider, which is never given to this *)
(* index (_build_production_runtime).                                      *)
(***************************************************************************)
EXTENDS Naturals, FiniteSets

CONSTANTS
    Documents,    \* policy documents
    Newest,       \* bound: Newest[d] versions of d come into force
    Searches,     \* who searches: chat requests, inspections
    Queries,      \* Queries[q]: what search q may look for
    RouteLimit,   \* _RETRIEVAL_CANDIDATE_LIMIT, 50
    HitLimit,     \* the limit of a search, 5
    None

VARIABLES
    inForce,    \* the version of each document that is ACTIVE, or 0
    cache,      \* the chunks TenantBM25PolicyIndex has an index of, or None
    query,      \* query[q]: what search q looks for, or None
    loaded,     \* loaded[q]: what load_active_chunks has returned, or None
    keyword,    \* keyword[q]: the outcome of the keyword leg
    vector,     \* vector[q]: the outcome of the vector leg
    found,      \* found[q]: the RetrievalResult, or None
    since       \* auxiliary: the chunks in force since the search began

policy == <<inForce, cache>>
searching == <<query, loaded, keyword, vector, found, since>>

Chunks == UNION {{d} \X (1..Newest[d]) : d \in Documents}
RankedUpTo(limit) == UNION {[S -> 1..limit] : S \in SUBSET Chunks}
Orders == RankedUpTo(Cardinality(Chunks))
NoRanks == [c \in {} |-> 0]
NoOutcome == [status |-> "pending", ranks |-> NoRanks]

ASSUME PolicyRetrievalAssumption ==
    /\ IsFiniteSet(Documents) /\ Newest \in [Documents -> Nat]
    /\ Queries \in [Searches -> SUBSET [keyword : Orders, vector : Orders]]
    /\ {RouteLimit, HitLimit} \subseteq Nat \ {0}
    /\ None \notin Chunks /\ \A q \in Searches : None \notin Queries[q]

RetrievalInit ==
    /\ inForce = [d \in Documents |-> 0]
    /\ cache = None
    /\ query = [q \in Searches |-> None]
    /\ loaded = [q \in Searches |-> None]
    /\ keyword = [q \in Searches |-> NoOutcome]
    /\ vector = [q \in Searches |-> NoOutcome]
    /\ found = [q \in Searches |-> None]
    /\ since = [q \in Searches |-> {}]

Active == {c \in Chunks : inForce[c[1]] = c[2]}

\* A newer version of a document replaces the one in force, in one commit.
Publish(d) ==
    \E v \in 1..Newest[d] :
        /\ inForce[d] < v
        /\ inForce' = [inForce EXCEPT ![d] = v]
        /\ since' = [q \in Searches |->
                        IF query[q] = None THEN {} ELSE since[q] \cup {<<d, v>>}]
        /\ UNCHANGED <<cache, query, loaded, keyword, vector, found>>
--------------------------------------------------------------------------------
\* search: gather starts both legs.
Search(q, x) ==
    /\ query[q] = None
    /\ query' = [query EXCEPT ![q] = x]
    /\ since' = [since EXCEPT ![q] = Active]
    /\ UNCHANGED <<policy, loaded, keyword, vector, found>>

\* The legs' SQL reads the chunks whose document and chunk are ACTIVE.
LoadActiveChunks(q) ==
    /\ query[q] # None
    /\ keyword[q] = NoOutcome /\ loaded[q] = None
    /\ loaded' = [loaded EXCEPT ![q] = Active]
    /\ UNCHANGED <<policy, query, keyword, vector, found, since>>

\* The ranks of what is relevant among the chunks, up to the limit of a leg.
Ranked(order, chunks) ==
    LET relevant == chunks \cap DOMAIN order
        rank == [c \in relevant |-> Cardinality({h \in relevant : order[h] <= order[c]})]
    IN  [c \in {h \in relevant : rank[h] <= RouteLimit} |-> rank[c]]

Answered(order, chunks) == [status |-> "answered", ranks |-> Ranked(order, chunks)]

Failed == [status |-> "failed", ranks |-> NoRanks]

(***************************************************************************)
(* Bug: an index that is there is used, whatever it was built from.        *)
(***************************************************************************)
AnyEntry(chunks) == IF cache # None THEN cache ELSE chunks

\* The index is built again unless its signature is that of the chunks.
Entry(chunks) == IF cache = chunks THEN cache ELSE chunks

\* No await between the comparison of the signature and the ranking.
RankByKeyword(q) ==
    /\ loaded[q] # None
    /\ LET entry == Entry(loaded[q]) IN
          /\ cache' = entry
          /\ keyword' = [keyword EXCEPT ![q] = Answered(query[q].keyword, entry)]
    /\ loaded' = [loaded EXCEPT ![q] = None]
    /\ UNCHANGED <<inForce, query, vector, found, since>>

KeywordFails(q) ==
    /\ query[q] # None
    /\ keyword[q] = NoOutcome /\ loaded[q] = None
    /\ keyword' = [keyword EXCEPT ![q] = Failed]
    /\ UNCHANGED <<policy, query, loaded, vector, found, since>>

\* _search_vector: InForceIsEmbedded, so an active chunk has its embedding.
RankByVector(q) ==
    /\ query[q] # None
    /\ vector[q] = NoOutcome
    /\ vector' = [vector EXCEPT ![q] = Answered(query[q].vector, Active)]
    /\ UNCHANGED <<policy, query, loaded, keyword, found, since>>

\* The provider or the database fails.
VectorFails(q) ==
    /\ query[q] # None
    /\ vector[q] = NoOutcome
    /\ vector' = [vector EXCEPT ![q] = Failed]
    /\ UNCHANGED <<policy, query, loaded, keyword, found, since>>

\* The index of the tenant is evicted for that of another tenant.
Evict ==
    /\ cache # None
    /\ cache' = None
    /\ UNCHANGED <<inForce, searching>>
--------------------------------------------------------------------------------
(***************************************************************************)
(* _rrf_fuse: a chunk scores 1/(60 + rank) for each leg that ranks it; the *)
(* best are kept.  Scores are compared as fractions; of two that score the *)
(* same any may be kept.                                                   *)
(***************************************************************************)
Plus(x, y) == <<x[1] * y[2] + y[1] * x[2], x[2] * y[2]>>
Less(x, y) == x[1] * y[2] < y[1] * x[2]

(***************************************************************************)
(* Bug: a chunk that a leg does not rank counts as if it came first.       *)
(***************************************************************************)
UnrankedFirst(c, ranks) ==
    IF c \in DOMAIN ranks THEN <<1, 60 + ranks[c]>> ELSE <<1, 60>>

LegScore(c, ranks) == IF c \in DOMAIN ranks THEN <<1, 60 + ranks[c]>> ELSE <<0, 1>>

Score(q, c) == Plus(LegScore(c, keyword[q].ranks), LegScore(c, vector[q].ranks))

Candidates(q) == DOMAIN keyword[q].ranks \cup DOMAIN vector[q].ranks

IsBest(q, hits) ==
    /\ hits \subseteq Candidates(q)
    /\ Cardinality(hits) <= HitLimit
    /\ hits = Candidates(q) \/ Cardinality(hits) = HitLimit
    /\ \A h \in hits, c \in Candidates(q) \ hits : ~Less(Score(q, h), Score(q, c))

Mode(q) ==
    LET bm25 == keyword[q].status = "answered"
        dense == vector[q].status = "answered"
    IN  IF bm25 THEN IF dense THEN "hybrid" ELSE "bm25"
        ELSE IF dense THEN "vector" ELSE "none"

Fuse(q) ==
    /\ found[q] = None
    /\ keyword[q] # NoOutcome /\ vector[q] # NoOutcome
    /\ \E hits \in SUBSET Candidates(q) :
          /\ IsBest(q, hits)
          /\ found' = [found EXCEPT ![q] =
                [hits |-> hits, mode |-> Mode(q),
                 degraded |-> keyword[q].status = "failed" \/ vector[q].status = "failed"]]
    /\ UNCHANGED <<policy, query, loaded, keyword, vector, since>>

\* The caller has used the result, or is cancelled in the middle.
Forget(q) ==
    /\ query[q] # None
    /\ query' = [query EXCEPT ![q] = None]
    /\ loaded' = [loaded EXCEPT ![q] = None]
    /\ keyword' = [keyword EXCEPT ![q] = NoOutcome]
    /\ vector' = [vector EXCEPT ![q] = NoOutcome]
    /\ found' = [found EXCEPT ![q] = None]
    /\ since' = [since EXCEPT ![q] = {}]

Retrieve(q) ==
    \/ LoadActiveChunks(q) \/ RankByKeyword(q) \/ KeywordFails(q)
    \/ RankByVector(q) \/ VectorFails(q) \/ Fuse(q)
--------------------------------------------------------------------------------
Outcomes == [status : {"pending", "answered", "failed"}, ranks : RankedUpTo(RouteLimit)]
Results == [hits : SUBSET Chunks, mode : {"hybrid", "bm25", "vector", "none"},
            degraded : BOOLEAN]

RetrievalTypeOK ==
    /\ inForce \in [Documents -> Nat] /\ \A d \in Documents : inForce[d] <= Newest[d]
    /\ cache \in (SUBSET Chunks) \cup {None}
    /\ \A q \in Searches : query[q] \in Queries[q] \cup {None}
    /\ loaded \in [Searches -> (SUBSET Chunks) \cup {None}]
    /\ keyword \in [Searches -> Outcomes]
    /\ vector \in [Searches -> Outcomes]
    /\ found \in [Searches -> Results \cup {None}]
    /\ since \in [Searches -> SUBSET Chunks]

(***************************************************************************)
(* However publications, other searches and evictions interleave with it,  *)
(* a search finds only chunks that were in force at some time while it ran *)
(* (the cached index of TenantBM25PolicyIndex is never a stale one).       *)
(***************************************************************************)
HitsWereInForce ==
    \A q \in Searches : found[q] # None => found[q].hits \subseteq since[q]

(***************************************************************************)
(* A chunk that both legs rank before a kept one is kept as well, and one  *)
(* leg's silence is never a merit (_rrf_fuse).                             *)
(***************************************************************************)
RanksBefore(c, h, ranks) ==
    /\ c \in DOMAIN ranks
    /\ h \in DOMAIN ranks => ranks[c] < ranks[h]

BestHitsKept ==
    \A q \in Searches : found[q] # None =>
        \A h \in found[q].hits, c \in Candidates(q) :
            RanksBefore(c, h, keyword[q].ranks) /\ RanksBefore(c, h, vector[q].ranks)
                => c \in found[q].hits

(***************************************************************************)
(* The claim of docs/architecture.md:200, that a new version replaces the  *)
(* old one atomically and retrieval reads only the version in force: the   *)
(* hits of a search would be of one version of each document.  The legs    *)
(* read the database at two instants, and a publication in between leaves  *)
(* both versions among the hits (HybridPolicyIndex.search).                *)
(***************************************************************************)
OneVersionPerSearch ==
    \A q \in Searches : found[q] # None =>
        \A c, h \in found[q].hits : c[1] = h[1] => c[2] = h[2]
================================================================================
