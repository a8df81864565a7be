------------------------ MODULE QualityInspectionProofs ------------------------
(***************************************************************************)
(* Proofs about QualityInspection and the search it composes with: types,  *)
(* what a search finds, which hits it keeps, and what a stored verdict     *)
(* rests on.                                                               *)
(***************************************************************************)
EXTENDS QualityInspection, FiniteSetTheorems, TLAPS

(***************************************************************************)
(* A search that has not begun has nothing in hand, its keyword leg has    *)
(* answered when its chunks are gone, and it is fused when both legs have. *)
(***************************************************************************)
Stages ==
    \A q \in Searches :
        /\ query[q] = None =>
              /\ loaded[q] = None /\ found[q] = None
              /\ keyword[q] = NoOutcome /\ vector[q] = NoOutcome
        /\ loaded[q] # None => keyword[q] = NoOutcome
        /\ found[q] # None => keyword[q] # NoOutcome /\ vector[q] # NoOutcome

Shapes == DOMAIN query = Searches /\ DOMAIN result = Jobs

TypeInv == TypeOK /\ Shapes /\ Stages

USE PolicyRetrievalAssumption, QualityInspectionAssumption
--------------------------------------------------------------------------------
(***************************************************************************)
(* There are finitely many chunks.                                         *)
(***************************************************************************)
LEMMA ChunksFinite == IsFiniteSet(Chunks)
<1> DEFINE Parts == {{d} \X (1..Newest[d]) : d \in Documents}
           f == [d \in Documents |-> {d} \X (1..Newest[d])]
<1>1. f \in Surjection(Documents, Parts)
  BY DEF Surjection
<1>2. IsFiniteSet(Parts)
  BY <1>1, FS_Surjection
<1>3. ASSUME NEW d \in Documents
      PROVE  IsFiniteSet({d} \X (1..Newest[d]))
  <2>1. IsFiniteSet({d})
    BY FS_Singleton
  <2>2. 1 \in Int /\ Newest[d] \in Int
    OBVIOUS
  <2>3. IsFiniteSet(1..Newest[d])
    BY <2>2, FS_Interval
  <2> QED
    BY <2>1, <2>3, FS_Product
<1>4. \A p \in Parts : IsFiniteSet(p)
  BY <1>3
<1> HIDE DEF Parts
<1>5. IsFiniteSet(UNION Parts)
  BY <1>2, <1>4, FS_UNION
<1>6. Chunks = UNION Parts
  BY DEF Chunks, Parts
<1> QED
  BY <1>5, <1>6

(***************************************************************************)
(* What a leg answers is what it was given, ranked from 1 up to its limit. *)
(***************************************************************************)
LEMMA AnswerRanks ==
  ASSUME NEW order \in Orders, NEW chunks \in SUBSET Chunks
  PROVE  /\ Answered(order, chunks) \in Outcomes
         /\ Answered(order, chunks).ranks \in RankedUpTo(RouteLimit)
         /\ DOMAIN Answered(order, chunks).ranks \subseteq chunks
         /\ Answered(order, chunks) # NoOutcome
<1> DEFINE relevant == chunks \cap DOMAIN order
           notAfter(c) == {h \in relevant : order[h] <= order[c]}
           rank == [c \in relevant |-> Cardinality(notAfter(c))]
           kept == {h \in relevant : rank[h] <= RouteLimit}
           ranks == [c \in kept |-> rank[c]]
<1>1. IsFiniteSet(relevant)
  BY ChunksFinite, FS_Subset
<1>2. ASSUME NEW c \in relevant
      PROVE  rank[c] \in Nat \ {0}
  <2>1. c \in notAfter(c)
    BY DEF Orders, RankedUpTo
  <2>2. IsFiniteSet(notAfter(c))
    BY <1>1, FS_Subset
  <2>3. Cardinality(notAfter(c)) \in Nat /\ Cardinality(notAfter(c)) # 0
    BY <2>1, <2>2, FS_CardinalityType, FS_EmptySet
  <2> QED
    BY <2>3
<1>3. kept \subseteq chunks /\ kept \in SUBSET Chunks /\ \A c \in kept : rank[c] \in 1..RouteLimit
  BY <1>2
<1> HIDE DEF rank, kept
<1>4. ranks \in [kept -> 1..RouteLimit]
  BY <1>3
<1>5. ranks \in RankedUpTo(RouteLimit)
  BY <1>3, <1>4 DEF RankedUpTo
<1>6. Answered(order, chunks) = [status |-> "answered", ranks |-> ranks]
  BY DEF Answered, Ranked, rank, kept
<1> QED
  BY <1>3, <1>5, <1>6 DEF Outcomes, NoOutcome

(***************************************************************************)
(* The outcomes of a leg that has not answered, and of one that fails.     *)
(***************************************************************************)
LEMMA OtherOutcomes ==
  /\ NoOutcome \in Outcomes /\ DOMAIN NoOutcome.ranks = {}
  /\ Failed \in Outcomes /\ DOMAIN Failed.ranks = {} /\ Failed # NoOutcome
<1>1. NoRanks \in [{} -> 1..RouteLimit] /\ DOMAIN NoRanks = {}
  BY DEF NoRanks
<1> QED
  BY <1>1 DEF NoOutcome, Failed, Outcomes, RankedUpTo

(***************************************************************************)
(* Hits are chunks, and have a mode whatever their legs' statuses.         *)
(***************************************************************************)
LEMMA HitsAreChunks ==
  ASSUME TypeInv, NEW q \in Searches
  PROVE  Candidates(q) \subseteq Chunks /\ Mode(q) \in {"hybrid", "bm25", "vector", "none"}
<1>1. keyword[q] \in Outcomes /\ vector[q] \in Outcomes
  BY DEF TypeInv, TypeOK, RetrievalTypeOK
<1> QED
  BY <1>1 DEF Candidates, Mode, Outcomes, RankedUpTo

(***************************************************************************)
(* The steps of a search keep the retrieval's types and the stages.        *)
(***************************************************************************)
RetrievalInv == RetrievalTypeOK /\ DOMAIN query = Searches /\ Stages

LEMMA SearchTyped ==
  ASSUME TypeInv, NEW q \in Searches, NEW x \in Queries[q], Search(q, x)
  PROVE  RetrievalInv'
<1>1. Active \in SUBSET Chunks
  BY DEF Active
<1> QED
  BY <1>1 DEF TypeInv, TypeOK, RetrievalTypeOK, RetrievalInv, Stages, Shapes, Search, policy

LEMMA ForgetTyped ==
  ASSUME TypeInv, NEW q \in Searches, Forget(q), UNCHANGED policy
  PROVE  RetrievalInv'
<1> USE DEF TypeInv, TypeOK, Shapes, Forget, policy
<1>1. RetrievalTypeOK'
  BY OtherOutcomes DEF RetrievalTypeOK
<1>2. Stages'
  BY DEF RetrievalTypeOK, Stages
<1> QED
  BY <1>1, <1>2 DEF RetrievalInv

LEMMA PublishTyped ==
  ASSUME TypeInv, NEW d \in Documents, Publish(d)
  PROVE  RetrievalInv'
<1>1. PICK v \in 1..Newest[d] :
         /\ inForce' = [inForce EXCEPT ![d] = v]
         /\ since' = [q \in Searches |->
                         IF query[q] = None THEN {} ELSE since[q] \cup {<<d, v>>}]
  BY DEF Publish
<1>2. <<d, v>> \in Chunks
  BY DEF Chunks
<1> USE DEF TypeInv, TypeOK, Shapes, Publish
<1>3. inForce' \in [Documents -> Nat] /\ \A e \in Documents : inForce'[e] <= Newest[e]
  BY <1>1 DEF RetrievalTypeOK
<1>4. since' \in [Searches -> SUBSET Chunks]
  BY SMTT(30), <1>1, <1>2 DEF RetrievalTypeOK
<1>5. RetrievalTypeOK'
  BY <1>3, <1>4 DEF RetrievalTypeOK
<1>6. Stages'
  BY DEF Stages
<1> QED
  BY <1>5, <1>6 DEF RetrievalInv

LEMMA RetrieveTyped ==
  ASSUME TypeInv, NEW q \in Searches, Retrieve(q)
  PROVE  RetrievalInv'
<1> USE DEF TypeInv, TypeOK, RetrievalTypeOK, RetrievalInv, Stages, Shapes, policy
<1>1. Active \in SUBSET Chunks
  BY DEF Active
<1>2. ASSUME query[q] # None
      PROVE  query[q].keyword \in Orders /\ query[q].vector \in Orders
  <2>1. query[q] \in Queries[q] /\ Queries[q] \subseteq [keyword : Orders, vector : Orders]
    BY <1>2
  <2> QED
    BY <2>1
<1>3. CASE LoadActiveChunks(q)
  BY <1>1, <1>3 DEF LoadActiveChunks
<1>4. CASE RankByKeyword(q)
  <2>1. loaded[q] \in SUBSET Chunks /\ query[q] # None
    BY <1>4 DEF RankByKeyword
  <2>2. /\ Answered(query[q].keyword, loaded[q]) \in Outcomes
        /\ Answered(query[q].keyword, loaded[q]) # NoOutcome
    BY <1>2, <2>1, AnswerRanks
  <2>3. Entry(loaded[q]) = loaded[q]
    BY DEF Entry
  <2> DEFINE outcome == Answered(query[q].keyword, loaded[q])
  <2>4. /\ cache' = loaded[q]
        /\ keyword' = [keyword EXCEPT ![q] = outcome]
        /\ loaded' = [loaded EXCEPT ![q] = None]
        /\ UNCHANGED <<inForce, query, vector, found, since>>
    BY <1>4, <2>3 DEF RankByKeyword
  <2> HIDE DEF outcome
  <2>5. RetrievalTypeOK'
    BY <2>1, <2>2, <2>4 DEF outcome
  <2>6. Stages'
    BY <2>1, <2>2, <2>4 DEF outcome
  <2> QED
    BY <2>4, <2>5, <2>6
<1>5. CASE KeywordFails(q)
  BY <1>5, OtherOutcomes DEF KeywordFails
<1>6. CASE RankByVector(q)
  <2>1. /\ Answered(query[q].vector, Active) \in Outcomes
        /\ Answered(query[q].vector, Active) # NoOutcome
    BY <1>1, <1>2, <1>6, AnswerRanks DEF RankByVector
  <2> QED
    BY <1>6, <2>1 DEF RankByVector
<1>7. CASE VectorFails(q)
  BY <1>7, OtherOutcomes DEF VectorFails
<1>8. CASE Fuse(q)
  <2>1. PICK hits \in SUBSET Candidates(q) :
           found' = [found EXCEPT ![q] =
                [hits |-> hits, mode |-> Mode(q),
                 degraded |-> keyword[q].status = "failed" \/ vector[q].status = "failed"]]
    BY <1>8 DEF Fuse
  <2>2. hits \in SUBSET Chunks /\ Mode(q) \in {"hybrid", "bm25", "vector", "none"}
    BY HitsAreChunks
  <2> DEFINE degraded == keyword[q].status = "failed" \/ vector[q].status = "failed"
  <2>3. degraded \in BOOLEAN
    OBVIOUS
  <2> HIDE DEF degraded
  <2>4. [hits |-> hits, mode |-> Mode(q), degraded |-> degraded] \in Results
    BY <2>2, <2>3 DEF Results
  <2>5. found' = [found EXCEPT ![q] = [hits |-> hits, mode |-> Mode(q), degraded |-> degraded]]
    BY <2>1 DEF degraded
  <2>6. query[q] # None
    BY <1>8 DEF Fuse
  <2> QED
    BY <1>8, <2>4, <2>5, <2>6 DEF Fuse
<1> QED
  BY <1>3, <1>4, <1>5, <1>6, <1>7, <1>8 DEF Retrieve
--------------------------------------------------------------------------------
(***************************************************************************)
(* Whatever a model answers, what is stored of it has the types of the     *)
(* schema; and the same of an order nobody attached anything to.           *)
(***************************************************************************)
StoredTyped(r) ==
    /\ r.verdict \in Labels /\ r.rules \subseteq Labels
    /\ r.findings \subseteq [label : Labels, cites : Chunks \cup {None}]
    /\ DOMAIN r.versions \subseteq Documents

LEMMA GroundedFindings ==
  ASSUME NEW hits \in SUBSET Chunks, NEW output \in Outputs(hits)
  PROVE  /\ Grounded(output, hits).findings \subseteq [label : Labels, cites : hits \cup {None}]
         /\ Grounded(output, hits).verdict \in Labels
         /\ \A f \in Grounded(output, hits).findings : f.cites \in hits \/ f.label = "UNCERTAIN"
<1>1. /\ output.verdict \in Labels
      /\ output.findings \subseteq [label : Labels, cites : hits \cup {Unknown}]
  BY DEF Outputs
<1>2. Grounded(output, hits).findings = {Normalized(f, hits) : f \in output.findings}
  BY DEF Grounded
<1>3. \A f \in output.findings :
         /\ Normalized(f, hits) \in [label : Labels, cites : hits \cup {None}]
         /\ Normalized(f, hits).cites \in hits \/ Normalized(f, hits).label = "UNCERTAIN"
  BY <1>1 DEF Normalized, Labels
<1>4. Grounded(output, hits).verdict \in Labels
  BY <1>1 DEF Grounded, Labels
<1> QED
  BY <1>2, <1>3, <1>4

LEMMA RuleLabelsTyped ==
  ASSUME NEW s
  PROVE  RuleLabels(s) \subseteq {"PASS", "FAIL"}
BY DEF RuleLabels

LEMMA VersionsOfHits ==
  ASSUME NEW hits \in SUBSET Chunks
  PROVE  /\ DOMAIN PolicyVersions(hits) = {h[1] : h \in hits}
         /\ DOMAIN PolicyVersions(hits) \subseteq Documents
BY DEF PolicyVersions, Chunks

LEMMA VerdictTyped ==
  ASSUME NEW rules, NEW output
  PROVE  AggregateVerdict(rules, output) \in Labels
BY DEF AggregateVerdict, Labels

(***************************************************************************)
(* What Judge(j) stores.                                                   *)
(***************************************************************************)
Judgement(j, output) ==
    LET hits == found[j].hits
        grounded == Grounded(output, hits)
    IN  Stored(snapshot[j], AggregateVerdict(RuleLabels(snapshot[j]), grounded),
               grounded.findings, hits)

LEMMA JudgeStores ==
  ASSUME NEW j \in Jobs, Judge(j)
  PROVE  \E output \in Outputs(found[j].hits) :
            result' = [result EXCEPT ![j] = Judgement(j, output)]
BY DEF Judge, Judgement

LEMMA JudgementTyped ==
  ASSUME TypeInv, NEW j \in Jobs, found[j] # None, NEW output \in Outputs(found[j].hits)
  PROVE  StoredTyped(Judgement(j, output))
<1> DEFINE hits == found[j].hits
           grounded == Grounded(output, hits)
<1>1. hits \in SUBSET Chunks
  BY DEF TypeInv, TypeOK, RetrievalTypeOK, Results
<1>2. grounded.findings \subseteq [label : Labels, cites : Chunks \cup {None}]
  BY <1>1, GroundedFindings
<1>3. DOMAIN PolicyVersions(hits) \subseteq Documents
  BY <1>1, VersionsOfHits
<1>4. RuleLabels(snapshot[j]) \subseteq Labels
  BY RuleLabelsTyped DEF Labels
<1> HIDE DEF hits, grounded
<1>5. Judgement(j, output) =
         Stored(snapshot[j], AggregateVerdict(RuleLabels(snapshot[j]), grounded),
                grounded.findings, hits)
  BY DEF Judgement, hits, grounded
<1> QED
  BY <1>2, <1>3, <1>4, <1>5, VerdictTyped DEF StoredTyped, Stored

LEMMA SkipTyped ==
  ASSUME NEW s
  PROVE  StoredTyped(Stored(s, "SKIP", {}, {}))
<1>1. DOMAIN PolicyVersions({}) = {}
  BY DEF PolicyVersions
<1> QED
  BY <1>1, RuleLabelsTyped DEF StoredTyped, Stored, Labels

(***************************************************************************)
(* The type invariant.                                                     *)
(***************************************************************************)
InspectionTypeOK ==
    /\ pc \in [Jobs -> {"claimed", "search", "failed", "done"}]
    /\ snapshot \in [Jobs -> Snapshots]
    /\ DOMAIN result = Jobs
    /\ \A j \in Jobs : result[j] # None => StoredTyped(result[j])

LEMMA TypeParts == TypeInv <=> RetrievalInv /\ InspectionTypeOK
BY DEF TypeInv, TypeOK, Shapes, RetrievalInv, InspectionTypeOK, StoredTyped

LEMMA TypeInit == Init => TypeInv
<1> SUFFICES ASSUME Init PROVE RetrievalInv /\ InspectionTypeOK
  BY TypeParts
<1>1. RetrievalTypeOK
  BY OtherOutcomes DEF Init, RetrievalInit, RetrievalTypeOK
<1>2. DOMAIN query = Searches /\ Stages
  BY DEF Init, RetrievalInit, Stages
<1>3. InspectionTypeOK
  BY DEF Init, InspectionTypeOK
<1> QED
  BY <1>1, <1>2, <1>3 DEF RetrievalInv

LEMMA TypeStep == TypeInv /\ [Next]_vars => TypeInv'
<1> SUFFICES ASSUME TypeInv, [Next]_vars
             PROVE  RetrievalInv' /\ InspectionTypeOK'
  BY DEF TypeInv, TypeOK, Shapes, RetrievalInv, InspectionTypeOK, StoredTyped
<1>0. RetrievalInv /\ InspectionTypeOK
  BY TypeParts
<1>1. ASSUME NEW j \in Jobs, Skip(j)
      PROVE  RetrievalInv' /\ InspectionTypeOK'
  <2>1. RetrievalInv'
    BY <1>0, <1>1 DEF Skip, RetrievalInv, RetrievalTypeOK, Stages, policy, searching, Active
  <2>2. InspectionTypeOK'
    BY <1>0, <1>1, SkipTyped DEF Skip, InspectionTypeOK
  <2> QED
    BY <2>1, <2>2
<1>2. ASSUME NEW j \in Jobs, Inspect(j)
      PROVE  RetrievalInv' /\ InspectionTypeOK'
  BY <1>0, <1>2, SearchTyped DEF Inspect, InspectionTypeOK
<1>3. ASSUME NEW j \in Jobs, Judge(j)
      PROVE  RetrievalInv' /\ InspectionTypeOK'
  <2>1. PICK output \in Outputs(found[j].hits) :
           result' = [result EXCEPT ![j] = Judgement(j, output)]
    BY <1>3, JudgeStores
  <2>2. StoredTyped(Judgement(j, output))
    BY <1>3, JudgementTyped DEF Judge
  <2>3. InspectionTypeOK'
    BY <1>0, <1>3, <2>1, <2>2 DEF Judge, InspectionTypeOK
  <2> QED
    BY <1>3, <2>3, ForgetTyped DEF Judge
<1>4. ASSUME NEW j \in Jobs, Refuse(j) \/ Interrupt(j)
      PROVE  RetrievalInv' /\ InspectionTypeOK'
  BY <1>0, <1>4, ForgetTyped DEF Refuse, Interrupt, InspectionTypeOK
<1>5. ASSUME UNCHANGED inspecting
      PROVE  InspectionTypeOK'
  BY <1>0, <1>5 DEF inspecting, InspectionTypeOK
<1>6. ASSUME NEW d \in Documents, Publish(d), UNCHANGED inspecting
      PROVE  RetrievalInv' /\ InspectionTypeOK'
  BY <1>5, <1>6, PublishTyped
<1>7. ASSUME NEW q \in Chats, NEW x \in Queries[q], Search(q, x), UNCHANGED inspecting
      PROVE  RetrievalInv' /\ InspectionTypeOK'
  BY <1>5, <1>7, SearchTyped DEF Chats
<1>8. ASSUME NEW q \in Chats, Forget(q), UNCHANGED policy, UNCHANGED inspecting
      PROVE  RetrievalInv' /\ InspectionTypeOK'
  BY <1>5, <1>8, ForgetTyped DEF Chats
<1>9. ASSUME NEW q \in Searches, Retrieve(q), UNCHANGED inspecting
      PROVE  RetrievalInv' /\ InspectionTypeOK'
  BY <1>5, <1>9, RetrieveTyped
<1>10. ASSUME Evict, UNCHANGED inspecting
       PROVE  RetrievalInv' /\ InspectionTypeOK'
  BY <1>0, <1>5, <1>10 DEF Evict, RetrievalInv, RetrievalTypeOK, Stages, searching
<1>11. ASSUME UNCHANGED vars
       PROVE  RetrievalInv' /\ InspectionTypeOK'
  BY <1>0, <1>5, <1>11 DEF vars, RetrievalInv, RetrievalTypeOK, Stages, policy, searching
<1> QED
  BY <1>1, <1>2, <1>3, <1>4, <1>6, <1>7, <1>8, <1>9, <1>10, <1>11 DEF Next

LEMMA TypeCorrect == Spec => []TypeInv
BY TypeInit, TypeStep, PTL DEF Spec

(***************************************************************************)
(* Every variable of a search and of an inspection keeps its type, so that *)
(* whatever a model answers, a stored result is one the schema allows.     *)
(***************************************************************************)
THEOREM InspectionTypes == Spec => []TypeOK
<1>1. TypeInv => TypeOK
  BY DEF TypeInv
<1> QED
  BY <1>1, TypeCorrect, PTL
--------------------------------------------------------------------------------
(***************************************************************************)
(* The fusion.  A chunk with the smaller rank in both legs has the greater *)
(* score, also where a leg does not rank the other one.                    *)
(***************************************************************************)
LEMMA SmallerProduct ==
  ASSUME NEW a \in Nat, NEW b \in Nat, NEW n \in Nat \ {0}, a < b
  PROVE  a * n < b * n
OBVIOUS

LEMMA EarlierScoresMore ==
  ASSUME NEW q, NEW c, NEW h,
         keyword[q].ranks \in RankedUpTo(RouteLimit),
         vector[q].ranks \in RankedUpTo(RouteLimit),
         RanksBefore(c, h, keyword[q].ranks), RanksBefore(c, h, vector[q].ranks)
  PROVE  Less(Score(q, h), Score(q, c))
<1> DEFINE k == keyword[q].ranks
           v == vector[q].ranks
<1>1. /\ c \in DOMAIN k /\ k[c] \in Nat \ {0}
      /\ h \in DOMAIN k => k[h] \in Nat /\ k[c] < k[h]
  BY DEF RanksBefore, RankedUpTo
<1>2. /\ c \in DOMAIN v /\ v[c] \in Nat \ {0}
      /\ h \in DOMAIN v => v[h] \in Nat /\ v[c] < v[h]
  BY DEF RanksBefore, RankedUpTo
<1> DEFINE a == 60 + k[c]
           b == 60 + v[c]
           x == 60 + k[h]
           y == 60 + v[h]
<1>3. Score(q, c) = <<1 * b + 1 * a, a * b>>
  BY <1>1, <1>2 DEF Score, LegScore, Plus
<1>4. a \in Nat \ {0} /\ b \in Nat \ {0}
  BY <1>1, <1>2
<1>5. CASE h \in DOMAIN k /\ h \in DOMAIN v
  <2>1. Score(q, h) = <<1 * y + 1 * x, x * y>>
    BY <1>5 DEF Score, LegScore, Plus
  <2>2. x \in Nat \ {0} /\ y \in Nat \ {0} /\ a < x /\ b < y
    BY <1>1, <1>2, <1>5
  <2> HIDE DEF a, b, x, y
  <2>3. b * y \in Nat \ {0} /\ a * x \in Nat \ {0}
    BY <1>4, <2>2
  <2>4. a * (b * y) < x * (b * y) /\ b * (a * x) < y * (a * x)
    BY <1>4, <2>2, <2>3, SmallerProduct
  <2>5. (y + x) * (a * b) < (b + a) * (x * y)
    BY <1>4, <2>2, <2>4
  <2> QED
    BY <1>3, <1>4, <2>1, <2>2, <2>5 DEF Less
<1>6. CASE h \in DOMAIN k /\ h \notin DOMAIN v
  <2>1. Score(q, h) = <<1 * 1 + 0 * x, x * 1>>
    BY <1>6 DEF Score, LegScore, Plus
  <2>2. x \in Nat \ {0} /\ a < x
    BY <1>1, <1>6
  <2> HIDE DEF a, b, x, y
  <2>3. a * b < x * b /\ x * a \in Nat
    BY <1>4, <2>2, SmallerProduct
  <2>4. a * b < (b + a) * x
    BY <1>4, <2>2, <2>3
  <2> QED
    BY <1>3, <1>4, <2>1, <2>2, <2>4 DEF Less
<1>7. CASE h \notin DOMAIN k /\ h \in DOMAIN v
  <2>1. Score(q, h) = <<0 * y + 1 * 1, 1 * y>>
    BY <1>7 DEF Score, LegScore, Plus
  <2>2. y \in Nat \ {0} /\ b < y
    BY <1>2, <1>7
  <2> HIDE DEF a, b, x, y
  <2>3. b * a < y * a /\ y * b \in Nat
    BY <1>4, <2>2, SmallerProduct
  <2>4. a * b < (b + a) * y
    BY <1>4, <2>2, <2>3
  <2> QED
    BY <1>3, <1>4, <2>1, <2>2, <2>4 DEF Less
<1>8. CASE h \notin DOMAIN k /\ h \notin DOMAIN v
  <2>1. Score(q, h) = <<0 * 1 + 0 * 1, 1 * 1>>
    BY <1>8 DEF Score, LegScore, Plus
  <2> HIDE DEF a, b
  <2>2. a * b \in Nat
    BY <1>4
  <2> QED
    BY <1>3, <1>4, <2>1, <2>2 DEF Less
<1> QED
  BY <1>5, <1>6, <1>7, <1>8
--------------------------------------------------------------------------------
(***************************************************************************)
(* What a search has in hand was in force since it began, so is what is in *)
(* force now, and the hits it has kept are the best of its candidates.     *)
(***************************************************************************)
BestKept(q) ==
    \A h \in found[q].hits, c \in Candidates(q) :
        RanksBefore(c, h, keyword[q].ranks) /\ RanksBefore(c, h, vector[q].ranks)
            => c \in found[q].hits

InForceSince(q) ==
    /\ query[q] # None => Active \subseteq since[q]
    /\ loaded[q] # None => loaded[q] \subseteq since[q]
    /\ DOMAIN keyword[q].ranks \subseteq since[q]
    /\ DOMAIN vector[q].ranks \subseteq since[q]
    /\ found[q] # None => found[q].hits \subseteq since[q] /\ BestKept(q)

SearchInv == \A q \in Searches : InForceSince(q)

LEMMA SearchInit == Init => SearchInv
BY OtherOutcomes DEF Init, RetrievalInit, SearchInv, InForceSince

\* A step that is not of search q, nor a publication.
Untouched(q) ==
    /\ query'[q] = query[q] /\ loaded'[q] = loaded[q] /\ found'[q] = found[q]
    /\ keyword'[q] = keyword[q] /\ vector'[q] = vector[q] /\ since'[q] = since[q]
    /\ inForce' = inForce

LEMMA UntouchedKeeps ==
  ASSUME NEW q, InForceSince(q), Untouched(q)
  PROVE  InForceSince(q)'
BY DEF InForceSince, Untouched, Active, BestKept, Candidates

LEMMA OtherSearches ==
  ASSUME TypeInv, SearchInv, NEW p \in Searches, InForceSince(p)',
         \A q \in Searches \ {p} : Untouched(q)
  PROVE  SearchInv'
BY UntouchedKeeps DEF SearchInv

LEMMA SearchKeeps ==
  ASSUME TypeInv, SearchInv, NEW p \in Searches, NEW x \in Queries[p], Search(p, x)
  PROVE  SearchInv'
<1> USE DEF TypeInv, TypeOK, RetrievalTypeOK, Shapes, Search, policy
<1>1. \A q \in Searches \ {p} : Untouched(q)
  BY DEF Untouched
<1>2. InForceSince(p)'
  BY OtherOutcomes DEF Stages, InForceSince, Active
<1> QED
  BY <1>1, <1>2, OtherSearches

LEMMA ForgetKeeps ==
  ASSUME TypeInv, SearchInv, NEW p \in Searches, Forget(p), UNCHANGED policy
  PROVE  SearchInv'
<1> USE DEF TypeInv, TypeOK, RetrievalTypeOK, Shapes, Forget, policy
<1>1. \A q \in Searches \ {p} : Untouched(q)
  BY DEF Untouched
<1>2. InForceSince(p)'
  BY OtherOutcomes DEF InForceSince
<1> QED
  BY <1>1, <1>2, OtherSearches

LEMMA PublishKeeps ==
  ASSUME TypeInv, SearchInv, NEW d \in Documents, Publish(d)
  PROVE  SearchInv'
<1>1. PICK v \in 1..Newest[d] :
         /\ inForce' = [inForce EXCEPT ![d] = v]
         /\ since' = [q \in Searches |->
                         IF query[q] = None THEN {} ELSE since[q] \cup {<<d, v>>}]
         /\ UNCHANGED <<cache, query, loaded, keyword, vector, found>>
  BY DEF Publish
<1>2. Active' \subseteq Active \cup {<<d, v>>}
  BY <1>1 DEF TypeInv, TypeOK, RetrievalTypeOK, Active, Chunks
<1> SUFFICES ASSUME NEW q \in Searches
             PROVE  InForceSince(q)'
  BY DEF SearchInv
<1>3. InForceSince(q)
  BY DEF SearchInv
<1>4. CASE query[q] = None
  BY <1>1, <1>4, OtherOutcomes DEF TypeInv, Stages, InForceSince
<1>5. CASE query[q] # None
  <2>1. since'[q] = since[q] \cup {<<d, v>>}
    BY <1>1, <1>5
  <2>2. found[q] # None => BestKept(q)'
    BY <1>1, <1>3 DEF InForceSince, BestKept, Candidates
  <2> QED
    BY <1>1, <1>2, <1>3, <1>5, <2>1, <2>2 DEF InForceSince
<1> QED
  BY <1>4, <1>5

LEMMA RetrieveKeeps ==
  ASSUME TypeInv, SearchInv, NEW p \in Searches, Retrieve(p)
  PROVE  SearchInv'
<1> USE DEF TypeInv, TypeOK, RetrievalTypeOK, policy
<1>0. InForceSince(p)
  BY DEF SearchInv
<1>1. \A q \in Searches \ {p} : Untouched(q)
  BY DEF Retrieve, LoadActiveChunks, RankByKeyword, KeywordFails, RankByVector, VectorFails,
         Fuse, Untouched
<1>2. Active \in SUBSET Chunks
  BY DEF Active
<1>3. ASSUME LoadActiveChunks(p)
      PROVE  InForceSince(p)'
  BY <1>0, <1>3 DEF LoadActiveChunks, InForceSince, Active, BestKept, Candidates
<1>4. ASSUME RankByKeyword(p)
      PROVE  InForceSince(p)'
  <2>1. loaded[p] \in SUBSET Chunks /\ query[p] # None /\ found[p] = None
    BY <1>4 DEF RankByKeyword, Stages
  <2>2. query[p].keyword \in Orders
    BY <2>1
  <2>3. DOMAIN Answered(query[p].keyword, loaded[p]).ranks \subseteq loaded[p]
    BY <2>1, <2>2, AnswerRanks
  <2>4. Entry(loaded[p]) = loaded[p]
    BY DEF Entry
  <2>5. keyword'[p] = Answered(query[p].keyword, loaded[p]) /\ loaded'[p] = None
    BY <1>4, <2>4 DEF RankByKeyword
  <2> QED
    BY <1>0, <1>4, <2>1, <2>3, <2>5 DEF RankByKeyword, InForceSince, Active
<1>5. ASSUME KeywordFails(p)
      PROVE  InForceSince(p)'
  BY <1>0, <1>5, OtherOutcomes DEF KeywordFails, InForceSince, Active, Stages
<1>6. ASSUME RankByVector(p)
      PROVE  InForceSince(p)'
  <2>1. query[p] # None /\ found[p] = None
    BY <1>6 DEF RankByVector, Stages
  <2>2. query[p].vector \in Orders
    BY <2>1
  <2>3. DOMAIN Answered(query[p].vector, Active).ranks \subseteq Active
    BY <1>2, <2>2, AnswerRanks
  <2>4. vector'[p] = Answered(query[p].vector, Active)
    BY <1>6 DEF RankByVector
  <2> QED
    BY <1>0, <1>6, <2>1, <2>3, <2>4 DEF RankByVector, InForceSince, Active
<1>7. ASSUME VectorFails(p)
      PROVE  InForceSince(p)'
  BY <1>0, <1>7, OtherOutcomes DEF VectorFails, InForceSince, Active, Stages
<1>8. ASSUME Fuse(p)
      PROVE  InForceSince(p)'
  <2>1. PICK hits \in SUBSET Candidates(p) : IsBest(p, hits) /\ found'[p].hits = hits
    BY <1>8 DEF Fuse
  <2>2. UNCHANGED <<inForce, cache, query, loaded, keyword, vector, since>>
    BY <1>8 DEF Fuse
  <2>3. hits \subseteq since[p]
    BY <1>0 DEF InForceSince, Candidates
  <2>4. \A h \in hits, c \in Candidates(p) :
           RanksBefore(c, h, keyword[p].ranks) /\ RanksBefore(c, h, vector[p].ranks)
              => c \in hits
    <3> SUFFICES ASSUME NEW h \in hits, NEW c \in Candidates(p),
                        RanksBefore(c, h, keyword[p].ranks), RanksBefore(c, h, vector[p].ranks)
                 PROVE  c \in hits
      OBVIOUS
    <3>1. keyword[p].ranks \in RankedUpTo(RouteLimit) /\ vector[p].ranks \in RankedUpTo(RouteLimit)
      BY DEF Outcomes
    <3>2. Less(Score(p, h), Score(p, c))
      BY <3>1, EarlierScoresMore
    <3> QED
      BY <2>1, <3>2 DEF IsBest
  <2>5. BestKept(p)'
    BY <2>1, <2>2, <2>4 DEF BestKept, Candidates
  <2> QED
    BY <1>0, <2>1, <2>2, <2>3, <2>5 DEF InForceSince, Active
<1>9. InForceSince(p)'
  BY <1>3, <1>4, <1>5, <1>6, <1>7, <1>8 DEF Retrieve
<1> QED
  BY <1>1, <1>9, OtherSearches

LEMMA SearchStep == TypeInv /\ SearchInv /\ [Next]_vars => SearchInv'
<1> SUFFICES ASSUME TypeInv, SearchInv, [Next]_vars
             PROVE  SearchInv'
  OBVIOUS
<1>1. ASSUME UNCHANGED <<inForce, searching>>
      PROVE  SearchInv'
  BY <1>1, UntouchedKeeps DEF SearchInv, searching, Untouched
<1>2. ASSUME NEW j \in Jobs, Skip(j) \/ Inspect(j) \/ Judge(j) \/ Refuse(j) \/ Interrupt(j)
      PROVE  SearchInv'
  BY <1>1, <1>2, SearchKeeps, ForgetKeeps DEF Skip, Inspect, Judge, Refuse, Interrupt, policy
<1>3. ASSUME NEW q \in Chats, NEW x \in Queries[q], Search(q, x)
      PROVE  SearchInv'
  BY <1>3, SearchKeeps DEF Chats
<1>4. ASSUME NEW q \in Chats, Forget(q), UNCHANGED policy
      PROVE  SearchInv'
  BY <1>4, ForgetKeeps DEF Chats
<1>5. ASSUME Evict \/ UNCHANGED vars
      PROVE  SearchInv'
  BY <1>1, <1>5 DEF Evict, vars, policy
<1> QED
  BY <1>2, <1>3, <1>4, <1>5, PublishKeeps, RetrieveKeeps DEF Next

LEMMA SearchCorrect == Spec => [](TypeInv /\ SearchInv)
BY TypeInit, TypeStep, SearchInit, SearchStep, PTL DEF Spec

(***************************************************************************)
(* However publications, other searches and evictions interleave with it,  *)
(* a search finds only what was in force at some time while it ran.        *)
(***************************************************************************)
THEOREM HitsHold == Spec => []HitsWereInForce
<1>1. TypeInv /\ SearchInv => HitsWereInForce
  BY DEF SearchInv, InForceSince, HitsWereInForce
<1> QED
  BY <1>1, SearchCorrect, PTL

(***************************************************************************)
(* The fusion never prefers a chunk that both legs rank lower.             *)
(***************************************************************************)
THEOREM BestHitsHold == Spec => []BestHitsKept
<1>1. TypeInv /\ SearchInv => BestHitsKept
  BY DEF SearchInv, InForceSince, BestKept, BestHitsKept
<1> QED
  BY <1>1, SearchCorrect, PTL
--------------------------------------------------------------------------------
(***************************************************************************)
(* What a stored result rests on.  Only an order with an attachment gets   *)
(* as far as the search, and its snapshot never changes.                   *)
(***************************************************************************)
Proven(r, s) ==
    /\ r.verdict = "PASS" =>
          /\ \A x \in DOMAIN Passes(s) : Passes(s)[x]
          /\ \A f \in r.findings : f.label = "PASS" /\ f.cites # None
    /\ "FAIL" \in r.rules => r.verdict = IF s.present THEN "FAIL" ELSE "SKIP"

VerdictInv ==
    /\ \A j \in Jobs : pc[j] = "search" => snapshot[j].present
    /\ \A j \in Jobs : result[j] # None => Proven(result[j], snapshot[j])

LEMMA SkipProven ==
  ASSUME NEW s, ~s.present
  PROVE  Proven(Stored(s, "SKIP", {}, {}), s)
BY DEF Proven, Stored

LEMMA JudgementProven ==
  ASSUME TypeInv, NEW j \in Jobs, found[j] # None, NEW output \in Outputs(found[j].hits),
         snapshot[j].present
  PROVE  Proven(Judgement(j, output), snapshot[j])
<1> DEFINE hits == found[j].hits
           grounded == Grounded(output, hits)
           rules == RuleLabels(snapshot[j])
           verdict == AggregateVerdict(rules, grounded)
<1>1. hits \in SUBSET Chunks
  BY DEF TypeInv, TypeOK, RetrievalTypeOK, Results
<1>2. /\ grounded.findings \subseteq [label : Labels, cites : hits \cup {None}]
      /\ \A f \in grounded.findings : f.cites \in hits \/ f.label = "UNCERTAIN"
  BY <1>1, GroundedFindings
<1> HIDE DEF hits, grounded, rules, verdict
<1>3. ASSUME "FAIL" \in rules
      PROVE  verdict = "FAIL"
  BY <1>3 DEF verdict, AggregateVerdict
<1>4. ASSUME verdict = "PASS"
      PROVE  {"FAIL", "UNCERTAIN", "SKIP"} \cap (rules \cup LabelsOf(grounded.findings)) = {}
  BY <1>4 DEF verdict, AggregateVerdict
<1>5. ASSUME verdict = "PASS"
      PROVE  \A x \in DOMAIN Passes(snapshot[j]) : Passes(snapshot[j])[x]
  BY <1>4, <1>5 DEF rules, RuleLabels
<1>6. ASSUME verdict = "PASS", NEW f \in grounded.findings
      PROVE  f.label = "PASS" /\ f.cites # None
  <2>1. f.label \in LabelsOf(grounded.findings)
    BY DEF LabelsOf
  <2>2. f.label = "PASS"
    BY <1>2, <1>4, <1>6, <2>1 DEF Labels
  <2> QED
    BY <1>1, <1>2, <2>2
<1>7. Judgement(j, output) = Stored(snapshot[j], verdict, grounded.findings, hits)
  BY DEF Judgement, hits, grounded, rules, verdict
<1> QED
  BY <1>3, <1>5, <1>6, <1>7 DEF Proven, Stored, rules

LEMMA VerdictInit == Init => VerdictInv
BY DEF Init, VerdictInv

LEMMA VerdictStep == TypeInv /\ VerdictInv /\ [Next]_vars => VerdictInv'
<1> SUFFICES ASSUME TypeInv, VerdictInv, [Next]_vars
             PROVE  VerdictInv'
  OBVIOUS
<1> USE DEF TypeInv, TypeOK, Shapes
<1>1. ASSUME NEW j \in Jobs, Skip(j)
      PROVE  VerdictInv'
  BY <1>1, SkipProven DEF Skip, VerdictInv
<1>2. ASSUME NEW j \in Jobs, Inspect(j)
      PROVE  VerdictInv'
  BY <1>2 DEF Inspect, VerdictInv
<1>3. ASSUME NEW j \in Jobs, Judge(j)
      PROVE  VerdictInv'
  <2>1. PICK output \in Outputs(found[j].hits) :
           result' = [result EXCEPT ![j] = Judgement(j, output)]
    BY <1>3, JudgeStores
  <2>2. Proven(Judgement(j, output), snapshot[j])
    BY <1>3, JudgementProven DEF Judge, VerdictInv
  <2> QED
    BY <1>3, <2>1, <2>2 DEF Judge, VerdictInv
<1>4. ASSUME NEW j \in Jobs, Refuse(j) \/ Interrupt(j)
      PROVE  VerdictInv'
  BY <1>4 DEF Refuse, Interrupt, VerdictInv
<1>5. ASSUME UNCHANGED inspecting
      PROVE  VerdictInv'
  BY <1>5 DEF inspecting, VerdictInv
<1> QED
  BY <1>1, <1>2, <1>3, <1>4, <1>5 DEF Next, vars

(***************************************************************************)
(* Whatever the model answers and cites, PASS needs every rule passed and  *)
(* every finding PASS with a policy to show for it, and a rule's FAIL      *)
(* stands unless nothing was attached.                                     *)
(***************************************************************************)
THEOREM VerdictHolds == Spec => []VerdictIsProven
<1>1. VerdictInv => VerdictIsProven
  BY DEF VerdictInv, Proven, VerdictIsProven
<1> QED
  BY <1>1, TypeInit, TypeStep, VerdictInit, VerdictStep, PTL DEF Spec

\* The step EvidenceWasInForce allows.
EvidenceStep ==
    \A j \in Jobs : result'[j] # result[j] =>
        \A f \in result'[j].findings : f.cites # None =>
            /\ f.cites \in since[j]
            /\ f.cites[1] \in DOMAIN result'[j].versions

LEMMA EvidenceStored ==
  ASSUME TypeInv, SearchInv, NEW j \in Jobs, Judge(j)
  PROVE  EvidenceStep
<1>1. PICK output \in Outputs(found[j].hits) :
         result' = [result EXCEPT ![j] = Judgement(j, output)]
  BY JudgeStores
<1> DEFINE hits == found[j].hits
           grounded == Grounded(output, hits)
<1>2. hits \in SUBSET Chunks /\ hits \subseteq since[j]
  BY DEF Judge, TypeInv, TypeOK, RetrievalTypeOK, Results, SearchInv, InForceSince
<1>3. grounded.findings \subseteq [label : Labels, cites : hits \cup {None}]
  BY <1>2, GroundedFindings
<1>4. DOMAIN PolicyVersions(hits) = {h[1] : h \in hits}
  BY <1>2, VersionsOfHits
<1>5. /\ Judgement(j, output).findings = grounded.findings
      /\ Judgement(j, output).versions = PolicyVersions(hits)
  BY DEF Judgement, Stored
<1> HIDE DEF hits, grounded
<1>6. \A f \in Judgement(j, output).findings : f.cites # None =>
         /\ f.cites \in since[j]
         /\ f.cites[1] \in DOMAIN Judgement(j, output).versions
  BY <1>2, <1>3, <1>4, <1>5
<1>7. \A i \in Jobs : result'[i] # result[i] => i = j /\ result'[i] = Judgement(j, output)
  BY <1>1 DEF TypeInv, Shapes
<1> QED
  BY <1>6, <1>7 DEF EvidenceStep

(***************************************************************************)
(* The policies a stored result cites are on record with it and were in    *)
(* force while the order was inspected.                                    *)
(***************************************************************************)
THEOREM EvidenceHolds == Spec => EvidenceWasInForce
<1>1. TypeInv /\ SearchInv /\ [Next]_vars => [EvidenceStep]_vars
  <2> SUFFICES ASSUME TypeInv, SearchInv, [Next]_vars
               PROVE  EvidenceStep
    OBVIOUS
  <2>1. ASSUME UNCHANGED result
        PROVE  EvidenceStep
    BY <2>1 DEF EvidenceStep
  <2>2. ASSUME NEW j \in Jobs, Skip(j)
        PROVE  EvidenceStep
    BY <2>2 DEF Skip, Stored, EvidenceStep, TypeInv, Shapes
  <2>3. ASSUME NEW j \in Jobs, Inspect(j) \/ Refuse(j) \/ Interrupt(j)
        PROVE  EvidenceStep
    BY <2>1, <2>3 DEF Inspect, Refuse, Interrupt
  <2> QED
    BY <2>1, <2>2, <2>3, EvidenceStored DEF Next, vars, inspecting
<1> QED
  BY <1>1, SearchCorrect, PTL DEF Spec, EvidenceWasInForce, EvidenceStep
================================================================================
