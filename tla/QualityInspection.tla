--------------------------- MODULE QualityInspection ---------------------------
(***************************************************************************)
(* What QualityProcessor.process makes of one completed work order: the    *)
(* deterministic rules, the search of the policies (PolicyRetrieval, while *)
(* chat requests search and publications go on), the model's answer, its   *)
(* validation against the hits, the verdict and the stored result.         *)
(*                                                                         *)
(* One attempt of each job at a time; that another attempt cannot store a  *)
(* second result, and what becomes of a job whose attempt fails, is the    *)
(* subject of QualityJob.  Of a finding only its label and what it cites   *)
(* count.                                                                  *)
(***************************************************************************)
EXTENDS PolicyRetrieval

CONSTANTS
    Jobs,          \* quality jobs; the other Searches are chat requests
    Snapshots,     \* what the rules see of work orders that get inspected
    MaxFindings,   \* findings of a model output, 20
    Unknown        \* what a model cites that is no hit, or nothing

VARIABLES
    pc,            \* pc[j]: "claimed", "search", "failed", "done"
    snapshot,      \* snapshot[j]: one of Snapshots
    result         \* result[j]: the stored quality_result, or None

inspecting == <<pc, snapshot, result>>
vars == <<policy, searching, inspecting>>

Labels == {"PASS", "FAIL", "UNCERTAIN", "SKIP"}
Instants == Nat \cup {None}

ASSUME QualityInspectionAssumption ==
    /\ Jobs \subseteq Searches
    /\ Snapshots \subseteq [summary : BOOLEAN, created : Instants, completed : Instants,
                            due : Instants, present : BOOLEAN]
    /\ MaxFindings \in Nat
    /\ Unknown \notin Chunks

Init ==
    /\ RetrievalInit
    /\ pc = [j \in Jobs |-> "claimed"]
    /\ snapshot \in [Jobs -> Snapshots]
    /\ result = [j \in Jobs |-> None]
--------------------------------------------------------------------------------
\* RuleEngine.evaluate: a missing timestamp fails its rules.
NotAfter(x, y) == x # None /\ y # None /\ x <= y

Passes(s) ==
    [REQUIRED_COMPLETION_SUMMARY |-> s.summary,
     COMPLETED_AT_RANGE |-> NotAfter(s.created, s.completed),
     SLA_COMPLETION |-> NotAfter(s.completed, s.due),
     REQUIRED_ATTACHMENT |-> s.present]

RuleLabels(s) == {IF Passes(s)[r] THEN "PASS" ELSE "FAIL" : r \in DOMAIN Passes(s)}

(***************************************************************************)
(* What a model, or the offline template, may answer, if validate_model_   *)
(* output lets it pass: a verdict and findings, no more than there are     *)
(* rule codes, which are those of the retrieved chunks, none twice.        *)
(***************************************************************************)
Outputs(hits) ==
    [verdict : Labels,
     findings : {s \in SUBSET [label : Labels, cites : hits \cup {Unknown}] :
                    Cardinality(s) <= MaxFindings /\ Cardinality(s) <= Cardinality(hits)}]

(***************************************************************************)
(* Bug: a citation is not compared with the hits.                          *)
(***************************************************************************)
AnyCitation(finding, hits) == finding

\* A finding without a retrieved chunk to show for it is UNCERTAIN.
Normalized(finding, hits) ==
    IF finding.cites \in hits THEN finding ELSE [label |-> "UNCERTAIN", cites |-> None]

LabelsOf(findings) == {f.label : f \in findings}

\* validate_policy_evidence
Grounded(output, hits) ==
    LET findings == {Normalized(f, hits) : f \in output.findings}
    IN  [findings |-> findings,
         verdict |->
            IF \A f \in output.findings : f.cites \in hits THEN output.verdict
            ELSE IF "FAIL" \in LabelsOf(findings) THEN "FAIL"
            ELSE IF output.verdict = "SKIP" THEN "SKIP" ELSE "UNCERTAIN"]

(***************************************************************************)
(* Bug: what the model concludes comes first.                              *)
(***************************************************************************)
ModelDecides(rules, output) ==
    IF output.verdict = "PASS" THEN "PASS"
    ELSE IF "FAIL" \in rules \cup LabelsOf(output.findings) THEN "FAIL" ELSE output.verdict

\* aggregate_verdict: FAIL before UNCERTAIN before SKIP before PASS.
AggregateVerdict(rules, output) ==
    LET labels == rules \cup LabelsOf(output.findings) \cup {output.verdict}
    IN  IF "FAIL" \in labels THEN "FAIL"
        ELSE IF "UNCERTAIN" \in labels THEN "UNCERTAIN"
        ELSE IF "SKIP" \in labels THEN "SKIP" ELSE "PASS"

\* _policy_versions: of several versions of a document the greatest.
PolicyVersions(hits) ==
    [d \in {h[1] : h \in hits} |->
        CHOOSE v \in 1..Newest[d] :
            <<d, v>> \in hits /\ \A h \in hits : h[1] = d => h[2] <= v]

Stored(s, verdict, findings, hits) ==
    [verdict |-> verdict, rules |-> RuleLabels(s), findings |-> findings,
     versions |-> PolicyVersions(hits)]
--------------------------------------------------------------------------------
\* Without an attachment neither policies nor model are asked.
Skip(j) ==
    /\ pc[j] = "claimed"
    /\ ~snapshot[j].present
    /\ result' = [result EXCEPT ![j] = Stored(snapshot[j], "SKIP", {}, {})]
    /\ pc' = [pc EXCEPT ![j] = "done"]
    /\ UNCHANGED <<policy, searching, snapshot>>

Inspect(j) ==
    /\ pc[j] = "claimed"
    /\ snapshot[j].present
    /\ pc' = [pc EXCEPT ![j] = "search"]
    /\ \E x \in Queries[j] : Search(j, x)
    /\ UNCHANGED <<snapshot, result>>

\* generate_structured answers, and the rest of process follows.
Judge(j) ==
    /\ pc[j] = "search"
    /\ found[j] # None
    /\ \E output \in Outputs(found[j].hits) :
          LET hits == found[j].hits
              grounded == Grounded(output, hits)
              verdict == AggregateVerdict(RuleLabels(snapshot[j]), grounded)
          IN  result' = [result EXCEPT ![j] =
                            Stored(snapshot[j], verdict, grounded.findings, hits)]
    /\ pc' = [pc EXCEPT ![j] = "done"]
    /\ Forget(j)
    /\ UNCHANGED <<policy, snapshot>>

\* Any other answer is a QualityOutputError, and the job has FAILED.
Refuse(j) ==
    /\ pc[j] = "search"
    /\ found[j] # None
    /\ pc' = [pc EXCEPT ![j] = "failed"]
    /\ Forget(j)
    /\ UNCHANGED <<policy, snapshot, result>>

\* The model, the database or the process fails; the job is claimed again.
Interrupt(j) ==
    /\ pc[j] = "search"
    /\ pc' = [pc EXCEPT ![j] = "claimed"]
    /\ Forget(j)
    /\ UNCHANGED <<policy, snapshot, result>>

Chats == Searches \ Jobs

Next ==
    \/ \E j \in Jobs : Skip(j) \/ Inspect(j) \/ Judge(j) \/ Refuse(j) \/ Interrupt(j)
    \/ /\ \/ \E d \in Documents : Publish(d)
          \/ \E q \in Chats : \E x \in Queries[q] : Search(q, x)
          \/ \E q \in Chats : Forget(q) /\ UNCHANGED policy
          \/ \E q \in Searches : Retrieve(q)
          \/ Evict
       /\ UNCHANGED inspecting

Spec == Init /\ [][Next]_vars
--------------------------------------------------------------------------------
TypeOK ==
    /\ RetrievalTypeOK
    /\ pc \in [Jobs -> {"claimed", "search", "failed", "done"}]
    /\ snapshot \in [Jobs -> Snapshots]
    /\ \A j \in Jobs : result[j] # None =>
          /\ result[j].verdict \in Labels /\ result[j].rules \subseteq Labels
          /\ result[j].findings \subseteq [label : Labels, cites : Chunks \cup {None}]
          /\ DOMAIN result[j].versions \subseteq Documents

(***************************************************************************)
(* A verdict is never better than its evidence: whatever the model answers *)
(* and cites, PASS needs every rule passed and every finding PASS with a   *)
(* policy to show for it, and a rule's FAIL stands unless nothing was      *)
(* attached (aggregate_verdict, validate_policy_evidence).                 *)
(***************************************************************************)
VerdictIsProven ==
    \A j \in Jobs : result[j] # None =>
        /\ result[j].verdict = "PASS" =>
              /\ \A r \in DOMAIN Passes(snapshot[j]) : Passes(snapshot[j])[r]
              /\ \A f \in result[j].findings : f.label = "PASS" /\ f.cites # None
        /\ "FAIL" \in result[j].rules =>
              result[j].verdict = IF snapshot[j].present THEN "FAIL" ELSE "SKIP"

(***************************************************************************)
(* The policies a stored result cites are on record with it and were in    *)
(* force while the order was inspected: neither the cached index, nor a    *)
(* publication during the search or the model call, nor an invented        *)
(* citation adds another (validate_policy_evidence, _policy_versions).     *)
(***************************************************************************)
EvidenceWasInForce ==
    [][\A j \in Jobs : result'[j] # result[j] =>
          \A f \in result'[j].findings : f.cites # None =>
              /\ f.cites \in since[j]
              /\ f.cites[1] \in DOMAIN result'[j].versions]_vars
================================================================================
