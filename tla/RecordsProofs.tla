---------------------------- MODULE RecordsProofs ----------------------------
(***************************************************************************)
(* Proofs about the records of a study: evidence and claims, drafts and     *)
(* exports, the review of the literature, and analyses, for any sources,    *)
(* commands, contents and number of rows.                                   *)
(***************************************************************************)
EXTENDS Writing, Literature, AnalysisRuns, FiniteSetTheorems, SequenceTheorems, WellFoundedInduction,
        TLAPS

-----------------------------------------------------------------------------
\* Evidence

\* Links, citations and notices are of claims that are there.
ClaimsPlaced ==
  /\ \A c \in CommandIds : links[c] # Nothing => claims[links[c].claim] # Nothing
  /\ \A c \in CommandIds : citations[c] # Nothing => claims[citations[c].claim] # Nothing
  /\ \A r \in reassessed : claims[r.claim] # Nothing

\* A claim is marked for reassessment by a notice only.
MarkedAreDoubted == \A k \in CommandIds : claims[k] = "needs-reassessment" => Doubted(k)

EvidenceInv == EvidenceTypeOK /\ ClaimsPlaced /\ MarkedAreDoubted /\ EvidenceHolds

LEMMA SupportType ==
  ASSUME NEW k, NEW T, NEW U
  PROVE  /\ Support(k, T, U) \in Supports
         /\ Support(k, T, U) = "needs-reassessment" <=> Doubted(k)
         /\ Support(k, T, U) # Nothing
<1>1. Weighed(RowsFor(k, T), RowsFor(k, U)) \in
        {"unverified", "substantively-supported", "unsupported", "access-limited",
         "fields-missing", "identity-resolved"}
  BY DEF Weighed
<1> QED BY <1>1, NullEvidenceAssumption DEF Support, Supports

\* More rows take no support away, except by contesting it.
LEMMA SupportGrows ==
  ASSUME NEW k, NEW T, NEW U, NEW T2, NEW U2,
         \A c \in CommandIds : T[c] # Nothing => T2[c] = T[c],
         \A c \in CommandIds : U[c] # Nothing => U2[c] = U[c],
         Support(k, T, U) \in {"substantively-supported", "contested"}
  PROVE  Support(k, T2, U2) \in {"substantively-supported", "contested"}
<1> DEFINE L == RowsFor(k, T)
           V == RowsFor(k, U)
           L2 == RowsFor(k, T2)
           V2 == RowsFor(k, U2)
<1>1. L \subseteq L2 /\ V \subseteq V2
  BY DEF RowsFor
<1>2. ~Doubted(k)
  BY DEF Support
<1>3. CASE {"supporting", "challenging"} \subseteq {l.role : l \in L}
  <2>1. {"supporting", "challenging"} \subseteq {l.role : l \in L2}
    BY <1>1, <1>3
  <2> QED BY <2>1, <1>2 DEF Support
<1>4. CASE ~({"supporting", "challenging"} \subseteq {l.role : l \in L})
  <2>1. Weighed(L, V) \in {"substantively-supported", "contested"}
    BY <1>2, <1>4 DEF Support
  <2> HIDE DEF L, V, L2, V2
  <2>2. \/ \E l \in L : l.role = "supporting" /\ l.status = "substantively-supported"
        \/ \E v \in V : v.support = "substantively-supported"
    BY <2>1 DEF Weighed
  <2>3. Weighed(L2, V2) = "substantively-supported"
    BY <2>2, <1>1 DEF Weighed
  <2> QED BY <2>3, <1>2 DEF Support, L2, V2
<1> QED BY <1>3, <1>4

\* A claim is weighed by its own rows.
LEMMA SupportStays ==
  ASSUME NEW k, NEW T, NEW U, NEW T2, NEW U2,
         RowsFor(k, T2) = RowsFor(k, T), RowsFor(k, U2) = RowsFor(k, U)
  PROVE  Support(k, T2, U2) = Support(k, T, U)
BY DEF Support

LEMMA SupportPrimed ==
  ASSUME UNCHANGED reassessed, NEW k
  PROVE  /\ Support(k, links, citations)' = Support(k, links', citations')
         /\ Doubted(k)' = Doubted(k)
BY DEF Support, Weighed, RowsFor, Doubted

LEMMA UpdateKeeps ==
  ASSUME EvidenceInv, NEW k \in CommandIds, claims[k] # Nothing, UpdateSupport(k),
         links' \in [CommandIds -> LinkRows \cup {Nothing}],
         citations' \in [CommandIds -> CitationRows \cup {Nothing}],
         \A c \in CommandIds : links[c] # Nothing => links'[c] = links[c],
         \A c \in CommandIds : citations[c] # Nothing => citations'[c] = citations[c],
         \A c \in CommandIds : links'[c] # Nothing => claims[links'[c].claim] # Nothing,
         \A c \in CommandIds : citations'[c] # Nothing => claims[citations'[c].claim] # Nothing,
         \A j \in CommandIds : j # k => RowsFor(j, links') = RowsFor(j, links),
         \A j \in CommandIds : j # k => RowsFor(j, citations') = RowsFor(j, citations),
         UNCHANGED <<access, evidence, evidenceOps, reassessed, appraisals, syntheses>>
  PROVE  EvidenceInv'
<1> USE DEF EvidenceInv
<1>1. \A j : Support(j, links, citations)' = Support(j, links', citations') /\ Doubted(j)' = Doubted(j)
  BY SupportPrimed
<1> DEFINE now == Support(k, links', citations')
<1>2. now \in Supports /\ now # Nothing /\ (now = "needs-reassessment" <=> Doubted(k))
  BY SupportType
<1>3. \/ claims' = [claims EXCEPT ![k] = now] /\ interrupted' = interrupted \ {k}
      \/ claims' = claims /\ interrupted' = interrupted \cup {k}
  BY DEF UpdateSupport
<1> HIDE DEF now
<1>4. claims \in [CommandIds -> Supports \cup {Nothing}] /\ interrupted \subseteq CommandIds
  BY DEF EvidenceTypeOK
<1>5. /\ claims' \in [CommandIds -> Supports \cup {Nothing}]
      /\ \A j \in CommandIds : claims'[j] = claims[j] \/ (j = k /\ claims'[j] = now)
      /\ \A j \in CommandIds : j \notin interrupted' =>
           (j = k /\ claims'[j] = now) \/ (j # k /\ j \notin interrupted /\ claims'[j] = claims[j])
      /\ interrupted' \subseteq CommandIds
  BY <1>2, <1>3, <1>4
<1>6. EvidenceTypeOK'
  BY <1>5 DEF EvidenceTypeOK
<1>7. ClaimsPlaced'
  BY <1>2, <1>5 DEF ClaimsPlaced, EvidenceTypeOK, LinkRows, CitationRows
<1>8. MarkedAreDoubted' /\ DoubtStays'
  BY <1>1, <1>2, <1>5 DEF MarkedAreDoubted, EvidenceHolds, DoubtStays
<1>9. FlaggedIsDoubted'
  BY <1>1 DEF FlaggedIsDoubted, EvidenceHolds, EvidenceTypeOK
<1>10. SupportIsEarned'
  <2> SUFFICES ASSUME NEW j \in CommandIds, claims'[j] # Nothing
               PROVE  /\ j \notin interrupted' => claims'[j] = Support(j, links', citations')
                      /\ claims'[j] = "substantively-supported" =>
                           Support(j, links', citations') \in {"substantively-supported", "contested"}
    BY <1>1 DEF SupportIsEarned
  <2>1. CASE j = k /\ claims'[j] = now
    BY <2>1 DEF now
  <2>2. CASE claims'[j] = claims[j] /\ (j = k => j \in interrupted')
    <3>1. j # k => Support(j, links', citations') = Support(j, links, citations)
      BY SupportStays
    <3>2. j \notin interrupted' => j # k /\ claims'[j] = Support(j, links', citations')
      BY <3>1, <2>2, <1>5 DEF EvidenceHolds, SupportIsEarned
    <3>3. ASSUME claims'[j] = "substantively-supported"
          PROVE  Support(j, links', citations') \in {"substantively-supported", "contested"}
      <4>1. Support(j, links, citations) \in {"substantively-supported", "contested"}
        BY <3>3, <2>2 DEF EvidenceHolds, SupportIsEarned
      <4> QED BY <4>1, SupportGrows
    <3> QED BY <3>2, <3>3
  <2> QED BY <2>1, <2>2, <1>5
<1> QED BY <1>6, <1>7, <1>8, <1>9, <1>10 DEF EvidenceHolds

LEMMA RecordClaimKeeps ==
  ASSUME EvidenceInv, NEW c \in CommandIds, RecordClaim(c)
  PROVE  EvidenceInv'
<1> USE DEF EvidenceInv, RecordClaim
<1>1. \A j : Support(j, links, citations)' = Support(j, links, citations) /\ Doubted(j)' = Doubted(j)
  BY SupportPrimed
<1>2. claims' \in [CommandIds -> Supports \cup {Nothing}]
  BY DEF EvidenceTypeOK, Supports
<1>3. EvidenceTypeOK'
  BY <1>2 DEF EvidenceTypeOK
<1>4. /\ \A j \in CommandIds : claims'[j] = IF j = c THEN "unverified" ELSE claims[j]
      /\ "unverified" # Nothing
  BY NullEvidenceAssumption DEF EvidenceTypeOK, Supports
<1>5. ClaimsPlaced'
  BY <1>4 DEF ClaimsPlaced, EvidenceTypeOK, LinkRows, CitationRows
<1>6. ~Doubted(c)
  BY DEF ClaimsPlaced, Doubted
<1>7. RowsFor(c, links) = {} /\ RowsFor(c, citations) = {}
  BY DEF ClaimsPlaced, RowsFor
<1>8. Support(c, links, citations) = "unverified"
  BY <1>6, <1>7 DEF Support, Weighed
<1>9. EvidenceHolds'
  BY <1>1, <1>4, <1>6, <1>8 DEF EvidenceHolds, DoubtStays, SupportIsEarned, FlaggedIsDoubted, EvidenceTypeOK
<1>10. MarkedAreDoubted'
  BY <1>1, <1>4 DEF MarkedAreDoubted
<1> QED BY <1>3, <1>5, <1>9, <1>10

LEMMA LinkKeeps ==
  ASSUME EvidenceInv, NEW c \in CommandIds, NEW k \in CommandIds, NEW e \in CommandIds,
         NEW role \in {"supporting", "challenging"}, LinkClaimEvidence(c, k, e, role)
  PROVE  EvidenceInv'
<1> DEFINE row == [claim |-> k, item |-> e, role |-> role, status |-> LinkStatus(evidence[e])]
<1>1. row \in LinkRows /\ row # Nothing /\ row.claim = k
  BY NullEvidenceAssumption DEF LinkRows, LinkStatus, Supports
<1>2. links' = [links EXCEPT ![c] = row] /\ links[c] = Nothing /\ UNCHANGED citations
  BY DEF LinkClaimEvidence
<1> HIDE DEF row
<1>3. links \in [CommandIds -> LinkRows \cup {Nothing}] /\ DOMAIN links = CommandIds
  BY DEF EvidenceInv, EvidenceTypeOK
<1>4. \A j \in CommandIds : j # k => RowsFor(j, links') = RowsFor(j, links)
  <2> SUFFICES ASSUME NEW j \in CommandIds, j # k PROVE RowsFor(j, links') = RowsFor(j, links)
    OBVIOUS
  <2>1. row.claim # j /\ row # Nothing
    BY <1>1, <1>2
  <2>2. links' = [links EXCEPT ![c] = row] /\ links[c] = Nothing /\ DOMAIN links = CommandIds
    BY <1>1, <1>2, <1>3
  <2> QED BY <2>1, <2>2 DEF RowsFor
<1>5. /\ links' \in [CommandIds -> LinkRows \cup {Nothing}]
      /\ \A d \in CommandIds : links[d] # Nothing => links'[d] = links[d]
      /\ \A d \in CommandIds : links'[d] # Nothing => claims[links'[d].claim] # Nothing
  BY <1>1, <1>2, <1>3 DEF EvidenceInv, ClaimsPlaced, LinkClaimEvidence
<1>6. /\ claims[k] # Nothing /\ UpdateSupport(k)
      /\ UNCHANGED <<access, evidence, evidenceOps, reassessed, appraisals, syntheses>>
  BY DEF LinkClaimEvidence
<1>7. /\ citations' \in [CommandIds -> CitationRows \cup {Nothing}]
      /\ \A d \in CommandIds : citations'[d] # Nothing => claims[citations'[d].claim] # Nothing
  BY <1>2 DEF EvidenceInv, EvidenceTypeOK, ClaimsPlaced
<1> QED BY <1>2, <1>4, <1>5, <1>6, <1>7, UpdateKeeps

LEMMA CitationKeeps ==
  ASSUME EvidenceInv, NEW c \in CommandIds, NEW k \in CommandIds, NEW s \in Sources,
         NEW a, VerifyCitation(c, k, s, a)
  PROVE  EvidenceInv'
<1>1. PICK row \in CitationRows : citations' = [citations EXCEPT ![c] = row] /\ row.claim = k
  <2> DEFINE found == IF ~access[s].kept THEN "unavailable" ELSE IF access[s].full THEN "full-text" ELSE "limited"
             identity == IF s \in Identified THEN "identity-resolved" ELSE "fields-missing"
             linked == \E l \in RowsFor(k, links) : /\ l.role = "supporting" /\ evidence[l.item].source = s
                                                    /\ l.status = "substantively-supported"
             support == IF a = "no" THEN "unsupported"
                        ELSE IF linked /\ found = "full-text" /\ s \in Identified THEN "substantively-supported"
                        ELSE IF found # "full-text" /\ a # "yes" THEN "unsupported" ELSE "unverified"
             row == [claim |-> k, source |-> s, identity |-> identity, access |-> found, support |-> support]
  <2>1. citations' = [citations EXCEPT ![c] = row]
    BY DEF VerifyCitation
  <2>2. found \in {"full-text", "limited", "unavailable"} /\ identity \in Supports /\ support \in Supports
    BY DEF Supports
  <2> HIDE DEF found, identity, support
  <2>3. row \in CitationRows /\ row.claim = k
    BY <2>2 DEF CitationRows
  <2> QED BY <2>1, <2>3
<1>2. row # Nothing /\ citations[c] = Nothing /\ UNCHANGED links
  BY NullEvidenceAssumption DEF VerifyCitation
<1>3. citations \in [CommandIds -> CitationRows \cup {Nothing}] /\ DOMAIN citations = CommandIds
  BY DEF EvidenceInv, EvidenceTypeOK
<1>4. \A j \in CommandIds : j # k => RowsFor(j, citations') = RowsFor(j, citations)
  <2> SUFFICES ASSUME NEW j \in CommandIds, j # k PROVE RowsFor(j, citations') = RowsFor(j, citations)
    OBVIOUS
  <2>1. row.claim # j /\ row # Nothing
    BY <1>1, <1>2
  <2>2. citations' = [citations EXCEPT ![c] = row] /\ citations[c] = Nothing /\ DOMAIN citations = CommandIds
    BY <1>1, <1>2, <1>3
  <2> QED BY <2>1, <2>2 DEF RowsFor
<1>5. /\ citations' \in [CommandIds -> CitationRows \cup {Nothing}]
      /\ \A d \in CommandIds : citations[d] # Nothing => citations'[d] = citations[d]
      /\ \A d \in CommandIds : citations'[d] # Nothing => claims[citations'[d].claim] # Nothing
  BY <1>1, <1>2, <1>3 DEF EvidenceInv, ClaimsPlaced, VerifyCitation
<1>6. /\ claims[k] # Nothing /\ UpdateSupport(k)
      /\ UNCHANGED <<access, evidence, evidenceOps, reassessed, appraisals, syntheses>>
  BY DEF VerifyCitation
<1>7. /\ links' \in [CommandIds -> LinkRows \cup {Nothing}]
      /\ \A d \in CommandIds : links'[d] # Nothing => claims[links'[d].claim] # Nothing
  BY <1>2 DEF EvidenceInv, EvidenceTypeOK, ClaimsPlaced
<1> QED BY <1>2, <1>4, <1>5, <1>6, <1>7, UpdateKeeps

\* A notice marks every claim whose evidence is from the source.
LEMMA NoticeKeeps ==
  ASSUME EvidenceInv, NEW c \in CommandIds, NEW s \in Sources, ApplySourceNotice(c, s)
  PROVE  EvidenceInv'
<1> USE DEF EvidenceInv
<1>0. UNCHANGED <<access, evidence, evidenceOps, links, citations, appraisals, syntheses, interrupted>>
  BY DEF ApplySourceNotice
<1> DEFINE marked == LinkedTo(s)
           new == {[claim |-> k, source |-> s, notice |-> c] : k \in marked}
<1>1. CASE /\ reassessed' = reassessed \cup new
           /\ claims' = [k \in CommandIds |-> IF k \in marked THEN "needs-reassessment" ELSE claims[k]]
  <2>1. /\ marked \subseteq CommandIds
        /\ new \subseteq [claim : CommandIds, source : Sources, notice : CommandIds]
    BY DEF LinkedTo
  <2>2. \A k \in CommandIds : Doubted(k)' <=> Doubted(k) \/ k \in marked
    <3>1. \A k \in marked : [claim |-> k, source |-> s, notice |-> c] \in new
      OBVIOUS
    <3>2. \A k \in CommandIds : (\E r \in new : r.claim = k) <=> k \in marked
      <4>1. \A r \in new : \E k \in marked : r = [claim |-> k, source |-> s, notice |-> c]
        OBVIOUS
      <4> HIDE DEF new, marked
      <4>2. \A r \in new : r.claim \in marked
        BY <4>1
      <4>3. \A k \in marked : [claim |-> k, source |-> s, notice |-> c].claim = k
        OBVIOUS
      <4> QED BY <3>1, <4>2, <4>3
    <3> HIDE DEF new
    <3> QED BY <1>1, <3>2 DEF Doubted
  <2> HIDE DEF marked
  <2>3. "needs-reassessment" # Nothing /\ "needs-reassessment" \in Supports
    BY NullEvidenceAssumption DEF Supports
  <2>4. EvidenceTypeOK'
    BY <1>0, <1>1, <2>1, <2>3 DEF EvidenceTypeOK
  <2>5. \A k \in CommandIds : claims'[k] = IF k \in marked THEN "needs-reassessment" ELSE claims[k]
    BY <1>1
  <2>6. ClaimsPlaced'
    <3>1. \A k \in CommandIds : claims[k] # Nothing => claims'[k] # Nothing
      BY <2>3, <2>5
    <3>2. \A r \in new : claims'[r.claim] # Nothing
      BY <2>1, <2>3, <2>5
    <3> HIDE DEF new
    <3> QED BY <1>0, <1>1, <3>1, <3>2 DEF ClaimsPlaced, EvidenceTypeOK, LinkRows, CitationRows
  <2>7. MarkedAreDoubted' /\ DoubtStays'
    BY <2>2, <2>5 DEF MarkedAreDoubted, DoubtStays, EvidenceHolds
  <2>8. FlaggedIsDoubted'
    BY <1>0, <2>2 DEF FlaggedIsDoubted, EvidenceHolds, EvidenceTypeOK
  <2>9. SupportIsEarned'
    <3> SUFFICES ASSUME NEW k \in CommandIds, claims'[k] # Nothing
                 PROVE  /\ k \notin interrupted' => claims'[k] = Support(k, links, citations)'
                        /\ claims'[k] = "substantively-supported" =>
                             Support(k, links, citations)' \in {"substantively-supported", "contested"}
      BY DEF SupportIsEarned
    <3>1. CASE Doubted(k)'
      <4>1. claims'[k] = "needs-reassessment"
        BY <3>1, <2>7 DEF DoubtStays
      <4>2. Support(k, links, citations)' = "needs-reassessment"
        BY <3>1 DEF Support
      <4> QED BY <4>1, <4>2
    <3>2. CASE ~Doubted(k)'
      <4>1. ~Doubted(k) /\ claims'[k] = claims[k]
        BY <3>2, <2>2, <2>5
      <4>2. Support(k, links, citations)' = Support(k, links, citations)
        BY <3>2, <4>1, <1>0 DEF Support, Weighed, RowsFor
      <4> QED BY <1>0, <4>1, <4>2 DEF EvidenceHolds, SupportIsEarned
    <3> QED BY <3>1, <3>2
  <2> QED BY <2>4, <2>6, <2>7, <2>8, <2>9 DEF EvidenceHolds
<1>2. CASE UNCHANGED <<reassessed, claims>>
  <2>1. \A j : Support(j, links, citations)' = Support(j, links, citations) /\ Doubted(j)' = Doubted(j)
    BY <1>0, <1>2, SupportPrimed
  <2>2. EvidenceTypeOK' /\ ClaimsPlaced'
    BY <1>0, <1>2 DEF EvidenceTypeOK, ClaimsPlaced
  <2>3. MarkedAreDoubted' /\ EvidenceHolds'
    BY <1>0, <1>2, <2>1 DEF MarkedAreDoubted, EvidenceHolds, DoubtStays, SupportIsEarned, FlaggedIsDoubted
  <2> QED BY <2>2, <2>3
<1> QED BY <1>1, <1>2 DEF ApplySourceNotice

\* Nothing changes that is said of claims.
LEMMA ClaimsStay ==
  ASSUME EvidenceInv, EvidenceTypeOK', FlaggedIsDoubted',
         UNCHANGED <<claims, links, citations, reassessed, interrupted>>
  PROVE  EvidenceInv'
<1>1. \A j : Support(j, links, citations)' = Support(j, links, citations) /\ Doubted(j)' = Doubted(j)
  BY SupportPrimed
<1>2. ClaimsPlaced' /\ MarkedAreDoubted'
  BY <1>1 DEF EvidenceInv, ClaimsPlaced, MarkedAreDoubted
<1>3. DoubtStays' /\ SupportIsEarned'
  BY <1>1 DEF EvidenceInv, EvidenceHolds, DoubtStays, SupportIsEarned
<1> QED BY <1>2, <1>3 DEF EvidenceInv, EvidenceHolds

LEMMA EvidenceStepKeeps == ASSUME EvidenceInv, EvidenceNext PROVE EvidenceInv'
<1>0. FlaggedIsDoubted /\ EvidenceTypeOK
  BY DEF EvidenceInv, EvidenceHolds
<1>1. ASSUME NEW s \in Sources, SourceChanges(s) PROVE EvidenceInv'
  <2>1. access' \in [Sources -> [full : BOOLEAN, kept : BOOLEAN]]
    <3>1. access \in [Sources -> [full : BOOLEAN, kept : BOOLEAN]]
      BY <1>0 DEF EvidenceTypeOK
    <3>2. CASE access' = [access EXCEPT ![s].full = TRUE]
      BY ONLY <3>1, <3>2
    <3>3. CASE access' = [access EXCEPT ![s].kept = FALSE]
      BY ONLY <3>1, <3>3
    <3> QED BY <1>1, <3>2, <3>3 DEF SourceChanges
  <2>2. EvidenceTypeOK' /\ FlaggedIsDoubted'
    BY <1>0, <1>1, <2>1 DEF SourceChanges, EvidenceTypeOK, FlaggedIsDoubted, Doubted
  <2> QED BY <1>1, <2>2, ClaimsStay DEF SourceChanges
<1>2. ASSUME NEW c \in CommandIds, NEW item \in Items, RecordEvidenceItem(c, item) PROVE EvidenceInv'
  <2>1. /\ evidence' \in [CommandIds -> Items \cup {Nothing}]
        /\ evidenceOps' \in
             [CommandIds -> [item : Items, status : {"pending", "complete", "failed"}] \cup {Nothing}]
    BY <1>0, <1>2 DEF RecordEvidenceItem, EvidenceTypeOK
  <2>2. EvidenceTypeOK' /\ FlaggedIsDoubted'
    BY <1>0, <1>2, <2>1 DEF RecordEvidenceItem, EvidenceTypeOK, FlaggedIsDoubted, Doubted
  <2> QED BY <1>2, <2>2, ClaimsStay DEF RecordEvidenceItem
<1>3. ASSUME NEW c \in CommandIds, NEW s \in Sources, NEW m \in Methods, NEW i, NEW a,
             RecordAppraisal(c, s, m, i, a)
      PROVE  EvidenceInv'
  <2>1. appraisals' \in [CommandIds -> [source : Sources, method : Methods, result : {"pass", "needs-attention"}]
                                       \cup {Nothing}]
    BY <1>0, <1>3 DEF RecordAppraisal, EvidenceTypeOK
  <2>2. EvidenceTypeOK' /\ FlaggedIsDoubted'
    BY <1>0, <1>3, <2>1 DEF RecordAppraisal, EvidenceTypeOK, FlaggedIsDoubted, Doubted
  <2> QED BY <1>3, <2>2, ClaimsStay DEF RecordAppraisal
<1>4. ASSUME NEW c \in CommandIds, NEW K \in SUBSET CommandIds, SynthesizeClaims(c, K) PROVE EvidenceInv'
  <2> DEFINE row == [claims |-> K, flags |-> {k \in K : claims[k] = "needs-reassessment" \/ Doubted(k)}]
  <2>1. syntheses' = [syntheses EXCEPT ![c] = row]
    BY <1>4 DEF SynthesizeClaims
  <2>2. row \in [claims : SUBSET CommandIds, flags : SUBSET CommandIds] /\ \A k \in row.flags : Doubted(k)
    BY DEF EvidenceInv, MarkedAreDoubted
  <2> HIDE DEF row
  <2>3. EvidenceTypeOK'
    BY <1>0, <1>4, <2>1, <2>2 DEF SynthesizeClaims, EvidenceTypeOK
  <2>4. \A k : Doubted(k)' = Doubted(k)
    BY <1>4 DEF SynthesizeClaims, Doubted
  <2>5. FlaggedIsDoubted'
    BY <1>0, <2>1, <2>2, <2>4 DEF EvidenceTypeOK, FlaggedIsDoubted
  <2> QED BY <1>4, <2>3, <2>5, ClaimsStay DEF SynthesizeClaims
<1>5. ASSUME UNCHANGED evidenceVars PROVE EvidenceInv'
  BY <1>0, <1>5, ClaimsStay DEF evidenceVars, EvidenceTypeOK, FlaggedIsDoubted, Doubted
<1>6. ASSUME EvidenceSteps PROVE EvidenceInv'
  <2>1. \A s \in Sources, x \in BOOLEAN : [source |-> s, excerpt |-> x] \in Items
    BY DEF Items
  <2> QED BY <1>1, <1>2, <1>3, <1>4, <1>6, <2>1, RecordClaimKeeps, LinkKeeps, CitationKeeps, NoticeKeeps
          DEF EvidenceSteps
<1> QED BY <1>5, <1>6 DEF EvidenceNext

LEMMA EvidenceInitially == EvidenceInit => EvidenceInv
<1> SUFFICES ASSUME EvidenceInit PROVE EvidenceInv
  OBVIOUS
<1> USE DEF EvidenceInit, NoRows
<1>1. EvidenceTypeOK
  BY DEF EvidenceTypeOK
<1>2. \A c \in CommandIds : claims[c] = Nothing /\ links[c] = Nothing /\ citations[c] = Nothing /\ syntheses[c] = Nothing
  OBVIOUS
<1>3. \A k \in CommandIds : ~Doubted(k) /\ claims[k] # "needs-reassessment"
  BY <1>2, NullEvidenceAssumption DEF Doubted, Supports
<1>4. ClaimsPlaced /\ MarkedAreDoubted
  BY <1>2, <1>3 DEF ClaimsPlaced, MarkedAreDoubted
<1>5. EvidenceHolds
  BY <1>2, <1>3 DEF EvidenceHolds, DoubtStays, SupportIsEarned, FlaggedIsDoubted
<1> QED BY <1>1, <1>4, <1>5 DEF EvidenceInv

LEMMA EvidenceStutters == ASSUME EvidenceInv, UNCHANGED evidenceVars PROVE EvidenceInv'
BY ClaimsStay DEF evidenceVars, EvidenceInv, EvidenceHolds, EvidenceTypeOK, FlaggedIsDoubted, Doubted

LEMMA EvidenceInvariant == EvidenceSpec => []EvidenceInv
<1>1. EvidenceInv /\ [EvidenceNext]_<<branchVars, evidenceVars>> => EvidenceInv'
  BY EvidenceStepKeeps, EvidenceStutters
<1> QED BY <1>1, EvidenceInitially, PTL DEF EvidenceSpec

\* Sources, items, claims, links, citations, notices, appraisals and syntheses keep
\* their types.
THEOREM EvidenceTypes == EvidenceSpec => []EvidenceTypeOK
<1>1. EvidenceInv => EvidenceTypeOK
  BY DEF EvidenceInv
<1> QED BY <1>1, EvidenceInvariant, PTL

\* A claim once in doubt stays marked, shows no support that its links and citations
\* do not give, and a synthesis flags nothing but doubt: updateClaimSupport and
\* applySourceNotice of src/evidence, in any order and cut short anywhere.
THEOREM EvidenceIsKept == EvidenceSpec => []EvidenceHolds
<1>1. EvidenceInv => EvidenceHolds
  BY DEF EvidenceInv
<1> QED BY <1>1, EvidenceInvariant, PTL

-----------------------------------------------------------------------------
\* Drafts, cycles and exports

AsksOwner == "record-owner-cycle-disposition"

\* Assertions rest on evidence that is there.
AssertionsPlaced ==
  \A c \in CommandIds :
    LET a == attached["assertions"][c]
    IN  a # Nothing /\ a.item # Nothing => evidence[a.item] # Nothing

\* A cycle counts whether anybody asked for a revision, and what was asked of a cycle is
\* of one that is there.
CyclesCounted ==
  /\ \A x \in dispositions : cycles[x.cycle] # Nothing
  /\ \A k \in CommandIds :
       /\ IsFiniteSet(Askers(k))
       /\ cycles[k] # Nothing =>
            /\ cycles[k].count = 0 <=> Askers(k) = {}
            /\ cycles[k].status = "revision-requested" => cycles[k].count = 1

\* A disposition is noted, unless it was cut or its command used for something else.
DispositionsNoted ==
  \A x \in dispositions : x.command \in cut \/ Done(x.command, AsksOwner, "cycles")

WritingInv ==
  EvidenceInv /\ WritingTypeOK /\ AssertionsPlaced /\ CyclesCounted /\ DispositionsNoted /\ WritingHolds

\* The row that a note points at.
HasRow(table, c) ==
  \/ table = "drafts" /\ drafts[c] # Nothing
  \/ table = "cycles" /\ cycles[c] # Nothing
  \/ table \in Kinds /\ exports[table][c] # Nothing
  \/ table \in Tables /\ attached[table][c] # Nothing

NotesTyped == writingOps \in [CommandIds -> NotedRows \cup {Nothing}]
NotesPlaced ==
  \A c \in CommandIds : writingOps[c] # Nothing => HasRow(writingOps[c].table, writingOps[c].entity)

LEMMA NotesFollow == NotesTyped => (NotedHasRow <=> NotesPlaced)
<1> SUFFICES ASSUME NotesTyped PROVE NotedHasRow <=> NotesPlaced
  OBVIOUS
<1>1. \A c \in CommandIds : writingOps[c] # Nothing => writingOps[c].table \in NotedTables
  BY DEF NotesTyped, NotedRows
<1>2. /\ "drafts" \notin Kinds \cup Tables /\ "cycles" \notin Kinds \cup Tables
      /\ Kinds \cap Tables = {} /\ "drafts" # "cycles"
  BY DEF Kinds, Single, Tables
<1>3. SUFFICES ASSUME NEW c \in CommandIds, writingOps[c] # Nothing
      PROVE  LET op == writingOps[c]
                 table == CASE op.table = "drafts" -> drafts
                            [] op.table = "cycles" -> cycles
                            [] op.table \in Kinds -> exports[op.table]
                            [] OTHER -> attached[op.table]
             IN  table[op.entity] # Nothing <=> HasRow(op.table, op.entity)
  BY DEF NotedHasRow, NotesPlaced
<1> QED BY <1>1, <1>2, <1>3 DEF HasRow, NotedTables

LEMMA NoteKeeps ==
  ASSUME WritingTypeOK, NotedHasRow, NEW c \in CommandIds, NEW kind \in NotedKinds, NEW table \in NotedTables,
         NEW entity \in CommandIds, Note(c, kind, table, entity), HasRow(table, entity)',
         \A t \in NotedTables, e \in CommandIds : HasRow(t, e) => HasRow(t, e)',
         kind = AsksOwner <=> table = "cycles" /\ kind # "open-review-cycle"
  PROVE  /\ writingOps' \in [CommandIds -> NotedRows \cup {Nothing}]
         /\ cut' \subseteq CommandIds /\ cut \subseteq cut'
         /\ NotedHasRow'
         /\ \A x \in CommandIds : x \in cut \/ Done(x, AsksOwner, "cycles")
                                  => x \in cut' \/ Done(x, AsksOwner, "cycles")'
         /\ kind = AsksOwner => c \in cut' \/ Done(c, AsksOwner, "cycles")'
         /\ \A x \in CommandIds, t \in Kinds : Done(x, t, t)' => Done(x, t, t) \/ (x = c /\ table = t)
<1> DEFINE first == IF writingOps[c] = Nothing THEN kind ELSE writingOps[c].kind
           row == [kind |-> first, table |-> table, entity |-> entity]
<1>0. writingOps \in [CommandIds -> NotedRows \cup {Nothing}] /\ cut \subseteq CommandIds
  BY DEF WritingTypeOK
<1>1. first \in NotedKinds
  BY <1>0 DEF NotedRows
<1>2. row \in NotedRows /\ row # Nothing /\ row.kind = first /\ row.table = table /\ row.entity = entity
  BY <1>1, NullWritingAssumption DEF NotedRows
<1>3. \/ /\ writingOps' = [writingOps EXCEPT ![c] = row]
         /\ cut' = IF first = kind THEN cut ELSE cut \cup {c}
      \/ cut' = cut \cup {c} /\ writingOps' = writingOps
  BY DEF Note
<1>4. writingOps[c] # Nothing => first = writingOps[c].kind
  OBVIOUS
<1>5. writingOps[c] = Nothing => first = kind
  OBVIOUS
<1> HIDE DEF first, row
<1>6. writingOps' \in [CommandIds -> NotedRows \cup {Nothing}] /\ cut' \subseteq CommandIds /\ cut \subseteq cut'
  BY <1>0, <1>2, <1>3
<1>7. NotedHasRow'
  <2>1. \A x \in CommandIds : writingOps[x] # Nothing =>
          /\ HasRow(writingOps[x].table, writingOps[x].entity)
          /\ writingOps[x].table \in NotedTables /\ writingOps[x].entity \in CommandIds
    BY <1>0, NotesFollow DEF NotesTyped, NotedRows, NotesPlaced
  <2>2. NotesPlaced'
    <3> SUFFICES ASSUME NEW x \in CommandIds, writingOps'[x] # Nothing
                 PROVE  HasRow(writingOps[x].table, writingOps[x].entity)'
      BY DEF NotesPlaced
    <3>1. CASE writingOps'[x] = writingOps[x]
      <4>1. HasRow(writingOps[x].table, writingOps[x].entity)
        BY <3>1, <2>1
      <4>2. writingOps[x].table \in NotedTables /\ writingOps[x].entity \in CommandIds
        BY <3>1, <2>1
      <4> QED BY <4>1, <4>2, <3>1 DEF HasRow
    <3>2. CASE writingOps'[x] = row
      BY <3>2, <1>2 DEF HasRow
    <3> QED BY <3>1, <3>2, <1>0, <1>3
  <2>3. NotesTyped'
    BY <1>6 DEF NotesTyped
  <2>4. NotesTyped' => (NotedHasRow' <=> NotesPlaced')
    BY NotesFollow, PTL
  <2> QED BY <2>2, <2>3, <2>4
<1>8. \A x \in CommandIds : x \in cut \/ Done(x, AsksOwner, "cycles")
                            => x \in cut' \/ Done(x, AsksOwner, "cycles")'
  <2> SUFFICES ASSUME NEW x \in CommandIds, Done(x, AsksOwner, "cycles")
               PROVE  x \in cut' \/ Done(x, AsksOwner, "cycles")'
    BY <1>6
  <2>1. CASE x = c /\ writingOps' = [writingOps EXCEPT ![c] = row] /\ first = kind
    <3>1. kind = AsksOwner /\ table = "cycles"
      BY <2>1, <1>4 DEF Done, AsksOwner
    <3> QED BY <2>1, <3>1, <1>0, <1>2 DEF Done
  <2> QED BY <2>1, <1>0, <1>3 DEF Done
<1>9. kind = AsksOwner => c \in cut' \/ Done(c, AsksOwner, "cycles")'
  BY <1>0, <1>2, <1>3 DEF Done
<1>10. \A x \in CommandIds, t \in Kinds : Done(x, t, t)' => Done(x, t, t) \/ (x = c /\ table = t)
  BY <1>0, <1>2, <1>3 DEF Done
<1> QED BY <1>6, <1>7, <1>8, <1>9, <1>10

LEMMA RowsStay ==
  ASSUME WritingTypeOK,
         \A e \in CommandIds : drafts[e] # Nothing => drafts'[e] # Nothing,
         \A e \in CommandIds : cycles[e] # Nothing => cycles'[e] # Nothing,
         \A t \in Kinds, e \in CommandIds : exports[t][e] # Nothing => exports'[t][e] # Nothing,
         \A t \in Tables, e \in CommandIds : attached[t][e] # Nothing => attached'[t][e] # Nothing
  PROVE  \A t \in NotedTables, e \in CommandIds : HasRow(t, e) => HasRow(t, e)'
BY DEF HasRow

\* What is asked of cycles stays while more commands are cut.
LEMMA AskedStays ==
  ASSUME WritingInv, UNCHANGED <<cycles, dispositions>>, cut \subseteq cut'
  PROVE  CyclesCounted' /\ OneRevisionAsked'
<1>1. \A k : Askers(k)' = Askers(k)
  BY DEF Askers
<1>2. CyclesCounted'
  BY <1>1 DEF WritingInv, CyclesCounted
<1>3. OneRevisionAsked'
  BY <1>1 DEF WritingInv, WritingHolds, OneRevisionAsked
<1> QED BY <1>2, <1>3

\* Rows of a draft are written and noted.
LEMMA DraftsKeep ==
  ASSUME WritingInv, NEW c \in CommandIds, NEW kind \in NotedKinds, NEW table \in {"drafts"} \cup Tables,
         NEW entity \in CommandIds, Note(c, kind, table, entity), kind # AsksOwner, HasRow(table, entity)',
         drafts' \in [CommandIds -> DraftRows \cup {Nothing}],
         attached' \in [Tables -> [CommandIds -> AttachedRows \cup {Nothing}]],
         \A e \in CommandIds : drafts[e] # Nothing => drafts'[e] # Nothing,
         \A t \in Tables, e \in CommandIds : attached[t][e] # Nothing => attached'[t][e] # Nothing,
         AssertionsPlaced', EvidenceInv',
         UNCHANGED <<cycles, exports, files, denied, dispositions>>
  PROVE  WritingInv'
<1>1. WritingTypeOK /\ NotedHasRow
  BY DEF WritingInv, WritingHolds
<1>2. /\ table \in NotedTables /\ table \notin Kinds
      /\ kind = AsksOwner <=> table = "cycles" /\ kind # "open-review-cycle"
  BY DEF NotedTables, Kinds, Single, Tables
<1>3. \A t \in NotedTables, e \in CommandIds : HasRow(t, e) => HasRow(t, e)'
  BY <1>1, RowsStay
<1>4. /\ writingOps' \in [CommandIds -> NotedRows \cup {Nothing}]
      /\ cut' \subseteq CommandIds /\ cut \subseteq cut'
      /\ NotedHasRow'
      /\ \A x \in CommandIds : x \in cut \/ Done(x, AsksOwner, "cycles")
                               => x \in cut' \/ Done(x, AsksOwner, "cycles")'
      /\ \A x \in CommandIds, t \in Kinds : Done(x, t, t)' => Done(x, t, t) \/ (x = c /\ table = t)
  BY <1>1, <1>2, <1>3, NoteKeeps
<1>5. WritingTypeOK'
  BY <1>1, <1>4 DEF WritingTypeOK
<1>6. CyclesCounted' /\ OneRevisionAsked'
  BY <1>4, AskedStays
<1>7. DispositionsNoted'
  BY <1>1, <1>4 DEF WritingInv, DispositionsNoted, WritingTypeOK
<1>8. OmittedIsNotShown'
  BY <1>2, <1>4 DEF WritingInv, WritingHolds, OmittedIsNotShown
<1> QED BY <1>4, <1>5, <1>6, <1>7, <1>8 DEF WritingInv, WritingHolds

LEMMA AttachKeeps ==
  ASSUME WritingInv, NEW c \in CommandIds, NEW table \in Tables, NEW on \in CommandIds \cup {Nothing},
         NEW item \in CommandIds \cup {Nothing}, item # Nothing => evidence[item] # Nothing,
         Attach(c, table, on, item)
  PROVE  WritingInv'
<1> DEFINE row == [on |-> on, item |-> item]
<1>1. row \in AttachedRows /\ row # Nothing /\ row.item = item
  BY NullWritingAssumption DEF AttachedRows
<1>2. /\ attached' = [attached EXCEPT ![table][c] = row]
      /\ attached \in [Tables -> [CommandIds -> AttachedRows \cup {Nothing}]]
  BY DEF Attach, WritingInv, WritingTypeOK
<1> HIDE DEF row
<1>3. /\ attached' \in [Tables -> [CommandIds -> AttachedRows \cup {Nothing}]]
      /\ \A t \in Tables, e \in CommandIds : attached'[t][e] = IF t = table /\ e = c THEN row ELSE attached[t][e]
  BY <1>1, <1>2
<1>4. "assertions" \in Tables
  BY DEF Tables
<1>5. AssertionsPlaced'
  BY <1>1, <1>3, <1>4 DEF WritingInv, AssertionsPlaced, Attach, evidenceVars
<1>6. HasRow(table, c)'
  BY <1>1, <1>3 DEF HasRow
<1>7. EvidenceInv'
  BY EvidenceStutters DEF WritingInv, Attach
<1>8. table \in NotedKinds /\ table # AsksOwner
  BY DEF NotedKinds, Tables, AsksOwner
<1>11. Note(c, table, table, c)
  BY DEF Attach
<1>9. UNCHANGED <<drafts, cycles, exports, files, denied, dispositions>>
  BY DEF Attach
<1>10. drafts' \in [CommandIds -> DraftRows \cup {Nothing}]
  BY <1>9 DEF WritingInv, WritingTypeOK
<1> QED BY <1>1, <1>3, <1>5, <1>6, <1>7, <1>8, <1>9, <1>10, <1>11, DraftsKeep

LEMMA DraftWritten ==
  ASSUME WritingInv, NEW c \in CommandIds, NEW e \in CommandIds, NEW row \in DraftRows,
         NEW kind \in {"record-draft", "request-draft-revision", "complete-insufficient-evidence"},
         drafts' = [drafts EXCEPT ![e] = row], Note(c, kind, "drafts", e),
         UNCHANGED <<evidenceVars, branchVars, attached, cycles, exports, files, denied, dispositions>>
  PROVE  WritingInv'
<1>1. kind \in NotedKinds /\ kind # AsksOwner
  BY DEF NotedKinds, AsksOwner
<1>2. UNCHANGED <<attached, cycles, exports, files, denied, dispositions>>
  OBVIOUS
<1>3. /\ drafts \in [CommandIds -> DraftRows \cup {Nothing}]
      /\ attached \in [Tables -> [CommandIds -> AttachedRows \cup {Nothing}]]
  BY DEF WritingInv, WritingTypeOK
<1>4. row # Nothing
  BY NullWritingAssumption
<1>5. /\ drafts' \in [CommandIds -> DraftRows \cup {Nothing}]
      /\ \A x \in CommandIds : drafts[x] # Nothing => drafts'[x] # Nothing
      /\ HasRow("drafts", e)'
  BY <1>3, <1>4 DEF HasRow
<1>6. AssertionsPlaced' /\ EvidenceInv'
  BY <1>2, EvidenceStutters DEF WritingInv, AssertionsPlaced, evidenceVars
<1> QED BY <1>1, <1>2, <1>3, <1>5, <1>6, DraftsKeep

LEMMA DraftKeeps ==
  ASSUME WritingInv, NEW c \in CommandIds, NEW d \in CommandIds,
         \/ \E prior \in CommandIds \cup {Nothing}, n \in 0 .. MaxVersion : RecordDraft(c, n, prior)
         \/ RequestDraftRevision(c, d)
         \/ CompleteWithInsufficientEvidence(c, d)
  PROVE  WritingInv'
<1>0. drafts \in [CommandIds -> DraftRows \cup {Nothing}]
  BY DEF WritingInv, WritingTypeOK
<1>1. ASSUME NEW prior \in CommandIds \cup {Nothing}, NEW n \in 0 .. MaxVersion, RecordDraft(c, n, prior)
      PROVE  WritingInv'
  <2>1. [prior |-> prior, version |-> n, finding |-> "asked"] \in DraftRows
    BY DEF DraftRows
  <2> QED BY <1>1, <2>1, DraftWritten DEF RecordDraft
<1>2. CASE RequestDraftRevision(c, d)
  <2>1. drafts[d] \in DraftRows /\ drafts[d].version < MaxVersion
    BY <1>0, <1>2 DEF RequestDraftRevision
  <2> DEFINE row == [prior |-> d, version |-> drafts[d].version + 1, finding |-> drafts[d].finding]
  <2>4. drafts' = [drafts EXCEPT ![c] = row]
    BY <1>2 DEF RequestDraftRevision
  <2>5. drafts[d].version + 1 \in 0 .. MaxVersion /\ drafts[d].finding \in {"asked", "insufficient-evidence"}
    BY <2>1, WritingAssumption DEF DraftRows
  <2>6. row \in DraftRows
    BY <2>5 DEF DraftRows
  <2> HIDE DEF row
  <2> QED BY <1>2, <2>4, <2>6, DraftWritten DEF RequestDraftRevision
<1>3. CASE CompleteWithInsufficientEvidence(c, d)
  <2>1. [drafts[d] EXCEPT !.finding = "insufficient-evidence"] \in DraftRows
    BY <1>0, <1>3 DEF CompleteWithInsufficientEvidence, DraftRows
  <2>2. drafts' = [drafts EXCEPT ![d] = [drafts[d] EXCEPT !.finding = "insufficient-evidence"]]
    BY <1>0, <1>3 DEF CompleteWithInsufficientEvidence
  <2> QED BY <1>3, <2>1, <2>2, DraftWritten DEF CompleteWithInsufficientEvidence
<1> QED BY <1>1, <1>2, <1>3

\* A cycle is written and noted.
LEMMA CyclesKeep ==
  ASSUME WritingInv, NEW c \in CommandIds, NEW k \in CommandIds, NEW row \in CycleRows,
         NEW kind \in {"open-review-cycle", AsksOwner}, Note(c, kind, "cycles", k),
         cycles' = [cycles EXCEPT ![k] = row],
         dispositions' \subseteq [cycle : CommandIds, command : CommandIds, wish : Wishes],
         \A x \in dispositions' : x \in dispositions \/ (kind = AsksOwner /\ x.command = c),
         CyclesCounted', OneRevisionAsked',
         UNCHANGED <<evidenceVars, branchVars, drafts, attached, exports, files, denied>>
  PROVE  WritingInv'
<1>1. WritingTypeOK /\ NotedHasRow
  BY DEF WritingInv, WritingHolds
<1>2. /\ kind \in NotedKinds /\ "cycles" \in NotedTables /\ "cycles" \notin Kinds
      /\ kind = AsksOwner <=> "cycles" = "cycles" /\ kind # "open-review-cycle"
  BY DEF NotedKinds, NotedTables, Kinds, Single, AsksOwner
<1>3. row # Nothing
  BY NullWritingAssumption
<1>4. cycles' \in [CommandIds -> CycleRows \cup {Nothing}] /\ cycles'[k] = row
  BY <1>1 DEF WritingTypeOK
<1>5. \A e \in CommandIds : cycles[e] # Nothing => cycles'[e] # Nothing
  BY <1>1, <1>3 DEF WritingTypeOK
<1>6. \A t \in NotedTables, e \in CommandIds : HasRow(t, e) => HasRow(t, e)'
  BY <1>1, <1>5, RowsStay
<1>7. HasRow("cycles", k)'
  BY <1>3, <1>4 DEF HasRow
<1>8. /\ writingOps' \in [CommandIds -> NotedRows \cup {Nothing}]
      /\ cut' \subseteq CommandIds
      /\ NotedHasRow'
      /\ \A x \in CommandIds : x \in cut \/ Done(x, AsksOwner, "cycles")
                               => x \in cut' \/ Done(x, AsksOwner, "cycles")'
      /\ kind = AsksOwner => c \in cut' \/ Done(c, AsksOwner, "cycles")'
      /\ \A x \in CommandIds, t \in Kinds : Done(x, t, t)' => Done(x, t, t) \/ (x = c /\ "cycles" = t)
  BY <1>1, <1>2, <1>6, <1>7, NoteKeeps
<1>9. WritingTypeOK'
  BY <1>1, <1>4, <1>8 DEF WritingTypeOK
<1>10. DispositionsNoted'
  <2>1. \A x \in dispositions : x.command \in CommandIds /\ (x.command \in cut \/ Done(x.command, AsksOwner, "cycles"))
    BY <1>1 DEF WritingInv, DispositionsNoted, WritingTypeOK
  <2>2. \A x \in dispositions' : x.command \in cut' \/ Done(x.command, AsksOwner, "cycles")'
    BY <1>8, <2>1
  <2> QED BY <2>2 DEF DispositionsNoted, Done
<1>11. OmittedIsNotShown'
  BY <1>2, <1>8 DEF WritingInv, WritingHolds, OmittedIsNotShown
<1>12. AssertionsPlaced' /\ EvidenceInv'
  BY EvidenceStutters DEF WritingInv, AssertionsPlaced, evidenceVars
<1> QED BY <1>8, <1>9, <1>10, <1>11, <1>12 DEF WritingInv, WritingHolds

LEMMA OpenKeeps ==
  ASSUME WritingInv, NEW c \in CommandIds, NEW d \in CommandIds, OpenReviewCycle(c, d)
  PROVE  WritingInv'
<1> DEFINE row == [draft |-> d, count |-> 0, status |-> "open"]
<1>1. row \in CycleRows /\ row.count = 0 /\ row.status = "open"
  BY DEF CycleRows
<1>2. /\ cycles' = [cycles EXCEPT ![c] = row] /\ cycles[c] = Nothing /\ dispositions' = dispositions
      /\ Note(c, "open-review-cycle", "cycles", c)
      /\ UNCHANGED <<evidenceVars, branchVars, drafts, attached, exports, files, denied>>
  BY DEF OpenReviewCycle
<1> HIDE DEF row
<1>3. cycles \in [CommandIds -> CycleRows \cup {Nothing}] /\ row # Nothing
  BY <1>1, NullWritingAssumption DEF WritingInv, WritingTypeOK
<1>4. \A k \in CommandIds : cycles'[k] = IF k = c THEN row ELSE cycles[k]
  BY <1>2, <1>3
<1>5. \A k : Askers(k)' = Askers(k)
  BY <1>2 DEF Askers
<1>6. Askers(c) = {}
  BY <1>2 DEF WritingInv, CyclesCounted, Askers
<1>7. CyclesCounted'
  <2>1. \A x \in dispositions' : cycles'[x.cycle] # Nothing
    BY <1>2, <1>3, <1>4 DEF WritingInv, CyclesCounted, WritingTypeOK
  <2>2. \A k \in CommandIds : IsFiniteSet(Askers(k)')
    BY <1>5 DEF WritingInv, CyclesCounted
  <2>3. \A k \in CommandIds : cycles'[k] # Nothing =>
          /\ cycles'[k].count = 0 <=> Askers(k)' = {}
          /\ cycles'[k].status = "revision-requested" => cycles'[k].count = 1
    BY <1>1, <1>4, <1>5, <1>6 DEF WritingInv, CyclesCounted
  <2> QED BY <2>1, <2>2, <2>3 DEF CyclesCounted
<1>8. cut \subseteq cut'
  BY <1>2 DEF Note
<1>9. OneRevisionAsked'
  <2> SUFFICES ASSUME NEW k \in CommandIds, cycles'[k] # Nothing
      PROVE  /\ cycles'[k].status = "revision-requested" => Cardinality(Askers(k)') = 1
             /\ cycles'[k].status = "returned-to-owner" =>
                  \/ \E x \in dispositions' : x.cycle = k /\ x.wish = "return"
                  \/ Cardinality(Askers(k)') > 1 \/ Askers(k)' \cap cut' # {}
    BY DEF OneRevisionAsked
  <2>1. CASE k = c
    BY <2>1, <1>1, <1>4
  <2>2. CASE k # c
    <3>1. cycles'[k] = cycles[k]
      BY <2>2, <1>4
    <3> QED BY <3>1, <1>2, <1>5, <1>8 DEF WritingInv, WritingHolds, OneRevisionAsked
  <2> QED BY <2>1, <2>2
<1>10. dispositions \subseteq [cycle : CommandIds, command : CommandIds, wish : Wishes]
  BY DEF WritingInv, WritingTypeOK
<1> QED BY <1>1, <1>2, <1>7, <1>9, <1>10, CyclesKeep

\* An owner asks something of a cycle, perhaps once more after a call that was cut.
LEMMA DispositionKeeps ==
  ASSUME WritingInv, NEW c \in CommandIds, NEW k \in CommandIds, NEW wish \in Wishes,
         RecordOwnerCycleDisposition(c, k, wish)
  PROVE  WritingInv'
<1> DEFINE row == Disposed(cycles[k], wish)
           new == [cycle |-> k, command |-> c, wish |-> wish]
<1>1. /\ cycles[k] # Nothing /\ ~Done(c, AsksOwner, "cycles")
      /\ cycles' = [cycles EXCEPT ![k] = row]
      /\ dispositions' = dispositions \cup {new}
      /\ Note(c, AsksOwner, "cycles", k)
      /\ UNCHANGED <<evidenceVars, branchVars, drafts, attached, exports, files, denied>>
  BY DEF RecordOwnerCycleDisposition, AsksOwner
<1>2. cycles[k] \in CycleRows /\ cycles[k].count \in {0, 1}
  BY <1>1 DEF WritingInv, WritingTypeOK, CycleRows
<1>3. /\ row \in CycleRows
      /\ wish = "revise" /\ cycles[k].count = 0 => row.count = 1 /\ row.status = "revision-requested"
      /\ wish = "revise" /\ cycles[k].count = 1 => row.count = 1 /\ row.status = "returned-to-owner"
      /\ wish = "return" => row.count = cycles[k].count /\ row.status = "returned-to-owner"
      /\ wish = "finish" => row.count = cycles[k].count /\ row.status = "completed"
  BY <1>2 DEF Disposed, CycleRows, Wishes
<1> HIDE DEF row
<1>4. /\ new \in [cycle : CommandIds, command : CommandIds, wish : Wishes]
      /\ new.cycle = k /\ new.command = c /\ new.wish = wish
  OBVIOUS
<1>5. /\ cycles \in [CommandIds -> CycleRows \cup {Nothing}] /\ row # Nothing
      /\ dispositions \subseteq [cycle : CommandIds, command : CommandIds, wish : Wishes]
  BY <1>3, NullWritingAssumption DEF WritingInv, WritingTypeOK
<1> HIDE DEF new
<1>6. \A j \in CommandIds : cycles'[j] = IF j = k THEN row ELSE cycles[j]
  BY <1>1, <1>5
<1>7. \A j \in CommandIds : Askers(j)' = IF j = k /\ wish = "revise" THEN Askers(j) \cup {c} ELSE Askers(j)
  BY <1>1, <1>4 DEF Askers
<1>8. IsFiniteSet(Askers(k))
  BY DEF WritingInv, CyclesCounted
<1>9. /\ IsFiniteSet(Askers(k) \cup {c}) /\ Cardinality(Askers(k)) \in Nat
      /\ Cardinality(Askers(k) \cup {c}) = IF c \in Askers(k) THEN Cardinality(Askers(k)) ELSE Cardinality(Askers(k)) + 1
  BY <1>8, FS_AddElement, FS_CardinalityType
<1>10. cut \subseteq cut'
  BY <1>1 DEF Note
<1>11. c \in Askers(k) => c \in cut
  BY <1>1 DEF WritingInv, DispositionsNoted, Askers
<1>12. CyclesCounted'
  <2>1. \A x \in dispositions' : cycles'[x.cycle] # Nothing
    BY <1>1, <1>4, <1>5, <1>6 DEF WritingInv, CyclesCounted
  <2>2. \A j \in CommandIds : IsFiniteSet(Askers(j)')
    BY <1>7, <1>9 DEF WritingInv, CyclesCounted
  <2>3. \A j \in CommandIds : cycles'[j] # Nothing =>
          /\ cycles'[j].count = 0 <=> Askers(j)' = {}
          /\ cycles'[j].status = "revision-requested" => cycles'[j].count = 1
    <3> SUFFICES ASSUME NEW j \in CommandIds, cycles'[j] # Nothing
                 PROVE  /\ cycles'[j].count = 0 <=> Askers(j)' = {}
                        /\ cycles'[j].status = "revision-requested" => cycles'[j].count = 1
      OBVIOUS
    <3>1. CASE j # k
      BY <3>1, <1>6, <1>7 DEF WritingInv, CyclesCounted
    <3>2. CASE j = k
      <4>1. cycles[k].count = 0 <=> Askers(k) = {}
        BY <1>1 DEF WritingInv, CyclesCounted
      <4>2. cycles'[j] = row
        BY <3>2, <1>6
      <4> QED BY <3>2, <4>1, <4>2, <1>2, <1>3, <1>7 DEF Wishes
    <3> QED BY <3>1, <3>2
  <2> QED BY <2>1, <2>2, <2>3 DEF CyclesCounted
<1>13. OneRevisionAsked'
  <2> SUFFICES ASSUME NEW j \in CommandIds, cycles'[j] # Nothing
      PROVE  /\ cycles'[j].status = "revision-requested" => Cardinality(Askers(j)') = 1
             /\ cycles'[j].status = "returned-to-owner" =>
                  \/ \E x \in dispositions' : x.cycle = j /\ x.wish = "return"
                  \/ Cardinality(Askers(j)') > 1 \/ Askers(j)' \cap cut' # {}
    BY DEF OneRevisionAsked
  <2>1. CASE j # k
    <3>1. cycles'[j] = cycles[j] /\ Askers(j)' = Askers(j) /\ dispositions \subseteq dispositions'
      BY <2>1, <1>1, <1>6, <1>7
    <3> QED BY <3>1, <1>10 DEF WritingInv, WritingHolds, OneRevisionAsked
  <2>2. CASE j = k /\ wish = "return"
    <3>1. new \in dispositions' /\ new.cycle = j /\ new.wish = "return" /\ cycles'[j].status = "returned-to-owner"
      BY <2>2, <1>1, <1>3, <1>4, <1>6
    <3> QED BY <3>1
  <2>3. CASE j = k /\ wish = "finish"
    BY <2>3, <1>3, <1>6
  <2>4. CASE j = k /\ wish = "revise"
    <3>1. Askers(j)' = Askers(k) \cup {c} /\ cycles'[j] = row
      BY <2>4, <1>6, <1>7
    <3>2. cycles[k].count = 0 <=> Askers(k) = {}
      BY <1>1 DEF WritingInv, CyclesCounted
    <3>3. CASE cycles[k].count = 0
      <4>1. Cardinality(Askers(k)) = 0 /\ c \notin Askers(k)
        BY <3>2, <3>3, FS_EmptySet
      <4>2. Cardinality(Askers(j)') = 1
        BY <4>1, <3>1, <1>9
      <4> QED BY <4>2, <3>1, <3>3, <2>4, <1>3
    <3>4. CASE cycles[k].count = 1 /\ c \in Askers(k)
      <4>1. c \in Askers(j)' \cap cut'
        BY <3>1, <3>4, <1>10, <1>11
      <4> QED BY <4>1, <3>1, <3>4, <2>4, <1>3
    <3>5. CASE cycles[k].count = 1 /\ c \notin Askers(k)
      <4>1. Cardinality(Askers(k)) # 0
        BY <3>2, <3>5, <1>8, FS_EmptySet
      <4>2. Cardinality(Askers(j)') > 1
        BY <4>1, <3>1, <3>5, <1>9
      <4> QED BY <4>2, <3>1, <3>5, <2>4, <1>3
    <3> QED BY <3>3, <3>4, <3>5, <1>2
  <2> QED BY <2>1, <2>2, <2>3, <2>4 DEF Wishes
<1>14. /\ dispositions' \subseteq [cycle : CommandIds, command : CommandIds, wish : Wishes]
       /\ \A x \in dispositions' : x \in dispositions \/ (AsksOwner = AsksOwner /\ x.command = c)
  BY <1>1, <1>4, <1>5
<1> QED BY <1>1, <1>3, <1>12, <1>13, <1>14, CyclesKeep

\* A file is written, its row inserted and noted, or the first of these only.
LEMMA ExportKeeps ==
  ASSUME WritingInv, NEW c \in CommandIds, NEW kind \in Kinds, NEW d \in CommandIds,
         NEW k \in CommandIds \cup {Nothing}, Export(c, kind, d, k)
  PROVE  WritingInv'
<1>1. WritingTypeOK /\ NotedHasRow
  BY DEF WritingInv, WritingHolds
<1>2. Asked(kind, d) \subseteq Sources \cup CommandIds
  <2>1. Linked(d) \subseteq Sources
    <3> SUFFICES ASSUME NEW x \in CommandIds, attached["assertions"][x] # Nothing,
                        attached["assertions"][x].item # Nothing
                 PROVE  evidence[attached["assertions"][x].item].source \in Sources
      BY DEF Linked
    <3>1. attached["assertions"][x].item \in CommandIds
      BY <1>1 DEF WritingTypeOK, Tables, AttachedRows
    <3>2. evidence[attached["assertions"][x].item] \in Items
      BY <3>1 DEF WritingInv, AssertionsPlaced, EvidenceInv, EvidenceTypeOK
    <3> QED BY <3>2 DEF Items
  <2> QED BY <2>1 DEF Asked
<1>3. /\ drafts[d] # Nothing /\ ~Done(c, kind, kind)
      /\ files' = [files EXCEPT ![kind][c] = Shown(kind, d)]
      /\ UNCHANGED <<evidenceVars, branchVars, drafts, attached, cycles, denied, dispositions>>
  BY DEF Export
<1>4. /\ files' \in [Kinds -> [CommandIds -> SUBSET (Sources \cup CommandIds)]]
      /\ \A t \in Kinds, x \in CommandIds : files'[t][x] = IF t = kind /\ x = c THEN Shown(kind, d) ELSE files[t][x]
  <2>1. Shown(kind, d) \subseteq Sources \cup CommandIds
    BY <1>2 DEF Shown
  <2> QED BY <2>1, <1>1, <1>3 DEF WritingTypeOK
<1>5. AssertionsPlaced' /\ EvidenceInv'
  BY <1>3, EvidenceStutters DEF WritingInv, AssertionsPlaced, evidenceVars
<1>6. CASE /\ ~HasExported(c, kind)
           /\ exports' = [exports EXCEPT ![kind][c] = [draft |-> d, cycle |-> k, omitted |-> Asked(kind, d) \cap denied]]
           /\ Note(c, kind, kind, c)
  <2> DEFINE row == [draft |-> d, cycle |-> k, omitted |-> Asked(kind, d) \cap denied]
  <2>1. row \in ExportRows /\ row # Nothing /\ row.omitted \cap Shown(kind, d) = {}
    BY <1>2, NullWritingAssumption DEF ExportRows, Shown
  <2>2. exports' = [exports EXCEPT ![kind][c] = row]
    BY <1>6
  <2> HIDE DEF row
  <2>3. /\ exports' \in [Kinds -> [CommandIds -> ExportRows \cup {Nothing}]]
        /\ \A t \in Kinds, x \in CommandIds : exports'[t][x] = IF t = kind /\ x = c THEN row ELSE exports[t][x]
    BY <2>1, <2>2, <1>1 DEF WritingTypeOK
  <2>4. \A t \in Kinds, x \in CommandIds : exports[t][x] # Nothing => exports'[t][x] # Nothing
    BY <2>1, <2>3
  <2>5. \A t \in NotedTables, e \in CommandIds : HasRow(t, e) => HasRow(t, e)'
    BY <1>1, <1>3, <2>4, RowsStay
  <2>6. HasRow(kind, c)'
    BY <2>1, <2>3 DEF HasRow
  <2>7. /\ kind \in NotedKinds /\ kind \in NotedTables /\ kind # AsksOwner /\ kind # "cycles"
    BY DEF NotedKinds, NotedTables, Kinds, Single, AsksOwner
  <2>8. /\ writingOps' \in [CommandIds -> NotedRows \cup {Nothing}]
        /\ cut' \subseteq CommandIds /\ cut \subseteq cut'
        /\ NotedHasRow'
        /\ \A x \in CommandIds : x \in cut \/ Done(x, AsksOwner, "cycles")
                                 => x \in cut' \/ Done(x, AsksOwner, "cycles")'
        /\ \A x \in CommandIds, t \in Kinds : Done(x, t, t)' => Done(x, t, t) \/ (x = c /\ kind = t)
    BY <1>1, <1>6, <2>5, <2>6, <2>7, NoteKeeps
  <2>9. WritingTypeOK'
    BY <1>1, <1>3, <1>4, <2>3, <2>8 DEF WritingTypeOK
  <2>10. CyclesCounted' /\ OneRevisionAsked'
    BY <1>3, <2>8, AskedStays
  <2>11. DispositionsNoted'
    <3>1. \A x \in dispositions : x.command \in CommandIds /\ (x.command \in cut \/ Done(x.command, AsksOwner, "cycles"))
      BY <1>1 DEF WritingInv, DispositionsNoted, WritingTypeOK
    <3>2. \A x \in dispositions' : x.command \in cut' \/ Done(x.command, AsksOwner, "cycles")'
      BY <1>3, <2>8, <3>1
    <3> QED BY <3>2 DEF DispositionsNoted, Done
  <2>12. OmittedIsNotShown'
    <3> SUFFICES ASSUME NEW x \in CommandIds, NEW t \in Kinds, exports'[t][x] # Nothing, Done(x, t, t)'
                 PROVE  files'[t][x] \cap exports'[t][x].omitted = {}
      BY DEF OmittedIsNotShown, Done
    <3>1. CASE t = kind /\ x = c
      BY <3>1, <1>4, <2>1, <2>3
    <3>2. CASE ~(t = kind /\ x = c)
      <4>1. Done(x, t, t) /\ files'[t][x] = files[t][x] /\ exports'[t][x] = exports[t][x]
        BY <3>2, <1>4, <2>3, <2>8
      <4> QED BY <4>1 DEF WritingInv, WritingHolds, OmittedIsNotShown
    <3> QED BY <3>1, <3>2
  <2> QED BY <1>5, <2>8, <2>9, <2>10, <2>11, <2>12 DEF WritingInv, WritingHolds
<1>7. CASE /\ cut' = IF HasExported(c, kind) THEN cut ELSE cut \cup {c}
           /\ UNCHANGED <<exports, writingOps>>
  <2>1. cut \subseteq cut' /\ cut' \subseteq CommandIds
    BY <1>1, <1>7 DEF WritingTypeOK
  <2>2. WritingTypeOK'
    BY <1>1, <1>3, <1>4, <1>7, <2>1 DEF WritingTypeOK
  <2>3. CyclesCounted' /\ OneRevisionAsked'
    BY <1>3, <2>1, AskedStays
  <2>4. \A x, a, b : Done(x, a, b)' = Done(x, a, b)
    BY <1>7 DEF Done
  <2>5. DispositionsNoted'
    BY <1>3, <2>1, <2>4 DEF WritingInv, DispositionsNoted
  <2>6. OmittedIsNotShown'
    BY <1>3, <1>4, <1>7, <2>4 DEF WritingInv, WritingHolds, OmittedIsNotShown
  <2>7. NotedHasRow'
    BY <1>1, <1>3, <1>7 DEF NotedHasRow
  <2> QED BY <1>5, <2>2, <2>3, <2>5, <2>6, <2>7 DEF WritingInv, WritingHolds
<1> QED BY <1>6, <1>7 DEF Export

LEMMA WritingStepKeeps == ASSUME WritingInv, WritingSteps PROVE WritingInv'
<1>1. ASSUME NEW x \in Sources \cup CommandIds, PolicyChanges(x) PROVE WritingInv'
  <2>1. /\ denied' \subseteq Sources \cup CommandIds
        /\ UNCHANGED <<evidenceVars, drafts, attached, cycles, exports, files, writingOps, dispositions, cut>>
    BY <1>1 DEF PolicyChanges, WritingInv, WritingTypeOK
  <2>2. WritingTypeOK'
    BY <2>1 DEF WritingInv, WritingTypeOK
  <2>3. CyclesCounted' /\ OneRevisionAsked'
    BY <2>1, AskedStays
  <2>4. DispositionsNoted' /\ OmittedIsNotShown' /\ NotedHasRow'
    BY <2>1 DEF WritingInv, WritingHolds, DispositionsNoted, OmittedIsNotShown, NotedHasRow, Done
  <2>5. AssertionsPlaced' /\ EvidenceInv'
    BY <2>1, EvidenceStutters DEF WritingInv, AssertionsPlaced, evidenceVars
  <2> QED BY <2>2, <2>3, <2>4, <2>5 DEF WritingInv, WritingHolds
<1>2. ASSUME NEW c \in CommandIds, NEW d \in CommandIds,
             \/ \E item \in CommandIds \cup {Nothing} : LinkDraftAssertion(c, d, item)
             \/ RecordDraftLimitation(c, d) \/ RecordAiContribution(c, d) \/ RecordReviewIssue(c, d)
             \/ RecordDraftTable(c, d) \/ RecordSupervisorFeedback(c, d) \/ IngestWritingCandidate(c)
      PROVE  WritingInv'
  <2>1. PICK t \in Tables, on \in CommandIds \cup {Nothing}, item \in CommandIds \cup {Nothing} :
          Attach(c, t, on, item) /\ (item # Nothing => evidence[item] # Nothing)
    BY <1>2 DEF LinkDraftAssertion, RecordDraftLimitation, RecordAiContribution, RecordReviewIssue,
                RecordDraftTable, RecordSupervisorFeedback, IngestWritingCandidate, Tables
  <2> QED BY <2>1, AttachKeeps
<1>3. ASSUME NEW c \in CommandIds, NEW d \in CommandIds,
             \/ ExportDraftMarkdown(c, d) \/ ExportDraftDocx(c, d)
             \/ ExportDraftBibliography(c, d) \/ ExportDraftTableCsv(c, d)
             \/ \E k \in CommandIds \cup {Nothing} : ExportReviewPacket(c, d, k)
      PROVE  WritingInv'
  <2>1. PICK kind \in Kinds, k \in CommandIds \cup {Nothing} : Export(c, kind, d, k)
    BY <1>3 DEF ExportDraftMarkdown, ExportDraftDocx, ExportDraftBibliography, ExportDraftTableCsv,
                ExportReviewPacket, Kinds, Single
  <2> QED BY <2>1, ExportKeeps
<1> QED BY <1>1, <1>2, <1>3, DraftKeeps, OpenKeeps, DispositionKeeps DEF WritingSteps

\* Evidence comes beside the writing, and no item disappears.
LEMMA WritingStays ==
  ASSUME WritingInv, EvidenceInv', UNCHANGED writingVars,
         \A e \in CommandIds : evidence[e] # Nothing => evidence'[e] # Nothing
  PROVE  WritingInv'
<1> USE DEF writingVars
<1>1. WritingTypeOK'
  BY DEF WritingInv, WritingTypeOK
<1>2. AssertionsPlaced'
  <2> SUFFICES ASSUME NEW c \in CommandIds, attached["assertions"][c] # Nothing,
                      attached["assertions"][c].item # Nothing
               PROVE  evidence'[attached["assertions"][c].item] # Nothing
    BY DEF AssertionsPlaced
  <2>1. attached["assertions"] \in [CommandIds -> AttachedRows \cup {Nothing}]
    BY DEF WritingInv, WritingTypeOK, Tables
  <2>2. attached["assertions"][c].item \in CommandIds
    BY <2>1 DEF AttachedRows
  <2>3. evidence[attached["assertions"][c].item] # Nothing
    BY DEF WritingInv, AssertionsPlaced
  <2> QED BY <2>2, <2>3
<1>3. CyclesCounted' /\ OneRevisionAsked'
  BY AskedStays
<1>4. DispositionsNoted' /\ OmittedIsNotShown' /\ NotedHasRow'
  BY DEF WritingInv, WritingHolds, DispositionsNoted, OmittedIsNotShown, NotedHasRow, Done
<1> QED BY <1>1, <1>2, <1>3, <1>4 DEF WritingInv, WritingHolds

LEMMA EvidenceBeside == ASSUME WritingInv, EvidenceNext, UNCHANGED writingVars PROVE WritingInv'
<1>1. EvidenceInv'
  BY EvidenceStepKeeps DEF WritingInv
<1>2. ASSUME NEW c \in CommandIds, NEW s \in Sources, NEW x \in BOOLEAN,
             RecordEvidenceItem(c, [source |-> s, excerpt |-> x])
      PROVE  \A e \in CommandIds : evidence[e] # Nothing => evidence'[e] # Nothing
  <2>1. [source |-> s, excerpt |-> x] # Nothing
    BY NullEvidenceAssumption DEF Items
  <2> QED BY <1>2, <2>1 DEF RecordEvidenceItem, WritingInv, EvidenceInv, EvidenceTypeOK
<1>3. ~(\E c \in CommandIds, s \in Sources, x \in BOOLEAN : RecordEvidenceItem(c, [source |-> s, excerpt |-> x]))
      => UNCHANGED evidence
  BY DEF EvidenceNext, EvidenceSteps, RecordClaim, LinkClaimEvidence, VerifyCitation, ApplySourceNotice,
         SourceChanges, RecordAppraisal, SynthesizeClaims, evidenceVars
<1> QED BY <1>1, <1>2, <1>3, WritingStays

LEMMA WritingStutters == ASSUME WritingInv, UNCHANGED <<branchVars, evidenceVars, writingVars>> PROVE WritingInv'
BY EvidenceStutters, WritingStays DEF WritingInv, evidenceVars

LEMMA WritingInitially == EvidenceInit /\ WritingInit => WritingInv
<1> SUFFICES ASSUME EvidenceInit, WritingInit PROVE WritingInv
  OBVIOUS
<1>1. EvidenceInv
  BY EvidenceInitially
<1> USE DEF WritingInit, NoRows
<1>2. WritingTypeOK
  BY DEF WritingTypeOK
<1>3. \A k : Askers(k) = {}
  BY DEF Askers
<1>4. CyclesCounted /\ DispositionsNoted
  BY <1>3, FS_EmptySet DEF CyclesCounted, DispositionsNoted
<1>5. AssertionsPlaced
  BY DEF AssertionsPlaced, Tables
<1>6. WritingHolds
  BY DEF WritingHolds, OneRevisionAsked, OmittedIsNotShown, NotedHasRow
<1> QED BY <1>1, <1>2, <1>4, <1>5, <1>6 DEF WritingInv

LEMMA WritingInvariant == WritingSpec => []WritingInv
<1>1. WritingInv /\ [WritingNext]_<<branchVars, evidenceVars, writingVars>> => WritingInv'
  BY WritingStepKeeps, EvidenceBeside, WritingStutters DEF WritingNext
<1> QED BY <1>1, WritingInitially, PTL DEF WritingSpec

\* Drafts, what is attached to them, cycles, exports, files and notes keep their types.
THEOREM WritingTypes == WritingSpec => []WritingTypeOK
<1>1. WritingInv => WritingTypeOK
  BY DEF WritingInv
<1> QED BY <1>1, WritingInvariant, PTL

\* One revision is asked of a cycle, a noted export shows nothing that its record lists
\* as omitted, and a note has its row, however commands of src/writing are cut short,
\* sent again or used for several kinds of operation.
THEOREM WritingIsKept == WritingSpec => []WritingHolds
<1>1. WritingInv => WritingHolds
  BY DEF WritingInv
<1> QED BY <1>1, WritingInvariant, PTL

\* What the writing adds to the record takes nothing from the evidence it rests on.
THEOREM WritingKeepsEvidence == WritingSpec => []EvidenceHolds
<1>1. WritingInv => EvidenceHolds
  BY DEF WritingInv, EvidenceInv
<1> QED BY <1>1, WritingInvariant, PTL

-----------------------------------------------------------------------------
\* The review of the literature

\* Rows name rows that are there, of one protocol.
EventPlaced(c) ==
  LET q == litRows[c].query
  IN  Is(q, "query") /\ \A r \in litRows[c].records : r.protocol = litRows[q].protocol
GapPlaced(c) ==
  LET e == litRows[c].event
  IN  /\ Is(e, "event")
      /\ \A q \in litRows[c].queries : Is(q, "query") /\ litRows[q].protocol = litRows[litRows[e].query].protocol
RowsPlaced ==
  \A c \in LitCommands :
    /\ Is(c, "event") => EventPlaced(c)
    /\ Is(c, "gap") => GapPlaced(c)
    /\ Is(c, "counter") => Is(litRows[c].gap, "gap")

\* The search of a counter-search is for the query of its command; an amendment's protocol is one.
SearchPlaced(c) ==
  LET s == <<c, "search">>
  IN  /\ Is(s, "event") => litOps[s] # Nothing /\ litRows[s].query = litOps[s].payload.query
      /\ litOps[s] # Nothing =>
           /\ litOps[c] # Nothing /\ litOps[c].payload.kind = "counter"
           /\ litOps[s].payload = [kind |-> "event", query |-> litOps[c].payload.query]
SearchesPlaced ==
  \A c \in CommandIds : SearchPlaced(c) /\ litRows[<<c, "protocol">>] \in {Nothing, [kind |-> "protocol"]}

\* What is complete has the row it was noted with.
CompleteIsNoted ==
  \A c \in LitCommands :
    litOps[c] # Nothing /\ litOps[c].status = "complete" /\ litOps[c].payload.kind = "decision" =>
      /\ Is(c, "decision")
      /\ litRows[c].record = litOps[c].payload.record /\ litRows[c].decision = litOps[c].payload.decision

\* A call is of a command that was noted, for a query that is there; one of a counter-search is
\* for a query of its gap, and once it is found its event is there.
CallPlaced(c) ==
  LET call == calls[c]
  IN  /\ Is(call.query, "query") /\ litOps[c] # Nothing
      /\ call.gap = Nothing =>
           /\ call.row = c /\ call.stage = "asked"
           /\ litOps[c].payload = [kind |-> "event", query |-> call.query]
      /\ call.gap # Nothing =>
           /\ call.row = <<c, "search">> /\ litOps[call.row] # Nothing
           /\ litOps[c].payload = [kind |-> "counter", gap |-> call.gap, query |-> call.query]
           /\ Is(call.gap, "gap") /\ call.query \in litRows[call.gap].queries
           /\ call.stage = "found" => Is(call.row, "event")
CallsPlaced == \A c \in CommandIds : calls[c] # Nothing => CallPlaced(c)

\* The decisions were made in some order, one by one.
DecisionsInOrder ==
  /\ \A c \in CommandIds : Is(c, "decision") <=> \E i \in DOMAIN screened : screened[i] = c
  /\ \A i, j \in DOMAIN screened : screened[i] = screened[j] => i = j
  /\ \A c \in CommandIds : queue[c] # "none" => Is(c, "decision")
  /\ \A c \in CommandIds : queue[c] \in CommandIds => Is(queue[c], "decision")
  /\ \A c \in CommandIds : Is(c, "decision") /\ litRows[c].by # Nothing => Is(litRows[c].by, "decision")

LiteratureInv ==
  /\ LiteratureTypeOK /\ RowsPlaced /\ SearchesPlaced /\ CompleteIsNoted /\ CallsPlaced
  /\ DecisionsInOrder /\ LiteratureHolds

-----------------------------------------------------------------------------
LEMMA RowShape ==
  ASSUME NEW r \in LitRows
  PROVE  /\ r.kind = "query" => r.protocol \in LitCommands
         /\ r.kind = "event" => r.query \in CommandIds /\ r.records \subseteq Records
         /\ r.kind = "gap" => /\ r.event \in LitCommands /\ r.queries \subseteq CommandIds
                              /\ r.status \in Status /\ r.notes \subseteq CommandIds
         /\ r.kind = "counter" => r.gap \in CommandIds /\ r.event \in LitCommands /\ r.contrary \subseteq Records
         /\ r.kind = "decision" => /\ r.record \in Records /\ r.protocol \in LitCommands
                                   /\ r.decision \in Verdicts /\ r.by \in CommandIds \cup {Nothing}
BY DEF LitRows

\* Rows stay; what changes is the state of a gap and what supersedes a decision.
RowsGrow ==
  \A c \in LitCommands :
    litRows[c] # Nothing =>
      LET row == litRows[c]
          now == litRows'[c]
      IN  /\ now # Nothing /\ now.kind = row.kind
          /\ row.kind = "gap" =>
               /\ now.event = row.event /\ now.queries = row.queries
               /\ row.status \in {"narrowed", "revised"} /\ row.notes # {}
                    => now.status \in {"narrowed", "revised"} /\ now.notes # {}
          /\ row.kind = "decision" =>
               now.record = row.record /\ now.protocol = row.protocol /\ now.decision = row.decision
          /\ row.kind \notin {"gap", "decision"} => now = row

\* What an operation is for stays.
OpsGrow ==
  \A c \in LitCommands :
    litOps[c] # Nothing => litOps'[c] # Nothing /\ litOps'[c].payload = litOps[c].payload

NowIs(c, kind) == litRows'[c] # Nothing /\ litRows'[c].kind = kind

\* Recorded, part by part.
CompleteStands ==
  \A c \in LitCommands : litOps[c] # Nothing /\ litOps[c].status = "complete" => litOps'[c] = litOps[c]
RowsStand ==
  \A c \in LitCommands :
    LET row == litRows[c]
        now == litRows'[c]
    IN  row # Nothing /\ now # row =>
          \/ row.kind = "gap" /\ now = [row EXCEPT !.status = now.status, !.notes = now.notes]
          \/ row.kind = "decision" /\ row.by = Nothing /\ now = [row EXCEPT !.by = now.by]

LEMMA RecordedParts ==
  ASSUME CompleteStands, RowsStand, \A c \in CommandIds : queue[c] \in CommandIds => queue'[c] = queue[c]
  PROVE  Recorded
BY DEF CompleteStands, RowsStand, Recorded

LEMMA IsStays ==
  ASSUME RowsGrow, NEW c \in LitCommands, NEW kind, Is(c, kind)
  PROVE  Is(c, kind)' /\ NowIs(c, kind)
BY DEF RowsGrow, Is, NowIs

LEMMA EventStays ==
  ASSUME LiteratureInv, RowsGrow, NEW c \in LitCommands, Is(c, "event")
  PROVE  /\ Is(c, "event")' /\ litRows'[c] = litRows[c] /\ EventPlaced(c)'
         /\ Is(litRows[c].query, "query") /\ litRows[c].query \in LitCommands
         /\ litRows'[litRows[c].query] = litRows[litRows[c].query]
<1>1. litRows[c] \in LitRows /\ litRows[c].kind = "event"
  BY DEF LiteratureInv, LiteratureTypeOK, Is
<1> DEFINE q == litRows[c].query
<1>2. q \in LitCommands
  BY <1>1, RowShape DEF LitCommands
<1>3. EventPlaced(c)
  BY DEF LiteratureInv, RowsPlaced
<1>4. Is(q, "query") /\ \A r \in litRows[c].records : r.protocol = litRows[q].protocol
  BY <1>3 DEF EventPlaced
<1>5. litRows'[c] = litRows[c]
  BY <1>1 DEF RowsGrow, Is
<1>6. litRows'[q] = litRows[q]
  BY <1>2, <1>4 DEF RowsGrow, Is
<1>7. EventPlaced(c)'
  BY <1>4, <1>5, <1>6 DEF EventPlaced, Is
<1> QED BY <1>2, <1>4, <1>5, <1>6, <1>7, IsStays

LEMMA GapStays ==
  ASSUME LiteratureInv, RowsGrow, NEW g \in LitCommands, Is(g, "gap")
  PROVE  /\ Is(g, "gap")' /\ GapPlaced(g)'
         /\ litRows[g].event \in LitCommands /\ Is(litRows[g].event, "event")
         /\ litRows'[g].event = litRows[g].event /\ litRows'[g].queries = litRows[g].queries
         /\ litRows'[litRows'[litRows'[g].event].query].protocol = litRows[litRows[litRows[g].event].query].protocol
<1>1. litRows[g] \in LitRows /\ litRows[g].kind = "gap"
  BY DEF LiteratureInv, LiteratureTypeOK, Is
<1>2. PICK e \in LitCommands : e = litRows[g].event /\ litRows[g].queries \subseteq LitCommands
  BY <1>1, RowShape DEF LitCommands
<1>3. GapPlaced(g)
  BY DEF LiteratureInv, RowsPlaced
<1>4. Is(e, "event") /\ \A q \in litRows[g].queries :
        Is(q, "query") /\ litRows[q].protocol = litRows[litRows[e].query].protocol
  BY <1>2, <1>3 DEF GapPlaced
<1>5. litRows'[g].event = e /\ litRows'[g].queries = litRows[g].queries
  BY <1>1, <1>2 DEF RowsGrow, Is
<1>6. litRows'[e] = litRows[e] /\ litRows'[litRows[e].query] = litRows[litRows[e].query] /\ Is(e, "event")'
  BY <1>2, <1>4, EventStays
<1>7. \A q \in litRows[g].queries : Is(q, "query")' /\ litRows'[q] = litRows[q]
  BY <1>2, <1>4 DEF RowsGrow, Is
<1>8. GapPlaced(g)'
  BY <1>4, <1>5, <1>6, <1>7 DEF GapPlaced, Is
<1>9. litRows'[litRows'[litRows'[g].event].query].protocol = litRows[litRows[e].query].protocol
  BY <1>5, <1>6
<1> QED BY <1>2, <1>4, <1>5, <1>8, <1>9, IsStays

\* A counter-search as TestedGapIsChallenged has it, of a gap.
CounterPlaced(c) ==
  LET row == litRows[c]
      gap == litRows[row.gap]
  IN  /\ Is(row.gap, "gap") /\ gap.status \in {"narrowed", "revised"} /\ gap.notes # {}
      /\ \A r \in row.contrary :
           <<c, r>> \in challenged /\ r.protocol = litRows[litRows[gap.event].query].protocol

LEMMA PlacesStay ==
  ASSUME LiteratureInv, RowsGrow, challenged \subseteq challenged',
         \A c \in LitCommands : litRows[c] = Nothing =>
           /\ Is(c, "event")' => EventPlaced(c)'
           /\ Is(c, "gap")' => GapPlaced(c)'
           /\ Is(c, "counter")' => CounterPlaced(c)'
  PROVE  RowsPlaced' /\ TestedGapIsChallenged'
<1>1. ASSUME NEW c \in LitCommands, litRows[c] # Nothing, Is(c, "counter")'
      PROVE  /\ Is(c, "counter") /\ litRows'[c] = litRows[c]
             /\ litRows[c].gap \in LitCommands /\ Is(litRows[c].gap, "gap")
  <2>1. Is(c, "counter") /\ litRows'[c] = litRows[c]
    BY <1>1 DEF RowsGrow, Is
  <2>2. litRows[c] \in LitRows
    BY <2>1 DEF LiteratureInv, LiteratureTypeOK, Is
  <2> QED BY <2>1, <2>2, RowShape DEF LiteratureInv, RowsPlaced, Is, LitCommands
<1>2. RowsPlaced'
  <2> SUFFICES ASSUME NEW c \in LitCommands
               PROVE  /\ Is(c, "event")' => EventPlaced(c)'
                      /\ Is(c, "gap")' => GapPlaced(c)'
                      /\ Is(c, "counter")' => Is(litRows[c].gap, "gap")'
    BY DEF RowsPlaced
  <2>1. CASE litRows[c] = Nothing
    BY <2>1 DEF CounterPlaced
  <2>2. CASE litRows[c] # Nothing
    <3>1. \A kind : Is(c, kind)' => Is(c, kind)
      BY <2>2 DEF RowsGrow, Is
    <3>2. ASSUME Is(c, "counter")' PROVE Is(litRows[c].gap, "gap")'
      <4>1. litRows'[c] = litRows[c] /\ Is(litRows[c].gap, "gap") /\ litRows[c].gap \in LitCommands
        BY <1>1, <2>2, <3>2
      <4> QED BY <4>1, GapStays DEF Is
    <3> QED BY <3>1, <3>2, EventStays, GapStays
  <2> QED BY <2>1, <2>2
<1>3. TestedGapIsChallenged'
  <2> SUFFICES ASSUME NEW c \in CommandIds, Is(c, "counter")'
               PROVE  LET row == litRows'[c]
                          gap == litRows'[row.gap]
                      IN  /\ gap.status \in {"narrowed", "revised"} /\ gap.notes # {}
                          /\ \A r \in row.contrary :
                               /\ <<c, r>> \in challenged'
                               /\ r.protocol = litRows'[litRows'[gap.event].query].protocol
    BY DEF TestedGapIsChallenged
  <2>0. c \in LitCommands
    BY DEF LitCommands
  <2>1. CASE litRows[c] = Nothing
    BY <2>0, <2>1 DEF CounterPlaced
  <2> SUFFICES ASSUME litRows[c] # Nothing
               PROVE  LET row == litRows'[c]
                          gap == litRows'[row.gap]
                      IN  /\ gap.status \in {"narrowed", "revised"} /\ gap.notes # {}
                          /\ \A r \in row.contrary :
                               /\ <<c, r>> \in challenged'
                               /\ r.protocol = litRows'[litRows'[gap.event].query].protocol
    BY <2>1
  <2> DEFINE g == litRows[c].gap
  <2>2. Is(c, "counter") /\ litRows'[c] = litRows[c] /\ g \in LitCommands /\ Is(g, "gap")
    BY <2>0, <1>1
  <2>3. /\ litRows[g].status \in {"narrowed", "revised"} /\ litRows[g].notes # {}
        /\ \A r \in litRows[c].contrary :
             <<c, r>> \in challenged /\ r.protocol = litRows[litRows[litRows[g].event].query].protocol
    BY <2>2 DEF LiteratureInv, LiteratureHolds, TestedGapIsChallenged
  <2>4. litRows'[g].status \in {"narrowed", "revised"} /\ litRows'[g].notes # {}
    BY <2>2, <2>3 DEF RowsGrow, Is
  <2>5. litRows'[litRows'[litRows'[g].event].query].protocol = litRows[litRows[litRows[g].event].query].protocol
    BY <2>2, GapStays
  <2> HIDE DEF g
  <2>6. litRows'[litRows'[c].gap] = litRows'[g]
    BY <2>2 DEF g
  <2> QED BY <2>2, <2>3, <2>4, <2>5, <2>6
<1> QED BY <1>2, <1>3

LEMMA CompleteStays ==
  ASSUME LiteratureInv, RowsGrow, OpsGrow,
         \A c \in LitCommands :
           litOps'[c] # litOps[c] /\ litOps'[c] # Nothing /\ litOps'[c].status = "complete" =>
             LET payload == litOps'[c].payload
             IN  /\ NowIs(c, payload.kind) \/ payload.kind = "exploration"
                 /\ payload.kind = "decision" =>
                      litRows'[c].record = payload.record /\ litRows'[c].decision = payload.decision
  PROVE  CompleteHasRow' /\ CompleteIsNoted'
<1> SUFFICES ASSUME NEW c \in LitCommands, litOps'[c] # Nothing, litOps'[c].status = "complete"
             PROVE  LET payload == litOps'[c].payload
                    IN  /\ NowIs(c, payload.kind) \/ payload.kind = "exploration"
                        /\ payload.kind = "decision" =>
                             litRows'[c].record = payload.record /\ litRows'[c].decision = payload.decision
  BY DEF CompleteHasRow, CompleteIsNoted, Is, NowIs
<1>1. CASE litOps'[c] = litOps[c]
  <2>1. Is(c, litOps[c].payload.kind) \/ litOps[c].payload.kind = "exploration"
    BY <1>1 DEF LiteratureInv, LiteratureHolds, CompleteHasRow
  <2>2. litOps[c].payload.kind = "decision" =>
          /\ litRows[c].record = litOps[c].payload.record
          /\ litRows[c].decision = litOps[c].payload.decision
    BY <1>1 DEF LiteratureInv, CompleteIsNoted
  <2> QED BY <1>1, <2>1, <2>2 DEF RowsGrow, Is, NowIs
<1> QED BY <1>1

\* An event that comes for a search is for the search's query.
LEMMA SearchesStay ==
  ASSUME LiteratureInv, RowsGrow, OpsGrow,
         \A c \in CommandIds :
           LET s == <<c, "search">>
               p == <<c, "protocol">>
           IN  /\ litRows[s] = Nothing /\ Is(s, "event")' =>
                    litOps[s] # Nothing /\ litRows'[s].query = litOps[s].payload.query
               /\ litOps[s] = Nothing /\ litOps'[s] # Nothing =>
                    /\ litOps'[c] # Nothing /\ litOps'[c].payload.kind = "counter"
                    /\ litOps'[s].payload = [kind |-> "event", query |-> litOps'[c].payload.query]
               /\ litRows'[p] \in {litRows[p], [kind |-> "protocol"]}
  PROVE  SearchesPlaced'
<1> SUFFICES ASSUME NEW c \in CommandIds
             PROVE  SearchPlaced(c)' /\ litRows'[<<c, "protocol">>] \in {Nothing, [kind |-> "protocol"]}
  BY DEF SearchesPlaced
<1> DEFINE s == <<c, "search">>
<1>0. s \in LitCommands /\ c \in LitCommands
  BY DEF LitCommands
<1>1. SearchPlaced(c) /\ litRows[<<c, "protocol">>] \in {Nothing, [kind |-> "protocol"]}
  BY DEF LiteratureInv, SearchesPlaced
<1>2. litRows'[<<c, "protocol">>] \in {Nothing, [kind |-> "protocol"]}
  BY <1>1
<1>3. Is(s, "event")' => litOps'[s] # Nothing /\ litRows'[s].query = litOps'[s].payload.query
  <2>1. CASE litRows[s] = Nothing
    BY <2>1, <1>0 DEF OpsGrow
  <2>2. CASE litRows[s] # Nothing
    BY <2>2, <1>0, <1>1 DEF OpsGrow, RowsGrow, SearchPlaced, Is
  <2> QED BY <2>1, <2>2
<1>4. litOps'[s] # Nothing =>
        /\ litOps'[c] # Nothing /\ litOps'[c].payload.kind = "counter"
        /\ litOps'[s].payload = [kind |-> "event", query |-> litOps'[c].payload.query]
  BY <1>0, <1>1 DEF OpsGrow, SearchPlaced
<1> QED BY <1>2, <1>3, <1>4 DEF SearchPlaced, Is

LEMMA CallsStay ==
  ASSUME LiteratureInv, RowsGrow, OpsGrow,
         \A c \in CommandIds : calls'[c] # Nothing /\ calls'[c] # calls[c] => CallPlaced(c)'
  PROVE  CallsPlaced'
<1> SUFFICES ASSUME NEW c \in CommandIds, calls[c] # Nothing, calls'[c] = calls[c]
             PROVE  CallPlaced(c)'
  BY DEF CallsPlaced
<1> DEFINE call == calls[c]
<1>1. CallPlaced(c) /\ calls[c] \in LitCalls
  BY DEF LiteratureInv, CallsPlaced, LiteratureTypeOK
<1>2. c \in LitCommands /\ call.query \in LitCommands /\ call.row \in LitCommands
      /\ (call.gap # Nothing => call.gap \in LitCommands)
  BY <1>1 DEF LitCalls, LitCommands
<1>3. Is(call.query, "query") /\ Is(call.query, "query")'
  <2>1. Is(call.query, "query")
    BY <1>1 DEF CallPlaced
  <2> QED BY <2>1, <1>2 DEF RowsGrow, Is
<1>4. litOps'[c] # Nothing /\ litOps'[c].payload = litOps[c].payload
  BY <1>1, <1>2 DEF CallPlaced, OpsGrow
<1>5. ASSUME call.gap # Nothing
      PROVE  /\ Is(call.gap, "gap")' /\ litRows'[call.gap].queries = litRows[call.gap].queries
             /\ litOps'[call.row] # Nothing
             /\ call.stage = "found" => Is(call.row, "event")'
  <2>1. /\ Is(call.gap, "gap") /\ litOps[call.row] # Nothing
        /\ call.stage = "found" => Is(call.row, "event")
    BY <1>1, <1>5 DEF CallPlaced
  <2> QED BY <2>1, <1>2, <1>5 DEF RowsGrow, OpsGrow, Is
<1> QED BY <1>1, <1>3, <1>4, <1>5 DEF CallPlaced, Is

\* Where no decision comes or is changed.
LEMMA ScreeningStays ==
  ASSUME LiteratureInv, RowsGrow, UNCHANGED <<screened, queue>>,
         \A c \in CommandIds : Is(c, "decision")' => litRows'[c] = litRows[c]
  PROVE  DecisionsInOrder' /\ ScreeningIsTraceable'
<1>1. \A c \in CommandIds : /\ Is(c, "decision")' <=> Is(c, "decision")
                            /\ Is(c, "decision") => litRows'[c] = litRows[c]
                            /\ Is(c, "decision") => litRows[c].by \in CommandIds \cup {Nothing}
  <2> SUFFICES ASSUME NEW c \in CommandIds
               PROVE  /\ Is(c, "decision")' <=> Is(c, "decision")
                      /\ Is(c, "decision") => litRows[c].by \in CommandIds \cup {Nothing}
    BY DEF Is
  <2>1. c \in LitCommands
    BY DEF LitCommands
  <2>2. Is(c, "decision") => litRows[c] \in LitRows
    BY <2>1 DEF LiteratureInv, LiteratureTypeOK, Is
  <2> QED BY <2>1, <2>2, RowShape DEF Is, RowsGrow
<1>2. DecisionsInOrder'
  BY <1>1 DEF LiteratureInv, DecisionsInOrder, Is
<1>3. ASSUME NEW c \in CommandIds PROVE InOrder(c)' = InOrder(c)
  BY DEF InOrder
<1>4. ScreeningIsTraceable'
  <2> SUFFICES ASSUME NEW c \in CommandIds, Is(c, "decision")
               PROVE  LET row == litRows[c]
                      IN  /\ row.by # Nothing =>
                               /\ litRows'[row.by].record = row.record /\ litRows'[row.by].protocol # row.protocol
                               /\ InOrder(c) < InOrder(row.by)
                          /\ queue[c] \in CommandIds =>
                               litRows'[queue[c]].record = row.record /\ litRows'[queue[c]].decision # "uncertain"
                          /\ (queue[c] # "none") = (row.decision = "uncertain")
    BY <1>1 DEF ScreeningIsTraceable, InOrder
  <2> DEFINE by == litRows[c].by
  <2>1. /\ by # Nothing => /\ litRows[by].record = litRows[c].record /\ litRows[by].protocol # litRows[c].protocol
                           /\ InOrder(c) < InOrder(by)
        /\ queue[c] \in CommandIds =>
             litRows[queue[c]].record = litRows[c].record /\ litRows[queue[c]].decision # "uncertain"
        /\ (queue[c] # "none") = (litRows[c].decision = "uncertain")
    BY DEF LiteratureInv, LiteratureHolds, ScreeningIsTraceable
  <2>2. by # Nothing => by \in CommandIds /\ litRows'[by] = litRows[by]
    BY <1>1 DEF LiteratureInv, DecisionsInOrder
  <2>3. queue[c] \in CommandIds => litRows'[queue[c]] = litRows[queue[c]]
    BY <1>1 DEF LiteratureInv, DecisionsInOrder
  <2> QED BY <2>1, <2>2, <2>3
<1> QED BY <1>2, <1>4

LEMMA NotedGrows ==
  ASSUME LiteratureInv, NEW c \in LitCommands, NEW row \in LitPayloads, Begins(c, row),
         \/ litOps' = [litOps EXCEPT ![c] = Pending(row)]
         \/ litOps' = [litOps EXCEPT ![c] = Complete(row)]
  PROVE  /\ OpsGrow /\ CompleteStands /\ litOps' \in [LitCommands -> LitOps \cup {Nothing}]
         /\ litOps'[c] \in {Pending(row), Complete(row)} /\ litOps'[c] # Nothing /\ litOps'[c].payload = row
         /\ \A d \in LitCommands : d # c => litOps'[d] = litOps[d]
<1>1. litOps \in [LitCommands -> LitOps \cup {Nothing}]
  BY DEF LiteratureInv, LiteratureTypeOK
<1>2. Pending(row) \in LitOps /\ Complete(row) \in LitOps
  BY DEF LitOps, Pending, Complete
<1>3. Pending(row) # Nothing /\ Complete(row) # Nothing
  BY <1>2, LiteratureAssumption
<1>4. Pending(row).payload = row /\ Complete(row).payload = row
  BY DEF Pending, Complete
<1>5. litOps'[c] \in {Pending(row), Complete(row)} /\ \A d \in LitCommands : d # c => litOps'[d] = litOps[d]
  BY <1>1
<1>6. litOps' \in [LitCommands -> LitOps \cup {Nothing}]
  BY <1>1, <1>2
<1>7. OpsGrow
  BY <1>3, <1>4, <1>5 DEF OpsGrow, Begins
<1>8. CompleteStands
  <2>1. Pending(row).status # "complete"
    BY DEF Pending
  <2> QED BY <2>1, <1>5 DEF CompleteStands, Begins
<1> QED BY <1>3, <1>4, <1>5, <1>6, <1>7, <1>8

\* Commands and the ids made of them differ.
LEMMA IdsDiffer ==
  ASSUME NEW c \in CommandIds, NEW d \in CommandIds, NEW s \in {"search", "protocol"}
  PROVE  c # <<d, s>> /\ c \in LitCommands /\ <<d, s>> \in LitCommands
BY LiteratureAssumption DEF LitCommands

\* A row that tests nothing and decides nothing.
LEMMA RowKeeps ==
  ASSUME LiteratureInv, NEW c \in CommandIds, NEW row \in LitRows,
         row.kind \in {"protocol", "query", "landscape", "corpus", "gap", "contribution"},
         row.kind = "gap" =>
           /\ Is(row.event, "event")
           /\ \A q \in row.queries : Is(q, "query") /\ litRows[q].protocol = litRows[litRows[row.event].query].protocol,
         Fresh(c, row), UNCHANGED <<edges, challenged, screened, queue>>,
         corpus \subseteq corpus', corpus' \subseteq Records,
         calls' \in {calls, NoCalls},
         litRows' \in {litRows, [litRows EXCEPT ![c] = row]},
         \/ litOps' = [litOps EXCEPT ![c] = Pending(row)]
         \/ litOps' = [litOps EXCEPT ![c] = Complete(row)] /\ litRows' = [litRows EXCEPT ![c] = row]
  PROVE  LiteratureInv' /\ Recorded
<1>0. c \in LitCommands /\ row \in LitPayloads /\ row # Nothing /\ Begins(c, row) /\ litRows[c] = Nothing
  BY LiteratureAssumption DEF LitCommands, LitPayloads, Fresh
<1>1. /\ OpsGrow /\ CompleteStands /\ litOps' \in [LitCommands -> LitOps \cup {Nothing}]
      /\ litOps'[c] # Nothing /\ litOps'[c].payload = row
      /\ \A d \in LitCommands : d # c => litOps'[d] = litOps[d]
  BY <1>0, NotedGrows
<1>2. litRows \in [LitCommands -> LitRows \cup {Nothing}]
  BY DEF LiteratureInv, LiteratureTypeOK
<1>3. /\ litRows' \in [LitCommands -> LitRows \cup {Nothing}]
      /\ litRows'[c] \in {Nothing, row} /\ \A d \in LitCommands : d # c => litRows'[d] = litRows[d]
  BY <1>0, <1>2
<1>4. RowsGrow
  BY <1>0, <1>3 DEF RowsGrow
<1>5. LiteratureTypeOK'
  <2>1. NoCalls \in [CommandIds -> LitCalls \cup {Nothing}]
    BY DEF NoCalls
  <2> QED BY <1>1, <1>3, <2>1 DEF LiteratureInv, LiteratureTypeOK
<1>6. RowsPlaced' /\ TestedGapIsChallenged'
  <2>1. ASSUME NEW d \in LitCommands, litRows[d] = Nothing
        PROVE  /\ Is(d, "event")' => EventPlaced(d)'
               /\ Is(d, "gap")' => GapPlaced(d)'
               /\ ~Is(d, "counter")'
    <3>1. CASE d # c
      BY <3>1, <1>3, <2>1 DEF Is
    <3>2. CASE d = c
      <4>1. ~Is(c, "counter")' /\ ~Is(c, "event")'
        BY <1>3, <1>0 DEF Is
      <4>2. ASSUME Is(c, "gap")' PROVE GapPlaced(c)'
        <5>1. litRows'[c] = row /\ row.kind = "gap"
          BY <4>2, <1>0, <1>3 DEF Is
        <5>2. PICK e \in LitCommands : e = row.event /\ row.queries \subseteq LitCommands
          BY <5>1, RowShape DEF LitCommands
        <5>3. Is(e, "event") /\ \A q \in row.queries :
                Is(q, "query") /\ litRows[q].protocol = litRows[litRows[e].query].protocol
          BY <5>1, <5>2
        <5>4. litRows'[e] = litRows[e] /\ litRows'[litRows[e].query] = litRows[litRows[e].query] /\ Is(e, "event")'
          BY <5>3, <1>4, EventStays
        <5>5. \A q \in row.queries : Is(q, "query")' /\ litRows'[q] = litRows[q]
          BY <5>2, <5>3, <1>4 DEF RowsGrow, Is
        <5> QED BY <5>1, <5>2, <5>3, <5>4, <5>5 DEF GapPlaced, Is
      <4> QED BY <3>2, <4>1, <4>2
    <3> QED BY <3>1, <3>2
  <2> QED BY <2>1, <1>4, PlacesStay
<1>7. CompleteHasRow' /\ CompleteIsNoted'
  <2>1. ASSUME NEW d \in LitCommands, litOps'[d] # litOps[d], litOps'[d].status = "complete"
        PROVE  NowIs(d, litOps'[d].payload.kind) /\ litOps'[d].payload.kind # "decision"
    <3>1. d = c
      BY <2>1, <1>1
    <3>2. Pending(row).status # "complete"
      BY DEF Pending
    <3>3. litRows'[c] = row
      BY <3>1, <3>2, <2>1, <1>0, <1>2, <1>1 DEF LiteratureInv, LiteratureTypeOK
    <3> QED BY <3>1, <3>3, <1>0, <1>1 DEF NowIs
  <2> QED BY <2>1, <1>1, <1>4, CompleteStays
<1>8. SearchesPlaced'
  <2>1. ASSUME NEW d \in CommandIds
        PROVE  /\ litRows'[<<d, "search">>] = litRows[<<d, "search">>]
               /\ litOps'[<<d, "search">>] = litOps[<<d, "search">>]
               /\ litRows'[<<d, "protocol">>] = litRows[<<d, "protocol">>]
    BY <1>1, <1>3, IdsDiffer
  <2> QED BY <2>1, <1>1, <1>4, SearchesStay DEF Is
<1>9. CallsPlaced'
  <2>1. \A d \in CommandIds : calls'[d] \in {calls[d], Nothing}
    BY DEF NoCalls
  <2> QED BY <2>1, <1>1, <1>4, CallsStay
<1>10. DecisionsInOrder' /\ ScreeningIsTraceable'
  <2>1. \A d \in CommandIds : Is(d, "decision")' => litRows'[d] = litRows[d]
    BY <1>0, <1>3 DEF Is, LitCommands
  <2> QED BY <2>1, <1>4, ScreeningStays
<1>11. Recorded
  BY <1>0, <1>1, <1>3, RecordedParts DEF RowsStand
<1> QED BY <1>5, <1>6, <1>7, <1>8, <1>9, <1>10, <1>11 DEF LiteratureInv, LiteratureHolds

LEMMA ReviewProtocolKeeps ==
  ASSUME LiteratureInv, NEW c \in CommandIds, RecordReviewProtocol(c) PROVE LiteratureInv' /\ Recorded
<1> DEFINE row == [kind |-> "protocol"]
<1>1. row \in LitRows /\ row.kind = "protocol"
  BY DEF LitRows
<1>2. Record1(c, row, InsertOnly(c, row))
  BY DEF RecordReviewProtocol
<1>3. corpus \subseteq Records
  BY DEF LiteratureInv, LiteratureTypeOK
<1> HIDE DEF row
<1> QED BY <1>1, <1>2, <1>3, RowKeeps DEF Record1, InsertOnly

LEMMA QueryVersionKeeps ==
  ASSUME LiteratureInv, NEW c \in CommandIds, NEW p \in LitCommands, NEW parent \in CommandIds \cup {Nothing},
         RecordQueryVersion(c, p, parent)
  PROVE  LiteratureInv' /\ Recorded
<1> DEFINE row == [kind |-> "query", protocol |-> p, parent |-> parent]
<1>1. row \in LitRows /\ row.kind = "query"
  BY DEF LitRows
<1>2. Record1(c, row, InsertOnly(c, row))
  BY DEF RecordQueryVersion
<1>3. corpus \subseteq Records
  BY DEF LiteratureInv, LiteratureTypeOK
<1> HIDE DEF row
<1> QED BY <1>1, <1>2, <1>3, RowKeeps DEF Record1, InsertOnly

LEMMA LandscapeKeeps ==
  ASSUME LiteratureInv, NEW c \in CommandIds, NEW p \in LitCommands, NEW Q \in SUBSET CommandIds,
         RecordLandscapeMap(c, p, Q)
  PROVE  LiteratureInv' /\ Recorded
<1> DEFINE row == [kind |-> "landscape", protocol |-> p, queries |-> Q]
<1>1. row \in LitRows /\ row.kind = "landscape"
  BY DEF LitRows
<1>2. Record1(c, row, InsertOnly(c, row))
  BY DEF RecordLandscapeMap
<1>3. corpus \subseteq Records
  BY DEF LiteratureInv, LiteratureTypeOK
<1> HIDE DEF row
<1> QED BY <1>1, <1>2, <1>3, RowKeeps DEF Record1, InsertOnly

LEMMA CorpusIdentityKeeps ==
  ASSUME LiteratureInv, NEW c \in CommandIds, NEW p \in LitCommands, NEW i \in Identities,
         RecordCorpusIdentity(c, p, i)
  PROVE  LiteratureInv' /\ Recorded
<1> DEFINE row == [kind |-> "corpus", protocol |-> p, identity |-> i]
           record == [protocol |-> p, identity |-> i, by |-> c]
<1>1. row \in LitRows /\ row.kind = "corpus" /\ record \in Records
  BY DEF LitRows, Records
<1>2. Record1(c, row, /\ litRows' = [litRows EXCEPT ![c] = row]
                      /\ corpus' = corpus \cup {record} /\ UNCHANGED <<screened, queue>>)
  BY DEF RecordCorpusIdentity
<1>3. corpus \subseteq Records
  BY DEF LiteratureInv, LiteratureTypeOK
<1> HIDE DEF row, record
<1> QED BY <1>1, <1>2, <1>3, RowKeeps DEF Record1

LEMMA GapAssessmentKeeps ==
  ASSUME LiteratureInv, NEW c \in CommandIds, NEW event \in LitCommands, NEW Q \in SUBSET CommandIds,
         NEW status \in Status, RecordGapAssessment(c, event, Q, status)
  PROVE  LiteratureInv' /\ Recorded
<1> DEFINE row == [kind |-> "gap", event |-> event, queries |-> Q, status |-> status, notes |-> {}]
<1>1. row \in LitRows /\ row.kind = "gap" /\ row.event = event /\ row.queries = Q
  BY DEF LitRows
<1>2. Record1(c, row, InsertOnly(c, row))
  BY DEF RecordGapAssessment
<1>3. /\ Is(event, "event")
      /\ \A q \in Q : Is(q, "query") /\ litRows[q].protocol = litRows[litRows[event].query].protocol
  BY DEF RecordGapAssessment
<1>4. corpus \subseteq Records
  BY DEF LiteratureInv, LiteratureTypeOK
<1> HIDE DEF row
<1> QED BY <1>1, <1>2, <1>3, <1>4, RowKeeps DEF Record1, InsertOnly

LEMMA ContributionKeeps ==
  ASSUME LiteratureInv, NEW c \in CommandIds, NEW g \in CommandIds, RecordContributionProposal(c, g)
  PROVE  LiteratureInv' /\ Recorded
<1> DEFINE row == [kind |-> "contribution", gap |-> g]
<1>1. row \in LitRows /\ row.kind = "contribution"
  BY DEF LitRows
<1>2. Record1(c, row, InsertOnly(c, row))
  BY DEF RecordContributionProposal
<1>3. corpus \subseteq Records
  BY DEF LiteratureInv, LiteratureTypeOK
<1> HIDE DEF row
<1> QED BY <1>1, <1>2, <1>3, RowKeeps DEF Record1, InsertOnly

\* Rows stay as they are.
LEMMA SameRows ==
  ASSUME LiteratureInv, UNCHANGED <<litRows, screened, queue>>, challenged \subseteq challenged'
  PROVE  RowsGrow /\ RowsPlaced' /\ TestedGapIsChallenged' /\ DecisionsInOrder' /\ ScreeningIsTraceable'
<1>1. RowsGrow
  BY DEF RowsGrow
<1>2. RowsPlaced' /\ TestedGapIsChallenged'
  BY <1>1, PlacesStay DEF Is
<1> QED BY <1>1, <1>2, ScreeningStays

LEMMA CallsEnd ==
  ASSUME LiteratureInv, RowsGrow, OpsGrow,
         calls' \in {calls, NoCalls} \/ \E c \in CommandIds : calls' = [calls EXCEPT ![c] = Nothing]
  PROVE  CallsPlaced' /\ calls' \in [CommandIds -> LitCalls \cup {Nothing}]
<1>1. calls \in [CommandIds -> LitCalls \cup {Nothing}]
  BY DEF LiteratureInv, LiteratureTypeOK
<1>2. calls' \in [CommandIds -> LitCalls \cup {Nothing}] /\ \A d \in CommandIds : calls'[d] \in {calls[d], Nothing}
  BY <1>1 DEF NoCalls
<1> QED BY <1>2, CallsStay

\* What is found for a protocol is a record of it.
LEMMA FoundRecords ==
  ASSUME LiteratureInv, NEW p \in LitCommands, NEW i \in Identities
  PROVE  RecordOf(p, i) \in Records /\ RecordOf(p, i).protocol = p
<1> DEFINE known == {r \in corpus : r.protocol = p /\ r.identity = i}
<1>1. CASE known = {}
  BY <1>1 DEF RecordOf, Records
<1>2. CASE known # {}
  <2>1. (CHOOSE r \in known : TRUE) \in known
    BY <1>2
  <2>2. corpus \subseteq Records
    BY DEF LiteratureInv, LiteratureTypeOK
  <2> QED BY <1>2, <2>1, <2>2 DEF RecordOf
<1> QED BY <1>1, <1>2

LEMMA ExploreKeeps ==
  ASSUME LiteratureInv, NEW c \in CommandIds, NEW p \in LitCommands, NEW I \in SUBSET Identities,
         NEW E \in SUBSET (Records \X Records), NEW found \in SUBSET (Records \X Records),
         ExploreCitations(c, p, I, E, found)
  PROVE  LiteratureInv' /\ Recorded
<1> DEFINE row == [kind |-> "exploration", protocol |-> p, identities |-> I, edges |-> E]
           records == {RecordOf(p, i) : i \in I}
<1>1. corpus \subseteq Records /\ edges \subseteq corpus \X corpus
  BY DEF LiteratureInv, LiteratureTypeOK
<1>2. row \in LitPayloads /\ row.kind = "exploration" /\ c \in LitCommands
  BY DEF LitPayloads, LitCommands
<1>3. records \subseteq Records
  BY FoundRecords
<1>4. /\ Begins(c, row) /\ UNCHANGED <<litRows, screened, queue, challenged>>
      /\ \/ /\ \E some \in SUBSET records : corpus' = corpus \cup some
            /\ litOps' = [litOps EXCEPT ![c] = Pending(row)] /\ calls' \in {calls, NoCalls} /\ edges' = edges
         \/ /\ corpus' = corpus \cup records
            /\ E \subseteq corpus' \X corpus' /\ found \subseteq corpus' \X corpus'
            /\ edges' = edges \cup E \cup found
            /\ \/ litOps' = [litOps EXCEPT ![c] = Complete(row)] /\ calls' = calls
               \/ litOps' = [litOps EXCEPT ![c] = Pending(row)] /\ calls' = NoCalls
  <2> DEFINE ofThis == {r \in corpus' : r.protocol = p}
  <2>1. corpus' \X ofThis \subseteq corpus' \X corpus'
    OBVIOUS
  <2> QED BY <2>1 DEF ExploreCitations
<1> HIDE DEF row, records
<1>5. corpus \subseteq corpus' /\ corpus' \subseteq Records /\ edges' \subseteq corpus' \X corpus'
  BY <1>1, <1>3, <1>4
<1>6. /\ litOps' = [litOps EXCEPT ![c] = Pending(row)] \/ litOps' = [litOps EXCEPT ![c] = Complete(row)]
      /\ calls' \in {calls, NoCalls} /\ UNCHANGED <<litRows, screened, queue, challenged>> /\ Begins(c, row)
  BY <1>4
<1>7. /\ OpsGrow /\ CompleteStands /\ litOps' \in [LitCommands -> LitOps \cup {Nothing}]
      /\ litOps'[c] # Nothing /\ litOps'[c].payload = row
      /\ \A d \in LitCommands : d # c => litOps'[d] = litOps[d]
  BY <1>2, <1>6, NotedGrows
<1>8. RowsGrow /\ RowsPlaced' /\ TestedGapIsChallenged' /\ DecisionsInOrder' /\ ScreeningIsTraceable'
  BY <1>6, SameRows
<1>9. CallsPlaced' /\ calls' \in [CommandIds -> LitCalls \cup {Nothing}]
  BY <1>6, <1>7, <1>8, CallsEnd
<1>10. LiteratureTypeOK'
  BY <1>5, <1>6, <1>7, <1>9 DEF LiteratureInv, LiteratureTypeOK
<1>11. CompleteHasRow' /\ CompleteIsNoted'
  BY <1>2, <1>7, <1>8, CompleteStays
<1>12. SearchesPlaced'
  BY <1>6, <1>7, <1>8, SearchesStay, IdsDiffer DEF Is
<1>13. Recorded
  BY <1>6, <1>7, RecordedParts DEF RowsStand
<1> QED BY <1>8, <1>9, <1>10, <1>11, <1>12, <1>13 DEF LiteratureInv, LiteratureHolds

LEMMA AmendKeeps ==
  ASSUME LiteratureInv, NEW c \in CommandIds, NEW p \in LitCommands, AmendEligibility(c, p)
  PROVE  LiteratureInv' /\ Recorded
<1> DEFINE amended == <<c, "protocol">>
           row == [kind |-> "amendment", from |-> p, to |-> amended]
           protocol == [kind |-> "protocol"]
<1>1. /\ c \in LitCommands /\ amended \in LitCommands /\ c # amended
      /\ \A d \in CommandIds : <<d, "search">> # c /\ <<d, "search">> # amended /\ <<d, "protocol">> # c
  BY IdsDiffer
<1>2. /\ row \in LitRows /\ row \in LitPayloads /\ row.kind = "amendment" /\ row # Nothing
      /\ protocol \in LitRows /\ protocol.kind = "protocol" /\ protocol # Nothing
  BY <1>1, LiteratureAssumption DEF LitRows, LitPayloads
<1>3. /\ Begins(c, row) /\ litRows[c] = Nothing
      /\ UNCHANGED <<corpus, edges, screened, queue, challenged>>
      /\ \/ /\ litRows' = [litRows EXCEPT ![c] = row, ![amended] = protocol]
            /\ litOps' = [litOps EXCEPT ![c] = Complete(row)] /\ calls' = calls
         \/ litOps' = [litOps EXCEPT ![c] = Pending(row)] /\ calls' = NoCalls /\ litRows' = litRows
  BY DEF AmendEligibility, Fresh
<1>4. litRows[amended] \in {Nothing, protocol}
  BY DEF LiteratureInv, SearchesPlaced
<1> HIDE DEF row, protocol, amended
<1>5. litRows \in [LitCommands -> LitRows \cup {Nothing}]
  BY DEF LiteratureInv, LiteratureTypeOK
<1>6. /\ litRows' \in [LitCommands -> LitRows \cup {Nothing}]
      /\ litRows'[c] \in {Nothing, row} /\ litRows'[amended] \in {litRows[amended], protocol}
      /\ \A d \in LitCommands : d # c /\ d # amended => litRows'[d] = litRows[d]
  BY <1>1, <1>2, <1>3, <1>5
<1>7. RowsGrow
  BY <1>2, <1>3, <1>4, <1>6 DEF RowsGrow
<1>8. /\ OpsGrow /\ CompleteStands /\ litOps' \in [LitCommands -> LitOps \cup {Nothing}]
      /\ litOps'[c] # Nothing /\ litOps'[c].payload = row
      /\ litOps'[c] = Pending(row) \/ litRows'[c] = row
      /\ \A d \in LitCommands : d # c => litOps'[d] = litOps[d]
  <2>1. litOps'[c] = Pending(row) \/ litRows'[c] = row
    BY <1>1, <1>3, <1>5 DEF LiteratureInv, LiteratureTypeOK
  <2> QED BY <2>1, <1>1, <1>2, <1>3, NotedGrows
<1>9. CallsPlaced' /\ calls' \in [CommandIds -> LitCalls \cup {Nothing}]
  BY <1>3, <1>7, <1>8, CallsEnd
<1>10. LiteratureTypeOK'
  BY <1>3, <1>6, <1>8, <1>9 DEF LiteratureInv, LiteratureTypeOK
<1>11. ASSUME NEW d \in LitCommands, litRows[d] = Nothing
       PROVE  litRows'[d] # Nothing => litRows'[d].kind \in {"amendment", "protocol"}
  BY <1>11, <1>2, <1>6
<1>12. RowsPlaced' /\ TestedGapIsChallenged'
  BY <1>3, <1>7, <1>11, PlacesStay DEF Is
<1>13. CompleteHasRow' /\ CompleteIsNoted'
  <2>1. Pending(row).status # "complete"
    BY DEF Pending
  <2>2. ASSUME NEW d \in LitCommands, litOps'[d] # litOps[d], litOps'[d].status = "complete"
        PROVE  NowIs(d, litOps'[d].payload.kind) /\ litOps'[d].payload.kind # "decision"
    BY <2>1, <2>2, <1>2, <1>8 DEF NowIs
  <2> QED BY <2>2, <1>7, <1>8, CompleteStays
<1>14. SearchesPlaced'
  <2>1. ASSUME NEW d \in CommandIds
        PROVE  /\ litRows'[<<d, "search">>] = litRows[<<d, "search">>]
               /\ litOps'[<<d, "search">>] = litOps[<<d, "search">>]
               /\ litRows'[<<d, "protocol">>] \in {litRows[<<d, "protocol">>], protocol}
    BY <1>1, <1>6, <1>8, IdsDiffer
  <2> QED BY <2>1, <1>7, <1>8, SearchesStay DEF Is, protocol
<1>15. DecisionsInOrder' /\ ScreeningIsTraceable'
  <2>1. ASSUME NEW d \in CommandIds, Is(d, "decision")' PROVE litRows'[d] = litRows[d]
    BY <2>1, <1>2, <1>6 DEF Is, LitCommands
  <2> QED BY <2>1, <1>3, <1>7, ScreeningStays
<1>16. Recorded
  BY <1>3, <1>4, <1>6, <1>8, RecordedParts DEF RowsStand
<1> QED BY <1>9, <1>10, <1>12, <1>13, <1>14, <1>15, <1>16 DEF LiteratureInv, LiteratureHolds

-----------------------------------------------------------------------------
LEMMA EndedCallKeeps ==
  ASSUME LiteratureInv,
         calls' \in {calls, NoCalls} \/ \E c \in CommandIds : calls' = [calls EXCEPT ![c] = Nothing],
         corpus \subseteq corpus', corpus' \subseteq Records,
         UNCHANGED <<litRows, litOps, edges, screened, queue, challenged>>
  PROVE  LiteratureInv' /\ Recorded
<1>1. OpsGrow
  BY DEF OpsGrow
<1>2. RowsGrow /\ RowsPlaced' /\ TestedGapIsChallenged' /\ DecisionsInOrder' /\ ScreeningIsTraceable'
  BY SameRows
<1>3. CallsPlaced' /\ calls' \in [CommandIds -> LitCalls \cup {Nothing}]
  BY <1>1, <1>2, CallsEnd
<1>4. CompleteHasRow' /\ CompleteIsNoted'
  BY <1>1, <1>2, CompleteStays
<1>5. SearchesPlaced'
  BY <1>1, <1>2, SearchesStay DEF Is
<1>6. LiteratureTypeOK'
  BY <1>3 DEF LiteratureInv, LiteratureTypeOK
<1>7. Recorded
  BY RecordedParts DEF CompleteStands, RowsStand
<1> QED BY <1>2, <1>3, <1>4, <1>5, <1>6, <1>7 DEF LiteratureInv, LiteratureHolds

LEMMA RetrievalKeeps ==
  ASSUME LiteratureInv, NEW c \in CommandIds, NEW q \in CommandIds, RunAuthorizedRetrieval(c, q)
  PROVE  LiteratureInv' /\ Recorded
<1> DEFINE payload == [kind |-> "event", query |-> q]
           call == [stage |-> "asked", row |-> c, query |-> q, gap |-> Nothing, notes |-> {}]
<1>1. payload \in LitPayloads /\ c \in LitCommands /\ call \in LitCalls /\ call # Nothing
  BY LiteratureAssumption DEF LitPayloads, LitCommands, LitCalls
<1>2. /\ Begins(c, payload) /\ Is(q, "query") /\ litOps' = [litOps EXCEPT ![c] = Pending(payload)]
      /\ calls' \in {calls, [calls EXCEPT ![c] = call]}
      /\ UNCHANGED <<litRows, corpus, edges, screened, queue, challenged>>
  BY DEF RunAuthorizedRetrieval, Ask
<1>3. /\ OpsGrow /\ CompleteStands /\ litOps' \in [LitCommands -> LitOps \cup {Nothing}]
      /\ litOps'[c] = Pending(payload) /\ litOps'[c] # Nothing /\ litOps'[c].payload = payload
      /\ \A d \in LitCommands : d # c => litOps'[d] = litOps[d]
  <2> HIDE DEF payload
  <2>1. litOps'[c] = Pending(payload)
    BY <1>1, <1>2 DEF LiteratureInv, LiteratureTypeOK
  <2> QED BY <2>1, <1>1, <1>2, NotedGrows
<1>4. RowsGrow /\ RowsPlaced' /\ TestedGapIsChallenged' /\ DecisionsInOrder' /\ ScreeningIsTraceable'
  BY <1>2, SameRows
<1>5. calls' \in [CommandIds -> LitCalls \cup {Nothing}] /\ calls'[c] \in {calls[c], call}
      /\ \A d \in CommandIds : d # c => calls'[d] = calls[d]
  <2> HIDE DEF call
  <2> QED BY <1>1, <1>2 DEF LiteratureInv, LiteratureTypeOK
<1>6. CallsPlaced'
  <2>1. ASSUME calls'[c] = call PROVE CallPlaced(c)'
    BY <2>1, <1>2, <1>3 DEF CallPlaced, Is
  <2> HIDE DEF call
  <2> QED BY <2>1, <1>3, <1>4, <1>5, CallsStay
<1>7. CompleteHasRow' /\ CompleteIsNoted'
  <2>1. Pending(payload).status # "complete"
    BY DEF Pending
  <2>2. \A d \in LitCommands : litOps'[d].status = "complete" => litOps'[d] = litOps[d]
    BY <2>1, <1>3
  <2> QED BY <2>2, <1>3, <1>4, CompleteStays
<1>8. SearchesPlaced'
  <2>1. \A d \in CommandIds : litOps'[<<d, "search">>] = litOps[<<d, "search">>]
    BY <1>3, IdsDiffer
  <2> QED BY <2>1, <1>2, <1>3, <1>4, SearchesStay DEF Is
<1>9. LiteratureTypeOK'
  BY <1>2, <1>3, <1>5 DEF LiteratureInv, LiteratureTypeOK
<1>10. Recorded
  BY <1>2, <1>3, RecordedParts DEF RowsStand
<1> QED BY <1>4, <1>6, <1>7, <1>8, <1>9, <1>10 DEF LiteratureInv, LiteratureHolds

LEMMA CounterSearchKeeps ==
  ASSUME LiteratureInv, NEW c \in CommandIds, NEW g \in CommandIds, NEW q \in CommandIds,
         RunCounterSearch(c, g, q)
  PROVE  LiteratureInv' /\ Recorded
<1> DEFINE payload == [kind |-> "counter", gap |-> g, query |-> q]
           search == <<c, "search">>
           event == [kind |-> "event", query |-> q]
           stage == IF Is(search, "event") /\ litOps[search].status = "complete" THEN "found" ELSE "asked"
           call == [stage |-> stage, row |-> search, query |-> q, gap |-> g, notes |-> litRows[g].notes]
<1>1. /\ c \in LitCommands /\ g \in LitCommands /\ search \in LitCommands /\ c # search
      /\ g # Nothing /\ payload \in LitPayloads /\ event \in LitPayloads
  BY IdsDiffer, LiteratureAssumption DEF LitPayloads, LitCommands
<1>2. /\ Begins(c, payload) /\ Is(g, "gap") /\ q \in litRows[g].queries
      /\ litOps' = [litOps EXCEPT ![c] = Pending(payload),
                                  ![search] = IF @ = Nothing THEN Pending(event) ELSE @]
      /\ calls' \in {calls, [calls EXCEPT ![c] = call]}
      /\ UNCHANGED <<litRows, corpus, edges, screened, queue, challenged>>
  BY DEF RunCounterSearch, Ask
<1>3. /\ Pending(payload) \in LitOps /\ Pending(payload) # Nothing /\ Pending(payload).payload = payload
      /\ Pending(payload).status = "pending"
      /\ Pending(event) \in LitOps /\ Pending(event) # Nothing /\ Pending(event).payload = event
      /\ Pending(event).status = "pending"
  BY <1>1, LiteratureAssumption DEF LitOps, Pending
<1>4. litRows[g] \in LitRows /\ litRows[g].kind = "gap" /\ Is(q, "query")
  <2>1. litRows[g] \in LitRows /\ litRows[g].kind = "gap"
    BY <1>1, <1>2 DEF LiteratureInv, LiteratureTypeOK, Is
  <2>2. GapPlaced(g)
    BY <1>1, <1>2 DEF LiteratureInv, RowsPlaced
  <2> QED BY <2>1, <2>2, <1>2 DEF GapPlaced
<1>5. call \in LitCalls /\ call # Nothing
  <2>1. litRows[g].notes \subseteq CommandIds
    BY <1>4, RowShape
  <2>2. stage \in {"asked", "found"}
    OBVIOUS
  <2>3. call \in LitCalls
    BY <2>1, <2>2, <1>1 DEF LitCalls
  <2> QED BY <2>3, LiteratureAssumption
<1>6. /\ litOps' \in [LitCommands -> LitOps \cup {Nothing}] /\ litOps'[c] = Pending(payload)
      /\ litOps[search] = Nothing => litOps'[search] = Pending(event)
      /\ litOps[search] # Nothing => litOps'[search] = litOps[search]
      /\ \A d \in LitCommands : d # c /\ d # search => litOps'[d] = litOps[d]
  <2> HIDE DEF payload, event, search
  <2>1. litOps \in [LitCommands -> LitOps \cup {Nothing}]
    BY DEF LiteratureInv, LiteratureTypeOK
  <2> QED BY <2>1, <1>1, <1>2, <1>3
<1>7. OpsGrow /\ CompleteStands
  <2> HIDE DEF payload, event, search
  <2> QED BY <1>2, <1>3, <1>6 DEF OpsGrow, CompleteStands, Begins
<1>8. RowsGrow /\ RowsPlaced' /\ TestedGapIsChallenged' /\ DecisionsInOrder' /\ ScreeningIsTraceable'
  BY <1>2, SameRows
<1>9. calls' \in [CommandIds -> LitCalls \cup {Nothing}] /\ calls'[c] \in {calls[c], call}
      /\ \A d \in CommandIds : d # c => calls'[d] = calls[d]
  <2> HIDE DEF call
  <2> QED BY <1>2, <1>5 DEF LiteratureInv, LiteratureTypeOK
<1>10. CallsPlaced'
  <2>1. ASSUME calls'[c] = call PROVE CallPlaced(c)'
    <3>1. call.stage = "found" => Is(search, "event")
      OBVIOUS
    <3>2. litOps'[search] # Nothing /\ litOps'[c] # Nothing /\ litOps'[c].payload = payload
      BY <1>3, <1>6
    <3> QED BY <2>1, <3>1, <3>2, <1>1, <1>2, <1>4 DEF CallPlaced, Is
  <2> HIDE DEF call
  <2> QED BY <2>1, <1>7, <1>8, <1>9, CallsStay
<1>11. CompleteHasRow' /\ CompleteIsNoted'
  <2> HIDE DEF payload, event, search
  <2>1. \A d \in LitCommands : litOps'[d].status = "complete" => litOps'[d] = litOps[d]
    BY <1>3, <1>6
  <2> QED BY <2>1, <1>7, <1>8, CompleteStays
<1>12. SearchesPlaced'
  <2>1. \A d \in CommandIds : d # c => litOps'[<<d, "search">>] = litOps[<<d, "search">>]
    BY <1>6, IdsDiffer
  <2>2. litOps[search] = Nothing =>
          /\ litOps'[c] # Nothing /\ litOps'[c].payload.kind = "counter"
          /\ litOps'[search].payload = [kind |-> "event", query |-> litOps'[c].payload.query]
    BY <1>3, <1>6
  <2> QED BY <2>1, <2>2, <1>2, <1>7, <1>8, SearchesStay DEF Is
<1>13. LiteratureTypeOK'
  BY <1>2, <1>6, <1>9 DEF LiteratureInv, LiteratureTypeOK
<1>14. Recorded
  BY <1>2, <1>7, RecordedParts DEF RowsStand
<1> QED BY <1>8, <1>10, <1>11, <1>12, <1>13, <1>14 DEF LiteratureInv, LiteratureHolds

LEMMA FailedRetrievalKeeps ==
  ASSUME LiteratureInv, NEW c \in CommandIds, NEW hits \in SUBSET Identities, RetrievalFails(c, hits)
  PROVE  LiteratureInv' /\ Recorded
<1>1. PICK q \in LitCommands : q = calls[c].query /\ Is(q, "query")
  <2>1. calls[c] \in LitCalls /\ CallPlaced(c)
    BY DEF LiteratureInv, LiteratureTypeOK, CallsPlaced, RetrievalFails
  <2> QED BY <2>1 DEF CallPlaced, LitCalls, LitCommands
<1>2. litRows[q].protocol \in LitCommands
  <2>1. litRows[q] \in LitRows /\ litRows[q].kind = "query"
    BY <1>1 DEF LiteratureInv, LiteratureTypeOK, Is
  <2> QED BY <2>1, RowShape
<1> DEFINE records == {RecordOf(litRows[q].protocol, i) : i \in hits}
<1>3. records \subseteq Records
  BY <1>2, FoundRecords
<1>4. corpus' = corpus \cup records /\ corpus \subseteq Records
  BY <1>1 DEF RetrievalFails, LiteratureInv, LiteratureTypeOK
<1> HIDE DEF records
<1> QED BY <1>3, <1>4, EndedCallKeeps DEF RetrievalFails

LEMMA ReportKeeps ==
  ASSUME LiteratureInv, NEW c \in CommandIds, NEW hits \in SUBSET Identities, Report1(c, hits)
  PROVE  LiteratureInv' /\ Recorded
<1>1. PICK call \in LitCalls :
        /\ call = calls[c] /\ call # Nothing /\ call.stage = "asked" /\ CallPlaced(c)
        /\ call.row \in LitCommands /\ call.query \in CommandIds /\ call.query \in LitCommands
  <2>1. calls[c] # Nothing /\ calls[c].stage = "asked"
    BY DEF Report1
  <2>2. calls[c] \in LitCalls /\ CallPlaced(c)
    BY <2>1 DEF LiteratureInv, LiteratureTypeOK, CallsPlaced
  <2> QED BY <2>1, <2>2 DEF LitCalls, LitCommands
<1> DEFINE records == {RecordOf(litRows[call.query].protocol, i) : i \in hits}
           event == [kind |-> "event", query |-> call.query, records |-> records]
           over == [calls EXCEPT ![c] = IF call.gap = Nothing THEN Nothing ELSE [call EXCEPT !.stage = "found"]]
           row == call.row
<1>2. /\ corpus' = corpus \cup records /\ UNCHANGED <<edges, screened, queue, challenged>>
      /\ \/ /\ litRows[row] = Nothing /\ litRows' = [litRows EXCEPT ![row] = event]
            /\ \/ litOps' = [litOps EXCEPT ![row].status = "complete"] /\ calls' = over
               \/ UNCHANGED litOps /\ calls' = NoCalls
         \/ litRows[row] # Nothing /\ calls' = [calls EXCEPT ![c] = Nothing] /\ UNCHANGED <<litRows, litOps>>
  BY <1>1 DEF Report1
<1>3. /\ Is(call.query, "query") /\ litOps[c] # Nothing /\ litOps[row] # Nothing
      /\ litOps[row].payload = [kind |-> "event", query |-> call.query]
      /\ row = c \/ (row = <<c, "search">> /\ call.gap # Nothing)
  <2>1. /\ Is(call.query, "query") /\ litOps[c] # Nothing
        /\ call.gap = Nothing => row = c /\ litOps[c].payload = [kind |-> "event", query |-> call.query]
        /\ call.gap # Nothing =>
             /\ row = <<c, "search">> /\ litOps[row] # Nothing
             /\ litOps[c].payload = [kind |-> "counter", gap |-> call.gap, query |-> call.query]
    BY <1>1 DEF CallPlaced
  <2>2. SearchPlaced(c)
    BY DEF LiteratureInv, SearchesPlaced
  <2> QED BY <2>1, <2>2 DEF SearchPlaced
<1>4. litRows \in [LitCommands -> LitRows \cup {Nothing}] /\ litOps \in [LitCommands -> LitOps \cup {Nothing}]
  BY DEF LiteratureInv, LiteratureTypeOK
<1>5. records \subseteq Records /\ \A r \in records : r.protocol = litRows[call.query].protocol
  <2>1. litRows[call.query] \in LitRows /\ litRows[call.query].kind = "query"
    BY <1>1, <1>3, <1>4 DEF Is
  <2> QED BY <2>1, RowShape, FoundRecords
<1>6. event \in LitRows /\ event # Nothing /\ event.kind = "event"
  BY <1>1, <1>5, LiteratureAssumption DEF LitRows
<1>7. corpus \subseteq corpus' /\ corpus' \subseteq Records
  BY <1>2, <1>5 DEF LiteratureInv, LiteratureTypeOK
<1> HIDE DEF records, row
<1>8. /\ litRows' \in [LitCommands -> LitRows \cup {Nothing}]
      /\ litRows[row] = Nothing => litRows'[row] = event
      /\ litRows[row] # Nothing => litRows'[row] = litRows[row]
      /\ \A d \in LitCommands : d # row => litRows'[d] = litRows[d]
      /\ row \in LitCommands
  <2> HIDE DEF event
  <2> QED BY <1>1, <1>2, <1>4, <1>6 DEF row
<1>9. RowsGrow
  BY <1>6, <1>8 DEF RowsGrow
<1>10. /\ litOps' \in [LitCommands -> LitOps \cup {Nothing}] /\ OpsGrow
       /\ \A d \in LitCommands : d # row => litOps'[d] = litOps[d]
       /\ litOps'[row] # Nothing
       /\ litOps'[row] # litOps[row] => litRows'[row] = event
       /\ litOps'[row].payload = litOps[row].payload
       /\ CompleteStands
  <2>1. ASSUME litOps' = [litOps EXCEPT ![row].status = "complete"]
        PROVE  /\ litOps'[row] \in LitOps /\ litOps'[row].payload = litOps[row].payload
               /\ litOps[row].status = "complete" => litOps'[row] = litOps[row]
               /\ \A d \in LitCommands : d # row => litOps'[d] = litOps[d]
               /\ litOps' \in [LitCommands -> LitOps \cup {Nothing}]
    <3>1. litOps[row] \in LitOps
      BY <1>3, <1>4, <1>8
    <3> DEFINE done == [litOps[row] EXCEPT !.status = "complete"]
    <3>2. /\ done \in LitOps /\ done.payload = litOps[row].payload
          /\ litOps[row].status = "complete" => done = litOps[row]
      BY <3>1 DEF LitOps
    <3>3. litOps' = [litOps EXCEPT ![row] = done]
      BY <2>1
    <3> HIDE DEF done
    <3>4. litOps'[row] = done /\ \A d \in LitCommands : d # row => litOps'[d] = litOps[d]
      BY <3>3, <1>4, <1>8
    <3>5. litOps' \in [LitCommands -> LitOps \cup {Nothing}]
      BY <3>2, <3>3, <1>4
    <3> QED BY <3>2, <3>4, <3>5
  <2> HIDE DEF event, over
  <2> QED BY <2>1, <1>2, <1>3, <1>4, <1>8, LiteratureAssumption DEF OpsGrow, CompleteStands
<1>11. RowsPlaced' /\ TestedGapIsChallenged'
  <2>1. ASSUME NEW d \in LitCommands, litRows[d] = Nothing
        PROVE  /\ Is(d, "event")' => EventPlaced(d)'
               /\ Is(d, "gap")' => GapPlaced(d)'
               /\ ~Is(d, "counter")'
    <3>1. CASE d # row
      BY <3>1, <2>1, <1>8 DEF Is
    <3>2. CASE d = row
      <4>1. litRows'[d] = event
        BY <2>1, <3>2, <1>8
      <4>2. litRows'[call.query] = litRows[call.query] /\ Is(call.query, "query")'
        BY <1>1, <1>3, <1>9 DEF RowsGrow, Is
      <4> QED BY <4>1, <4>2, <1>5 DEF EventPlaced, Is
    <3> QED BY <3>1, <3>2
  <2> QED BY <2>1, <1>2, <1>9, PlacesStay
<1>12. CompleteHasRow' /\ CompleteIsNoted'
  <2>1. ASSUME NEW d \in LitCommands, litOps'[d] # litOps[d]
        PROVE  NowIs(d, litOps'[d].payload.kind) /\ litOps'[d].payload.kind # "decision"
    <3>1. d = row /\ litRows'[d] = event /\ litOps'[d].payload.kind = "event"
      BY <2>1, <1>3, <1>10
    <3> QED BY <3>1, <1>6 DEF NowIs
  <2> HIDE DEF event
  <2> QED BY <2>1, <1>9, <1>10, CompleteStays
<1>13. SearchesPlaced'
  <2>1. ASSUME NEW d \in CommandIds
        PROVE  LET s == <<d, "search">>
                   p == <<d, "protocol">>
               IN  /\ litRows[s] = Nothing /\ Is(s, "event")' =>
                        litOps[s] # Nothing /\ litRows'[s].query = litOps[s].payload.query
                   /\ litOps[s] = Nothing => litOps'[s] = Nothing
                   /\ litRows'[p] = litRows[p]
    <3> DEFINE s == <<d, "search">>
               p == <<d, "protocol">>
    <3>1. s \in LitCommands /\ p \in LitCommands /\ p # row
      BY <1>3, IdsDiffer
    <3>2. litRows'[p] = litRows[p] /\ (litOps[s] = Nothing => litOps'[s] = Nothing)
      BY <3>1, <1>3, <1>8, <1>10
    <3>3. ASSUME litRows[s] = Nothing, Is(s, "event")'
          PROVE  litOps[s] # Nothing /\ litRows'[s].query = litOps[s].payload.query
      <4>1. s = row
        BY <3>1, <3>3, <1>8 DEF Is
      <4> QED BY <4>1, <3>3, <1>3, <1>8
    <3> QED BY <3>2, <3>3
  <2> QED BY <2>1, <1>9, <1>10, SearchesStay
<1>14. CallsPlaced' /\ calls' \in [CommandIds -> LitCalls \cup {Nothing}]
  <2>1. CASE calls' = NoCalls \/ calls' = [calls EXCEPT ![c] = Nothing]
    BY <2>1, <1>9, <1>10, CallsEnd
  <2>2. CASE calls' = over /\ litRows' = [litRows EXCEPT ![row] = event] /\ litRows[row] = Nothing
    <3> DEFINE found == [call EXCEPT !.stage = "found"]
    <3>1. found \in LitCalls /\ found # Nothing /\ found.stage = "found" /\ found.gap = call.gap
          /\ found.row = row /\ found.query = call.query
      BY LiteratureAssumption DEF LitCalls, row
    <3>2. calls \in [CommandIds -> LitCalls \cup {Nothing}]
      BY DEF LiteratureInv, LiteratureTypeOK
    <3>3. calls' \in [CommandIds -> LitCalls \cup {Nothing}]
          /\ (calls'[c] # Nothing => call.gap # Nothing /\ calls'[c] = found)
          /\ \A d \in CommandIds : d # c => calls'[d] = calls[d]
      <4> HIDE DEF found
      <4> QED BY <2>2, <3>1, <3>2 DEF found
    <3>4. ASSUME calls'[c] # Nothing PROVE CallPlaced(c)'
      <4>1. calls'[c] = found /\ call.gap # Nothing
        BY <3>3, <3>4
      <4>2. /\ row = <<c, "search">> /\ litOps[c].payload = [kind |-> "counter", gap |-> call.gap, query |-> call.query]
            /\ Is(call.gap, "gap") /\ call.query \in litRows[call.gap].queries /\ call.gap \in LitCommands
        BY <4>1, <1>1 DEF CallPlaced, row, LitCalls, LitCommands
      <4>3. /\ Is(call.gap, "gap")' /\ litRows'[call.gap].queries = litRows[call.gap].queries
            /\ Is(call.query, "query")' /\ Is(row, "event")'
        BY <4>2, <2>2, <1>1, <1>3, <1>6, <1>8, <1>9 DEF RowsGrow, Is
      <4>4. litOps'[c] # Nothing /\ litOps'[c].payload = litOps[c].payload /\ litOps'[row] # Nothing
        BY <1>3, <1>8, <1>10 DEF OpsGrow, LitCommands
      <4> HIDE DEF found
      <4> QED BY <4>1, <4>2, <4>3, <4>4, <3>1 DEF CallPlaced, Is
    <3> HIDE DEF found, over, event
    <3> QED BY <3>3, <3>4, <1>9, <1>10, CallsStay
  <2> HIDE DEF over, event
  <2> QED BY <2>1, <2>2, <1>2
<1>15. DecisionsInOrder' /\ ScreeningIsTraceable'
  <2>1. ASSUME NEW d \in CommandIds, Is(d, "decision")' PROVE litRows'[d] = litRows[d]
    BY <2>1, <1>6, <1>8 DEF Is, LitCommands
  <2> QED BY <2>1, <1>2, <1>9, ScreeningStays
<1>16. LiteratureTypeOK'
  BY <1>2, <1>7, <1>8, <1>10, <1>14 DEF LiteratureInv, LiteratureTypeOK
<1>17. Recorded
  BY <1>2, <1>8, <1>10, RecordedParts DEF RowsStand
<1> QED BY <1>11, <1>12, <1>13, <1>14, <1>15, <1>16, <1>17 DEF LiteratureInv, LiteratureHolds

LEMMA FinishKeeps ==
  ASSUME LiteratureInv, NEW c \in CommandIds, NEW located \in SUBSET corpus, FinishCounterSearch(c, located)
  PROVE  LiteratureInv' /\ Recorded
<1>1. PICK call \in LitCalls :
        call = calls[c] /\ call # Nothing /\ call.stage = "found" /\ CallPlaced(c)
  <2>1. calls[c] # Nothing /\ calls[c].stage = "found"
    BY DEF FinishCounterSearch
  <2> QED BY <2>1 DEF LiteratureInv, LiteratureTypeOK, CallsPlaced
<1>2. PICK g \in CommandIds : g = call.gap
  BY <1>1 DEF CallPlaced, LitCalls
<1>3. PICK s \in LitCommands : s = <<c, "search">> /\ s = call.row
  BY <1>1, <1>2, LiteratureAssumption, IdsDiffer DEF CallPlaced
<1>4. /\ Is(g, "gap") /\ call.query \in litRows[g].queries /\ Is(s, "event")
      /\ litOps[c] # Nothing /\ litOps[c].payload = [kind |-> "counter", gap |-> g, query |-> call.query]
      /\ litOps[s] # Nothing
  BY <1>1, <1>2, <1>3, LiteratureAssumption DEF CallPlaced
<1>5. litRows[s].query = call.query
  <2>1. SearchPlaced(c)
    BY DEF LiteratureInv, SearchesPlaced
  <2> QED BY <2>1, <1>3, <1>4 DEF SearchPlaced
<1> DEFINE contrary == litRows[s].records
           tested == IF contrary = {} THEN "narrowed" ELSE "revised"
           noted == call.notes \cup {c}
           row == [kind |-> "counter", gap |-> g, event |-> s, contrary |-> contrary]
           gap == [litRows[g] EXCEPT !.status = tested, !.notes = noted]
           recorded == /\ located = contrary /\ litRows[c] = Nothing
                       /\ litRows' = [litRows EXCEPT ![c] = row, ![g] = gap]
<1>6. c \in LitCommands /\ g \in LitCommands
  BY DEF LitCommands
<1>7. litRows \in [LitCommands -> LitRows \cup {Nothing}] /\ litOps \in [LitCommands -> LitOps \cup {Nothing}]
  BY DEF LiteratureInv, LiteratureTypeOK
<1>8. litRows[g] \in LitRows /\ litRows[g].kind = "gap" /\ litRows[s] \in LitRows /\ litRows[s].kind = "event"
  BY <1>4, <1>6, <1>7 DEF Is
<1>9. /\ located \subseteq contrary /\ challenged' = challenged \cup {<<c, r>> : r \in located}
      /\ UNCHANGED <<corpus, edges, screened, queue>>
      /\ \/ recorded /\ litOps' = [litOps EXCEPT ![c].status = "complete"] /\ calls' = [calls EXCEPT ![c] = Nothing]
         \/ recorded /\ UNCHANGED litOps /\ calls' = NoCalls
         \/ calls' = [calls EXCEPT ![c] = Nothing] /\ UNCHANGED <<litRows, litOps>>
  <2>1. ASSUME litRows[c] = Nothing
        PROVE  [litRows EXCEPT ![c] = row, ![g].status = tested, ![g].notes = noted]
                 = [litRows EXCEPT ![c] = row, ![g] = gap]
    <3>1. c # g
      BY <2>1, <1>8, LiteratureAssumption
    <3> HIDE DEF row, tested, noted
    <3> QED BY <3>1, <1>6, <1>7
  <2> DEFINE written == [litRows EXCEPT ![c] = row, ![g].status = tested, ![g].notes = noted]
             done == litOps' = [litOps EXCEPT ![c].status = "complete"] /\ calls' = [calls EXCEPT ![c] = Nothing]
             halfway == UNCHANGED litOps /\ calls' = NoCalls
             refused == calls' = [calls EXCEPT ![c] = Nothing] /\ UNCHANGED <<litRows, litOps>>
  <2>2. /\ located \subseteq contrary /\ challenged' = challenged \cup {<<c, r>> : r \in located}
        /\ UNCHANGED <<corpus, edges, screened, queue>>
        /\ \/ located = contrary /\ litRows[c] = Nothing /\ litRows' = written /\ (done \/ halfway)
           \/ refused
    BY <1>1, <1>2, <1>3 DEF FinishCounterSearch
  <2> HIDE DEF written, done, halfway, refused, contrary
  <2> QED BY <2>1, <2>2 DEF written, done, halfway, refused
<1>10. contrary \subseteq Records
  BY <1>8, RowShape
<1>11. row \in LitRows /\ row # Nothing /\ row.kind = "counter"
  BY <1>6, <1>10, LiteratureAssumption DEF LitRows
<1>12. /\ gap \in LitRows /\ gap # Nothing /\ gap.kind = "gap" /\ gap.event = litRows[g].event
       /\ gap.queries = litRows[g].queries /\ gap.status \in {"narrowed", "revised"} /\ gap.notes # {}
       /\ gap = [litRows[g] EXCEPT !.status = gap.status, !.notes = gap.notes]
  <2>1. litRows[g] \in [kind : {"gap"}, event : LitCommands, queries : SUBSET CommandIds, status : Status,
                        notes : SUBSET CommandIds]
    BY <1>8 DEF LitRows
  <2>2. tested \in Status /\ tested \in {"narrowed", "revised"}
    BY DEF Status
  <2>3. noted \in SUBSET CommandIds /\ noted # {}
    BY <1>1 DEF LitCalls
  <2> HIDE DEF tested, noted
  <2>4. /\ gap \in [kind : {"gap"}, event : LitCommands, queries : SUBSET CommandIds, status : Status,
                    notes : SUBSET CommandIds]
        /\ gap.event = litRows[g].event /\ gap.queries = litRows[g].queries /\ gap.status = tested
        /\ gap.notes = noted
    BY <2>1, <2>2, <2>3
  <2> QED BY <2>2, <2>3, <2>4, LiteratureAssumption DEF LitRows
<1>13. \A r \in contrary : r.protocol = litRows[litRows[litRows[g].event].query].protocol
  <2>1. EventPlaced(s) /\ GapPlaced(g)
    BY <1>4, <1>6 DEF LiteratureInv, RowsPlaced
  <2> QED BY <2>1, <1>4, <1>5 DEF EventPlaced, GapPlaced
<1> HIDE DEF contrary, row, gap
<1>14. /\ litRows' \in [LitCommands -> LitRows \cup {Nothing}]
       /\ litRows'[c] = litRows[c] \/ (recorded /\ litRows'[c] = row)
       /\ litRows'[g] = litRows[g] \/ (recorded /\ litRows'[g] = gap)
       /\ recorded => litRows'[c] = row /\ litRows'[g] = gap
       /\ \A d \in LitCommands : d # c /\ d # g => litRows'[d] = litRows[d]
  <2>1. litRows[c] = Nothing => c # g
    BY <1>8, LiteratureAssumption
  <2> QED BY <2>1, <1>9, <1>6, <1>7, <1>11, <1>12
<1>15. RowsGrow
  BY <1>8, <1>11, <1>12, <1>14 DEF RowsGrow
<1>16. /\ litOps' \in [LitCommands -> LitOps \cup {Nothing}] /\ OpsGrow /\ CompleteStands
       /\ \A d \in LitCommands : d # c => litOps'[d] = litOps[d]
       /\ litOps'[c] # litOps[c] => litRows'[c] = row
       /\ litOps'[c].payload = litOps[c].payload
  <2>1. litOps[c] \in LitOps
    BY <1>4, <1>6, <1>7
  <2>2. [litOps[c] EXCEPT !.status = "complete"] \in LitOps
        /\ [litOps[c] EXCEPT !.status = "complete"].payload = litOps[c].payload
    BY <2>1 DEF LitOps
  <2>3. litOps' = litOps \/ (litOps' = [litOps EXCEPT ![c] = [litOps[c] EXCEPT !.status = "complete"]]
                            /\ litRows'[c] = row)
    BY <1>9, <1>14
  <2>4. /\ litOps' \in [LitCommands -> LitOps \cup {Nothing}]
        /\ litOps'[c] \in LitOps /\ litOps'[c].payload = litOps[c].payload
        /\ \A d \in LitCommands : d # c => litOps'[d] = litOps[d]
    BY <2>1, <2>2, <2>3, <1>6, <1>7
  <2>5. OpsGrow
    BY <2>4, LiteratureAssumption DEF OpsGrow
  <2>6. CompleteStands
    <3>1. litOps[c].status = "complete" => [litOps[c] EXCEPT !.status = "complete"] = litOps[c]
      BY <2>1 DEF LitOps
    <3>2. litOps'[c] \in {litOps[c], [litOps[c] EXCEPT !.status = "complete"]}
      BY <2>3, <1>6, <1>7
    <3> QED BY <3>1, <3>2, <2>4 DEF CompleteStands
  <2> QED BY <2>3, <2>4, <2>5, <2>6
<1>17. RowsPlaced' /\ TestedGapIsChallenged'
  <2>1. ASSUME NEW d \in LitCommands, litRows[d] = Nothing
        PROVE  /\ ~Is(d, "event")' /\ ~Is(d, "gap")'
               /\ Is(d, "counter")' => CounterPlaced(d)'
    <3>1. CASE litRows'[d] = litRows[d]
      BY <2>1, <3>1 DEF Is
    <3>2. CASE litRows'[d] # litRows[d]
      <4>1. d = c /\ litRows'[c] = row /\ recorded
        BY <2>1, <3>2, <1>8, <1>14, LiteratureAssumption
      <4>2. litRows'[g] = gap
        BY <4>1, <1>14
      <4>3. /\ Is(g, "gap")'
            /\ litRows'[litRows'[litRows'[g].event].query].protocol
                 = litRows[litRows[litRows[g].event].query].protocol
        BY <1>4, <1>6, <1>15, GapStays
      <4>4. \A r \in contrary : <<c, r>> \in challenged'
        BY <1>9, <4>1
      <4>5. litRows'[c].gap = g /\ litRows'[c].contrary = contrary
        BY <4>1 DEF row
      <4>6. CounterPlaced(c)'
        BY <1>12, <1>13, <4>2, <4>3, <4>4, <4>5 DEF CounterPlaced, Is
      <4> QED BY <4>1, <4>6, <1>11 DEF Is
    <3> QED BY <3>1, <3>2
  <2>2. challenged \subseteq challenged'
    BY <1>9
  <2> QED BY <2>1, <2>2, <1>15, PlacesStay
<1>18. CompleteHasRow' /\ CompleteIsNoted'
  <2>1. ASSUME NEW d \in LitCommands, litOps'[d] # litOps[d]
        PROVE  NowIs(d, litOps'[d].payload.kind) /\ litOps'[d].payload.kind # "decision"
    <3>1. d = c /\ litRows'[d] = row /\ litOps'[d].payload.kind = "counter"
      BY <2>1, <1>4, <1>16
    <3> QED BY <3>1, <1>11 DEF NowIs
  <2> QED BY <2>1, <1>15, <1>16, CompleteStays
<1>19. SearchesPlaced'
  <2>1. ASSUME NEW d \in CommandIds
        PROVE  /\ litRows'[<<d, "search">>] = litRows[<<d, "search">>]
               /\ litOps'[<<d, "search">>] = litOps[<<d, "search">>]
               /\ litRows'[<<d, "protocol">>] = litRows[<<d, "protocol">>]
    BY <1>14, <1>16, IdsDiffer
  <2> QED BY <2>1, <1>15, <1>16, SearchesStay DEF Is
<1>20. CallsPlaced' /\ calls' \in [CommandIds -> LitCalls \cup {Nothing}]
  BY <1>9, <1>15, <1>16, CallsEnd
<1>21. DecisionsInOrder' /\ ScreeningIsTraceable'
  <2>1. ASSUME NEW d \in CommandIds, Is(d, "decision")' PROVE litRows'[d] = litRows[d]
    BY <2>1, <1>11, <1>12, <1>14 DEF Is, LitCommands
  <2> QED BY <2>1, <1>9, <1>15, ScreeningStays
<1>22. LiteratureTypeOK'
  BY <1>9, <1>14, <1>16, <1>20 DEF LiteratureInv, LiteratureTypeOK
<1>23. Recorded
  <2>1. RowsStand
    BY <1>8, <1>12, <1>14 DEF RowsStand
  <2> QED BY <2>1, <1>9, <1>16, RecordedParts
<1> QED BY <1>17, <1>18, <1>19, <1>20, <1>21, <1>22, <1>23 DEF LiteratureInv, LiteratureHolds

-----------------------------------------------------------------------------
\* Screening

\* A set of numbers up to some bound has a greatest: the smallest number that bounds it.
LEMMA GreatestExists ==
  ASSUME NEW n \in Nat, NEW S \in SUBSET (1 .. n), S # {}
  PROVE  \E i \in S : \A j \in S : j <= i
<1> DEFINE less == {p \in Nat \X Nat : p[1] < p[2]}
           bounds == {m \in Nat : \A j \in S : j <= m}
<1>1. IsWellFoundedOn(less, Nat)
  BY NatLessThanWellFounded DEF OpToRel
<1>2. \A m, k \in Nat : m < k => <<m, k>> \in less
  OBVIOUS
<1>3. n \in bounds /\ bounds \subseteq Nat
  OBVIOUS
<1> HIDE DEF less
<1>4. PICK m \in bounds : \A k \in bounds : ~(<<k, m>> \in less)
  BY <1>1, <1>3, WFMin
<1>5. m \in Nat /\ (\A j \in S : j <= m) /\ S \subseteq Nat
  BY <1>4
<1>6. m \in S
  <2> SUFFICES ASSUME m \notin S PROVE FALSE
    OBVIOUS
  <2>1. \A j \in S : j <= m - 1
    BY <1>5
  <2>2. m - 1 \in Nat
    <3>1. PICK j \in S : j \in 1 .. n
      OBVIOUS
    <3> QED BY <3>1, <1>5
  <2>3. m - 1 \in bounds
    BY <2>1, <2>2
  <2>4. <<m - 1, m>> \in less
    BY <1>2, <1>5, <2>2
  <2> QED BY <2>3, <2>4, <1>4
<1> QED BY <1>5, <1>6

\* What is superseded was decided about the record under another protocol, and stood.
LEMMA SupersededStood ==
  ASSUME LiteratureInv, NEW r, NEW p, NEW d \in Superseded(r, p)
  PROVE  /\ d \in CommandIds /\ Is(d, "decision")
         /\ litRows[d].record = r /\ litRows[d].protocol # p /\ litRows[d].by = Nothing
<1> DEFINE others == {i \in DOMAIN screened :
             LET x == litRows[screened[i]] IN x.record = r /\ x.protocol # p /\ x.by = Nothing}
<1>1. screened \in Seq(CommandIds) /\ DOMAIN screened = 1 .. Len(screened) /\ Len(screened) \in Nat
  BY DEF LiteratureInv, LiteratureTypeOK
<1>2. others # {} /\ others \subseteq 1 .. Len(screened)
  BY <1>1 DEF Superseded
<1>3. \E i \in others : \A j \in others : j <= i
  <2> HIDE DEF others
  <2> QED BY <1>1, <1>2, GreatestExists
<1>4. PICK i \in others : d = screened[i]
  BY <1>2, <1>3 DEF Superseded
<1>5. i \in DOMAIN screened /\ screened[i] \in CommandIds
  BY <1>1, <1>4
<1>6. Is(d, "decision")
  BY <1>4, <1>5 DEF LiteratureInv, DecisionsInOrder
<1> QED BY <1>4, <1>5, <1>6

\* The place of a decision, also after the next one is made.
LEMMA PlaceInOrder ==
  ASSUME LiteratureInv, NEW d \in CommandIds, Is(d, "decision")
  PROVE  /\ InOrder(d) \in 1 .. Len(screened) /\ screened[InOrder(d)] = d
         /\ \A i \in 1 .. Len(screened) : screened[i] = d => i = InOrder(d)
<1>1. DOMAIN screened = 1 .. Len(screened)
  BY DEF LiteratureInv, LiteratureTypeOK
<1>2. \E i \in DOMAIN screened : screened[i] = d
  BY DEF LiteratureInv, DecisionsInOrder
<1>3. InOrder(d) \in DOMAIN screened /\ screened[InOrder(d)] = d
  BY <1>2 DEF InOrder
<1> QED BY <1>1, <1>3 DEF LiteratureInv, DecisionsInOrder

LEMMA AppendedOrder ==
  ASSUME LiteratureInv, NEW c \in CommandIds, ~Is(c, "decision"), screened' = Append(screened, c)
  PROVE  /\ InOrder(c)' = Len(screened) + 1
         /\ \A d \in CommandIds : Is(d, "decision") => InOrder(d)' = InOrder(d) /\ InOrder(d) <= Len(screened)
         /\ \A d \in CommandIds : (\E i \in DOMAIN screened' : screened'[i] = d) <=> Is(d, "decision") \/ d = c
         /\ \A i, j \in DOMAIN screened' : screened'[i] = screened'[j] => i = j
<1>1. /\ screened \in Seq(CommandIds) /\ DOMAIN screened = 1 .. Len(screened) /\ Len(screened) \in Nat
  BY DEF LiteratureInv, LiteratureTypeOK
<1>2. /\ DOMAIN screened' = 1 .. (Len(screened) + 1) /\ screened'[Len(screened) + 1] = c
      /\ \A i \in 1 .. Len(screened) : screened'[i] = screened[i]
  BY <1>1
<1>3. \A i \in 1 .. Len(screened) : screened[i] # c
  BY <1>1 DEF LiteratureInv, DecisionsInOrder
<1>4. ASSUME NEW d \in CommandIds, NEW n \in DOMAIN screened', screened'[n] = d,
             \A i \in DOMAIN screened' : screened'[i] = d => i = n
      PROVE  InOrder(d)' = n
  BY <1>4 DEF InOrder
<1>5. InOrder(c)' = Len(screened) + 1
  <2>1. Len(screened) + 1 \in DOMAIN screened'
    BY <1>1, <1>2
  <2>2. \A i \in DOMAIN screened' : screened'[i] = c => i = Len(screened) + 1
    BY <1>1, <1>2, <1>3
  <2> QED BY <2>1, <2>2, <1>2, <1>4
<1>6. ASSUME NEW d \in CommandIds, Is(d, "decision")
      PROVE  InOrder(d)' = InOrder(d) /\ InOrder(d) <= Len(screened)
  <2>1. PICK n \in 1 .. Len(screened) :
          n = InOrder(d) /\ screened[n] = d /\ \A i \in 1 .. Len(screened) : screened[i] = d => i = n
    BY <1>6, PlaceInOrder
  <2>2. n \in DOMAIN screened' /\ screened'[n] = d
    BY <1>1, <1>2, <2>1
  <2>3. \A i \in DOMAIN screened' : screened'[i] = d => i = n
    BY <1>1, <1>2, <1>6, <2>1
  <2>4. InOrder(d)' = n
    BY <1>4, <2>2, <2>3
  <2> QED BY <1>1, <2>1, <2>4
<1>7. ASSUME NEW d \in CommandIds
      PROVE  (\E i \in DOMAIN screened' : screened'[i] = d) <=> Is(d, "decision") \/ d = c
  <2>1. Is(d, "decision") <=> \E i \in DOMAIN screened : screened[i] = d
    BY DEF LiteratureInv, DecisionsInOrder
  <2> QED BY <1>1, <1>2, <2>1
<1>8. \A i, j \in DOMAIN screened' : screened'[i] = screened'[j] => i = j
  <2>1. \A i, j \in 1 .. Len(screened) : screened[i] = screened[j] => i = j
    BY <1>1 DEF LiteratureInv, DecisionsInOrder
  <2> QED BY <1>1, <1>2, <1>3, <2>1
<1> QED BY <1>5, <1>6, <1>7, <1>8

\* A decision about r goes to the end, supersedes what it supersedes, and resolves entries of r
\* at most, and only where it is not uncertain itself.
LEMMA DecisionKeeps ==
  ASSUME LiteratureInv, NEW c \in CommandIds, NEW r \in corpus, NEW p \in LitCommands, NEW v \in Verdicts,
         Fresh(c, Decides(r, p, v)), InsertDecision(c, Decides(r, p, v)),
         \/ litOps' = [litOps EXCEPT ![c] = Pending(Decides(r, p, v))]
         \/ litOps' = [litOps EXCEPT ![c] = Complete(Decides(r, p, v))],
         calls' \in {calls, NoCalls}, UNCHANGED <<edges, challenged>>,
         queue' \in [CommandIds -> CommandIds \cup {"none", "open"}],
         queue'[c] = IF v = "uncertain" THEN "open" ELSE queue[c],
         \A d \in CommandIds : d # c /\ queue'[d] # queue[d] =>
           v # "uncertain" /\ queue[d] = "open" /\ queue'[d] = c /\ litRows[d].record = r
  PROVE  LiteratureInv' /\ Recorded
<1> DEFINE row == Decides(r, p, v)
           over == Superseded(r, p)
<1>1. corpus \subseteq Records /\ litRows \in [LitCommands -> LitRows \cup {Nothing}]
  BY DEF LiteratureInv, LiteratureTypeOK
<1>2. /\ row \in LitRows /\ row \in LitPayloads /\ row # Nothing /\ row.kind = "decision"
      /\ row.record = r /\ row.protocol = p /\ row.decision = v /\ row.by = Nothing /\ r \in Records
  <2>1. r \in Records
    BY <1>1
  <2> QED BY <2>1, LiteratureAssumption DEF Decides, LitRows, LitPayloads
<1>3. c \in LitCommands /\ litRows[c] = Nothing /\ Begins(c, row) /\ ~Is(c, "decision")
  BY DEF Fresh, Is, LitCommands
<1>4. /\ litRows' = [d \in LitCommands |->
                        IF d = c THEN row ELSE IF d \in over THEN [litRows[d] EXCEPT !.by = c] ELSE litRows[d]]
      /\ screened' = Append(screened, c) /\ corpus' = corpus
  BY <1>2 DEF InsertDecision
<1>5. \A d \in over : /\ d \in CommandIds /\ d \in LitCommands /\ Is(d, "decision") /\ d # c
                      /\ litRows[d].record = r /\ litRows[d].protocol # p /\ litRows[d].by = Nothing
  BY <1>3, SupersededStood DEF LitCommands
<1> HIDE DEF row, over
<1>6. ASSUME NEW d \in over
      PROVE  /\ litRows'[d] \in LitRows /\ litRows'[d] # Nothing /\ litRows'[d].kind = "decision"
             /\ litRows'[d].record = litRows[d].record /\ litRows'[d].protocol = litRows[d].protocol
             /\ litRows'[d].decision = litRows[d].decision /\ litRows'[d].by = c
  <2>1. litRows[d] \in [kind : {"decision"}, record : Records, protocol : LitCommands, decision : Verdicts,
                        by : CommandIds \cup {Nothing}]
    BY <1>1, <1>5 DEF LitRows, Is
  <2>2. litRows'[d] = [litRows[d] EXCEPT !.by = c]
    BY <1>4, <1>5
  <2>3. litRows'[d] \in LitRows
    BY <2>1, <2>2 DEF LitRows
  <2> QED BY <2>1, <2>2, <2>3, LiteratureAssumption
<1>7. /\ litRows'[c] = row
      /\ \A d \in LitCommands : d # c /\ d \notin over => litRows'[d] = litRows[d]
      /\ litRows' \in [LitCommands -> LitRows \cup {Nothing}]
  <2>1. \A d \in LitCommands : litRows'[d] \in LitRows \cup {Nothing}
    BY <1>1, <1>2, <1>4, <1>6
  <2> QED BY <2>1, <1>3, <1>4
<1>8. RowsGrow
  <2> SUFFICES ASSUME NEW d \in LitCommands, litRows[d] # Nothing
               PROVE  \/ litRows'[d] = litRows[d]
                      \/ /\ litRows'[d] # Nothing /\ litRows[d].kind = "decision" /\ litRows'[d].kind = "decision"
                         /\ litRows'[d].record = litRows[d].record /\ litRows'[d].protocol = litRows[d].protocol
                         /\ litRows'[d].decision = litRows[d].decision
    BY DEF RowsGrow
  <2> QED BY <1>3, <1>5, <1>6, <1>7 DEF Is
<1>9. /\ OpsGrow /\ CompleteStands /\ litOps' \in [LitCommands -> LitOps \cup {Nothing}]
      /\ litOps'[c] # Nothing /\ litOps'[c].payload = row
      /\ \A d \in LitCommands : d # c => litOps'[d] = litOps[d]
  BY <1>2, <1>3, NotedGrows DEF row
<1>10. screened' \in Seq(CommandIds)
  BY <1>4 DEF LiteratureInv, LiteratureTypeOK
<1>11. CallsPlaced' /\ calls' \in [CommandIds -> LitCalls \cup {Nothing}]
  BY <1>8, <1>9, CallsEnd
<1>12. LiteratureTypeOK'
  BY <1>4, <1>7, <1>9, <1>10, <1>11 DEF LiteratureInv, LiteratureTypeOK
<1>13. ASSUME NEW d \in LitCommands, litRows[d] = Nothing, litRows'[d] # Nothing
       PROVE  d = c
  BY <1>13, <1>5, <1>7 DEF Is
<1>14. RowsPlaced' /\ TestedGapIsChallenged'
  <2>1. ASSUME NEW d \in LitCommands, litRows[d] = Nothing
        PROVE  ~Is(d, "event")' /\ ~Is(d, "gap")' /\ ~Is(d, "counter")'
    BY <2>1, <1>2, <1>7, <1>13 DEF Is
  <2> QED BY <2>1, <1>8, PlacesStay
<1>15. CompleteHasRow' /\ CompleteIsNoted'
  <2>1. ASSUME NEW d \in LitCommands, litOps'[d] # litOps[d]
        PROVE  /\ NowIs(d, litOps'[d].payload.kind)
               /\ litRows'[d].record = litOps'[d].payload.record /\ litRows'[d].decision = litOps'[d].payload.decision
    BY <2>1, <1>2, <1>7, <1>9 DEF NowIs
  <2> QED BY <2>1, <1>8, <1>9, CompleteStays
<1>16. SearchesPlaced'
  <2>1. ASSUME NEW d \in CommandIds
        PROVE  /\ Is(<<d, "search">>, "event")' => litRows[<<d, "search">>] # Nothing
               /\ litOps'[<<d, "search">>] = litOps[<<d, "search">>]
               /\ litRows'[<<d, "protocol">>] = litRows[<<d, "protocol">>]
    <3>1. /\ <<d, "search">> \in LitCommands /\ <<d, "search">> # c
          /\ <<d, "protocol">> \in LitCommands /\ <<d, "protocol">> # c
      BY IdsDiffer
    <3>2. <<d, "protocol">> \notin over
      BY <1>5, IdsDiffer
    <3> QED BY <3>1, <3>2, <1>7, <1>9, <1>13 DEF Is
  <2> QED BY <2>1, <1>8, <1>9, SearchesStay
<1>17. \A d \in CommandIds : Is(d, "decision")' <=> Is(d, "decision") \/ d = c
  <2> SUFFICES ASSUME NEW d \in CommandIds PROVE Is(d, "decision")' <=> Is(d, "decision") \/ d = c
    OBVIOUS
  <2>1. d \in LitCommands
    BY DEF LitCommands
  <2>2. CASE d = c
    BY <2>2, <1>2, <1>7 DEF Is
  <2>3. CASE d # c /\ d \in over
    BY <2>3, <1>5, <1>6 DEF Is
  <2>4. CASE d # c /\ d \notin over
    BY <2>1, <2>4, <1>7 DEF Is
  <2> QED BY <2>2, <2>3, <2>4
<1>18. /\ InOrder(c)' = Len(screened) + 1
       /\ \A d \in CommandIds : Is(d, "decision") => InOrder(d)' = InOrder(d) /\ InOrder(d) <= Len(screened)
       /\ \A d \in CommandIds : (\E i \in DOMAIN screened' : screened'[i] = d) <=> Is(d, "decision") \/ d = c
       /\ \A i, j \in DOMAIN screened' : screened'[i] = screened'[j] => i = j
  BY <1>3, <1>4, AppendedOrder
<1>19. queue[c] = "none"
  BY <1>3 DEF LiteratureInv, DecisionsInOrder
<1>20. c \notin {"none", "open"} /\ c # Nothing
  BY LiteratureAssumption
<1>21. \A d \in CommandIds : Is(d, "decision") /\ d # c =>
         \/ litRows'[d] = litRows[d]
         \/ /\ litRows'[d].by = c /\ litRows'[d].record = r /\ litRows'[d].protocol # p
            /\ litRows'[d].record = litRows[d].record /\ litRows'[d].protocol = litRows[d].protocol
            /\ litRows'[d].decision = litRows[d].decision
  BY <1>5, <1>6, <1>7 DEF LitCommands
<1>22. DecisionsInOrder'
  <2>1. ASSUME NEW d \in CommandIds PROVE queue'[d] # "none" => Is(d, "decision")'
    BY <1>17, <1>19, <1>20 DEF LiteratureInv, DecisionsInOrder
  <2>2. ASSUME NEW d \in CommandIds, queue'[d] \in CommandIds PROVE Is(queue[d], "decision")'
    <3>1. queue'[d] = queue[d] \/ queue'[d] = c
      BY <2>2, <1>19, <1>20, LiteratureAssumption
    <3>2. queue'[d] = queue[d] => Is(queue[d], "decision")
      BY <2>2 DEF LiteratureInv, DecisionsInOrder
    <3> QED BY <2>2, <3>1, <3>2, <1>17 DEF Is
  <2>3. ASSUME NEW d \in CommandIds, Is(d, "decision")', litRows'[d].by # Nothing
        PROVE  Is(litRows[d].by, "decision")'
    <3>1. PICK b \in CommandIds : b = litRows'[d].by /\ (b = c \/ Is(b, "decision"))
      <4>1. d # c /\ Is(d, "decision")
        BY <2>3, <1>2, <1>7, <1>17
      <4>2. CASE litRows'[d] = litRows[d]
        <5>1. litRows[d] \in LitRows
          BY <4>1, <1>1 DEF Is, LitCommands
        <5>2. litRows[d].by \in CommandIds /\ Is(litRows[d].by, "decision")
          BY <5>1, <4>1, <4>2, <2>3, RowShape DEF Is, LiteratureInv, DecisionsInOrder
        <5> QED BY <5>2, <4>2
      <4> QED BY <4>1, <4>2, <1>21
    <3>2. Is(b, "decision")'
      BY <3>1, <1>17
    <3> QED BY <3>1, <3>2 DEF Is
  <2> QED BY <2>1, <2>2, <2>3, <1>17, <1>18 DEF DecisionsInOrder
<1>23. ScreeningIsTraceable'
  <2> SUFFICES ASSUME NEW d \in CommandIds, Is(d, "decision")'
               PROVE  LET row2 == litRows'[d]
                      IN  /\ row2.by # Nothing =>
                               /\ litRows'[row2.by].record = row2.record /\ litRows'[row2.by].protocol # row2.protocol
                               /\ InOrder(d)' < InOrder(litRows[d].by)'
                          /\ queue'[d] \in CommandIds =>
                               litRows'[queue'[d]].record = row2.record /\ litRows'[queue'[d]].decision # "uncertain"
                          /\ (queue'[d] # "none") = (row2.decision = "uncertain")
    BY DEF ScreeningIsTraceable, InOrder
  <2>1. CASE d = c
    <3>1. litRows'[d].by = Nothing /\ litRows'[d].decision = v
      BY <2>1, <1>2, <1>7
    <3>2. queue'[d] = IF v = "uncertain" THEN "open" ELSE "none"
      BY <2>1, <1>19
    <3>3. queue'[d] \notin CommandIds
      BY <3>2, LiteratureAssumption
    <3> QED BY <3>1, <3>2, <3>3
  <2>2. CASE d # c
    <3>1. Is(d, "decision")
      BY <2>2, <1>17
    <3>2. \A b \in CommandIds : Is(b, "decision") /\ b # c =>
            /\ litRows'[b].record = litRows[b].record /\ litRows'[b].protocol = litRows[b].protocol
            /\ litRows'[b].decision = litRows[b].decision
      BY <1>21
    <3>3. /\ litRows[d].by # Nothing =>
               LET b == litRows[d].by
               IN  /\ litRows[b].record = litRows[d].record /\ litRows[b].protocol # litRows[d].protocol
                   /\ InOrder(d) < InOrder(b) /\ Is(b, "decision") /\ b \in CommandIds
          /\ queue[d] \in CommandIds =>
               /\ litRows[queue[d]].record = litRows[d].record /\ litRows[queue[d]].decision # "uncertain"
               /\ Is(queue[d], "decision")
          /\ (queue[d] # "none") = (litRows[d].decision = "uncertain")
      <4>1. litRows[d] \in LitRows /\ litRows[d].kind = "decision"
        BY <3>1, <1>1 DEF Is, LitCommands
      <4>2. litRows[d].by \in CommandIds \cup {Nothing}
        BY <4>1, RowShape
      <4> QED BY <4>2, <3>1 DEF LiteratureInv, LiteratureHolds, ScreeningIsTraceable, DecisionsInOrder
    <3>4. litRows'[d].by # Nothing =>
            /\ litRows'[litRows'[d].by].record = litRows'[d].record
            /\ litRows'[litRows'[d].by].protocol # litRows'[d].protocol
            /\ InOrder(d)' < InOrder(litRows[d].by)'
      <4> SUFFICES ASSUME litRows'[d].by # Nothing
                   PROVE  /\ litRows'[litRows'[d].by].record = litRows'[d].record
                          /\ litRows'[litRows'[d].by].protocol # litRows'[d].protocol
                          /\ InOrder(d)' < InOrder(litRows[d].by)'
        OBVIOUS
      <4>1. CASE litRows'[d] = litRows[d]
        <5>1. PICK b \in CommandIds : b = litRows[d].by /\ Is(b, "decision")
          BY <3>3, <4>1
        <5>2. /\ litRows[b].record = litRows[d].record /\ litRows[b].protocol # litRows[d].protocol
              /\ InOrder(d) < InOrder(b) /\ b # c
          BY <3>3, <4>1, <5>1, <1>3
        <5>3. InOrder(d)' < InOrder(b)'
          BY <5>1, <5>2, <3>1, <1>18
        <5>4. InOrder(litRows[d].by)' = InOrder(b)'
          BY <4>1, <5>1 DEF InOrder
        <5> QED BY <5>1, <5>2, <5>3, <5>4, <4>1, <3>2
      <4>2. CASE litRows'[d] # litRows[d]
        <5>1. litRows'[d].by = c /\ litRows'[d].record = r /\ litRows'[d].protocol # p
          BY <4>2, <3>1, <2>2, <1>21
        <5>2. InOrder(d)' < InOrder(c)'
          <6>1. InOrder(d) \in 1 .. Len(screened) /\ Len(screened) \in Nat
            BY <3>1, PlaceInOrder DEF LiteratureInv, LiteratureTypeOK
          <6> QED BY <6>1, <3>1, <1>18
        <5>3. InOrder(litRows[d].by)' = InOrder(c)'
          BY <5>1 DEF InOrder
        <5> QED BY <5>1, <5>2, <5>3, <1>2, <1>7
      <4> QED BY <4>1, <4>2
    <3>5. CASE queue'[d] = queue[d]
      <4>1. queue[d] \in CommandIds => queue[d] # c
        BY <3>3, <1>3
      <4> QED BY <4>1, <3>1, <3>2, <3>3, <3>4, <3>5, <2>2
    <3>6. CASE queue'[d] # queue[d]
      <4>1. v # "uncertain" /\ queue[d] = "open" /\ queue'[d] = c /\ litRows[d].record = r
        BY <3>6, <2>2
      <4>2. litRows'[c].record = r /\ litRows'[c].decision = v
        BY <1>2, <1>7
      <4> QED BY <4>1, <4>2, <3>1, <3>2, <3>3, <3>4, <2>2, <1>20
    <3> QED BY <3>5, <3>6
  <2> QED BY <2>1, <2>2
<1>24. Recorded
  <2>1. RowsStand
    <3>1. \A d \in over : litRows'[d] = [litRows[d] EXCEPT !.by = litRows'[d].by]
      BY <1>4, <1>5, <1>6
    <3> QED BY <3>1, <1>3, <1>5, <1>7 DEF RowsStand, Is
  <2>2. \A d \in CommandIds : queue[d] \in CommandIds => queue'[d] = queue[d]
    BY <1>19, LiteratureAssumption
  <2> QED BY <2>1, <2>2, <1>9, RecordedParts
<1> QED BY <1>11, <1>12, <1>14, <1>15, <1>16, <1>22, <1>23, <1>24 DEF LiteratureInv, LiteratureHolds

\* A command that is noted only.
LEMMA NotingKeeps ==
  ASSUME LiteratureInv, NEW c \in CommandIds, NEW row \in LitRows, Begins(c, row),
         litOps' = [litOps EXCEPT ![c] = Pending(row)], calls' = NoCalls,
         UNCHANGED <<litRows, corpus, edges, screened, queue, challenged>>
  PROVE  LiteratureInv' /\ Recorded
<1>1. c \in LitCommands /\ row \in LitPayloads
  BY DEF LitCommands, LitPayloads
<1>2. /\ OpsGrow /\ CompleteStands /\ litOps' \in [LitCommands -> LitOps \cup {Nothing}]
      /\ litOps'[c] = Pending(row)
      /\ \A d \in LitCommands : d # c => litOps'[d] = litOps[d]
  <2>1. litOps'[c] = Pending(row)
    BY <1>1 DEF LiteratureInv, LiteratureTypeOK
  <2> QED BY <2>1, <1>1, NotedGrows
<1>3. RowsGrow /\ RowsPlaced' /\ TestedGapIsChallenged' /\ DecisionsInOrder' /\ ScreeningIsTraceable'
  BY SameRows
<1>4. CallsPlaced' /\ calls' \in [CommandIds -> LitCalls \cup {Nothing}]
  BY <1>2, <1>3, CallsEnd
<1>5. CompleteHasRow' /\ CompleteIsNoted'
  <2>1. Pending(row).status # "complete"
    BY DEF Pending
  <2>2. \A d \in LitCommands : litOps'[d].status = "complete" => litOps'[d] = litOps[d]
    BY <2>1, <1>2
  <2> QED BY <2>2, <1>2, <1>3, CompleteStays
<1>6. SearchesPlaced'
  BY <1>2, <1>3, SearchesStay, IdsDiffer DEF Is
<1>7. LiteratureTypeOK'
  BY <1>2, <1>4 DEF LiteratureInv, LiteratureTypeOK
<1>8. Recorded
  BY <1>2, RecordedParts DEF RowsStand
<1> QED BY <1>3, <1>4, <1>5, <1>6, <1>7, <1>8 DEF LiteratureInv, LiteratureHolds

LEMMA DecidesType ==
  ASSUME LiteratureInv, NEW r \in corpus, NEW p \in LitCommands, NEW v \in Verdicts
  PROVE  /\ Decides(r, p, v) \in LitRows /\ Decides(r, p, v).kind = "decision"
         /\ Decides(r, p, v).record = r /\ Decides(r, p, v).decision = v
<1>1. r \in Records
  BY DEF LiteratureInv, LiteratureTypeOK
<1> QED BY <1>1 DEF Decides, LitRows

LEMMA ScreeningDecisionKeeps ==
  ASSUME LiteratureInv, NEW c \in CommandIds, NEW r \in corpus, NEW p \in LitCommands, NEW v \in Verdicts,
         RecordScreeningDecision(c, r, p, v)
  PROVE  LiteratureInv' /\ Recorded
<1> DEFINE row == Decides(r, p, v)
           moved == queue' = IF v = "uncertain" THEN [queue EXCEPT ![c] = "open"] ELSE queue
<1>1. Record1(c, row, InsertDecision(c, row) /\ moved)
  BY DEF RecordScreeningDecision
<1>2. queue \in [CommandIds -> CommandIds \cup {"none", "open"}]
  BY DEF LiteratureInv, LiteratureTypeOK
<1>3. moved => /\ queue' \in [CommandIds -> CommandIds \cup {"none", "open"}]
               /\ queue'[c] = IF v = "uncertain" THEN "open" ELSE queue[c]
               /\ \A d \in CommandIds : d # c => queue'[d] = queue[d]
  BY <1>2
<1>4. row \in LitRows
  BY DecidesType
<1> HIDE DEF row, moved
<1>5. Fresh(c, row) /\ Begins(c, row) /\ UNCHANGED <<edges, challenged>>
  BY <1>1 DEF Record1, Fresh
<1>6. CASE /\ litOps' = [litOps EXCEPT ![c] = Pending(row)] /\ calls' = NoCalls
           /\ UNCHANGED <<litRows, corpus, screened, queue>>
  BY <1>4, <1>5, <1>6, NotingKeeps
<1>7. CASE /\ \/ litOps' = [litOps EXCEPT ![c] = Pending(row)]
              \/ litOps' = [litOps EXCEPT ![c] = Complete(row)]
           /\ calls' \in {calls, NoCalls} /\ InsertDecision(c, row) /\ moved
  BY <1>3, <1>5, <1>7, DecisionKeeps DEF row
<1> QED BY <1>1, <1>6, <1>7 DEF Record1

\* The entries that a command resolves are open ones of the record.
LEMMA ResolvedQueue ==
  ASSUME LiteratureInv, NEW c \in CommandIds, NEW r, queue' = Resolved(c, r)
  PROVE  /\ queue' \in [CommandIds -> CommandIds \cup {"none", "open"}]
         /\ \A d \in CommandIds : queue'[d] # queue[d] =>
              queue[d] = "open" /\ queue'[d] = c /\ litRows[d].record = r
<1>1. queue \in [CommandIds -> CommandIds \cup {"none", "open"}]
  BY DEF LiteratureInv, LiteratureTypeOK
<1>2. \A d \in FirstOpen(r) : queue[d] = "open" /\ litRows[d].record = r
  BY DEF FirstOpen
<1> QED BY <1>1, <1>2 DEF Resolved

LEMMA ResolveKeeps ==
  ASSUME LiteratureInv, NEW c \in CommandIds, NEW r \in corpus, NEW p \in LitCommands,
         NEW v \in {"include", "exclude"}, ResolveUncertainty(c, r, p, v)
  PROVE  LiteratureInv' /\ Recorded
<1> DEFINE row == Decides(r, p, v)
<1>1. /\ v \in Verdicts /\ v # "uncertain" /\ queue' = Resolved(c, r) /\ UNCHANGED <<edges, challenged, calls>>
      /\ \/ Fresh(c, row) /\ InsertDecision(c, row) /\ litOps' = [litOps EXCEPT ![c] = Complete(row)]
         \/ litOps[c] = Complete(row) /\ UNCHANGED <<litRows, litOps, corpus, screened>>
  BY DEF ResolveUncertainty, Verdicts
<1>2. /\ queue' \in [CommandIds -> CommandIds \cup {"none", "open"}]
      /\ \A d \in CommandIds : queue'[d] # queue[d] =>
           queue[d] = "open" /\ queue'[d] = c /\ litRows[d].record = r
  BY <1>1, ResolvedQueue
<1>3. row \in LitRows /\ row.kind = "decision" /\ row.record = r /\ row.decision = v
  BY <1>1, DecidesType
<1> HIDE DEF row
<1>4. CASE Fresh(c, row) /\ InsertDecision(c, row) /\ litOps' = [litOps EXCEPT ![c] = Complete(row)]
  <2>1. ~Is(c, "decision")
    BY <1>4 DEF Fresh, Is
  <2>2. queue[c] = "none"
    BY <2>1 DEF LiteratureInv, DecisionsInOrder
  <2>3. queue'[c] = queue[c]
    BY <2>2, <1>2
  <2>4. /\ calls' \in {calls, NoCalls} /\ UNCHANGED <<edges, challenged>> /\ v \in Verdicts
        /\ queue'[c] = IF v = "uncertain" THEN "open" ELSE queue[c]
        /\ \A d \in CommandIds : d # c /\ queue'[d] # queue[d] =>
             v # "uncertain" /\ queue[d] = "open" /\ queue'[d] = c /\ litRows[d].record = r
    BY <2>3, <1>1, <1>2
  <2>5. /\ Fresh(c, Decides(r, p, v)) /\ InsertDecision(c, Decides(r, p, v))
        /\ \/ litOps' = [litOps EXCEPT ![c] = Pending(Decides(r, p, v))]
           \/ litOps' = [litOps EXCEPT ![c] = Complete(Decides(r, p, v))]
    BY <1>4 DEF row
  <2>6. queue' \in [CommandIds -> CommandIds \cup {"none", "open"}]
    BY <1>2
  <2> QED BY <2>4, <2>5, <2>6, DecisionKeeps
<1>5. CASE litOps[c] = Complete(row) /\ UNCHANGED <<litRows, litOps, corpus, screened>>
  <2>1. Is(c, "decision") /\ litRows[c].record = r /\ litRows[c].decision = v
    <3>1. /\ Complete(row).status = "complete" /\ Complete(row).payload = row /\ c \in LitCommands
          /\ Complete(row) # Nothing
      BY <1>3, LiteratureAssumption DEF Complete, LitCommands, LitOps, LitPayloads
    <3> QED BY <3>1, <1>3, <1>5 DEF LiteratureInv, CompleteIsNoted
  <2>2. OpsGrow /\ RowsGrow
    BY <1>5 DEF OpsGrow, RowsGrow
  <2>3. RowsPlaced' /\ TestedGapIsChallenged'
    BY <1>1, <1>5, <2>2, PlacesStay DEF Is
  <2>4. CallsPlaced' /\ CompleteHasRow' /\ CompleteIsNoted' /\ SearchesPlaced'
    BY <1>1, <1>5, <2>2, CallsStay, CompleteStays, SearchesStay DEF Is
  <2>5. LiteratureTypeOK'
    BY <1>1, <1>2, <1>5 DEF LiteratureInv, LiteratureTypeOK
  <2>6. DecisionsInOrder'
    <3>1. ASSUME NEW d \in CommandIds
          PROVE  /\ queue'[d] # "none" => Is(d, "decision")'
                 /\ queue'[d] \in CommandIds => Is(queue[d], "decision")'
      <4>1. CASE queue'[d] = queue[d]
        BY <4>1, <1>5 DEF LiteratureInv, DecisionsInOrder, Is
      <4>2. CASE queue'[d] # queue[d]
        BY <4>2, <1>2, <1>5, <2>1 DEF LiteratureInv, DecisionsInOrder, Is
      <4> QED BY <4>1, <4>2
    <3> QED BY <3>1, <1>5 DEF LiteratureInv, DecisionsInOrder, Is
  <2>7. ScreeningIsTraceable'
    <3> SUFFICES ASSUME NEW d \in CommandIds, Is(d, "decision")
                 PROVE  LET row2 == litRows[d]
                        IN  /\ row2.by # Nothing =>
                                 /\ litRows[row2.by].record = row2.record /\ litRows[row2.by].protocol # row2.protocol
                                 /\ InOrder(d) < InOrder(row2.by)
                            /\ queue'[d] \in CommandIds =>
                                 litRows[queue'[d]].record = row2.record /\ litRows[queue'[d]].decision # "uncertain"
                            /\ (queue'[d] # "none") = (row2.decision = "uncertain")
      BY <1>5 DEF ScreeningIsTraceable, InOrder, Is
    <3>1. /\ litRows[d].by # Nothing =>
               /\ litRows[litRows[d].by].record = litRows[d].record
               /\ litRows[litRows[d].by].protocol # litRows[d].protocol
               /\ InOrder(d) < InOrder(litRows[d].by)
          /\ queue[d] \in CommandIds =>
               litRows[queue[d]].record = litRows[d].record /\ litRows[queue[d]].decision # "uncertain"
          /\ (queue[d] # "none") = (litRows[d].decision = "uncertain")
      BY DEF LiteratureInv, LiteratureHolds, ScreeningIsTraceable
    <3>2. CASE queue'[d] = queue[d]
      BY <3>1, <3>2
    <3>3. CASE queue'[d] # queue[d]
      <4>1. queue[d] = "open" /\ queue'[d] = c /\ litRows[d].record = r /\ c # "none"
        BY <3>3, <1>2, LiteratureAssumption
      <4> QED BY <4>1, <3>1, <2>1, <1>1
    <3> QED BY <3>2, <3>3
  <2>8. Recorded
    <3>1. \A d \in CommandIds : queue[d] \in CommandIds => queue'[d] = queue[d]
      BY <1>2, LiteratureAssumption
    <3> QED BY <3>1, <1>5, RecordedParts DEF CompleteStands, RowsStand
  <2> QED BY <2>3, <2>4, <2>5, <2>6, <2>7, <2>8 DEF LiteratureInv, LiteratureHolds
<1> QED BY <1>1, <1>4, <1>5

LEMMA LiteratureInitially == LiteratureInit => LiteratureInv
<1> SUFFICES ASSUME LiteratureInit PROVE LiteratureInv
  OBVIOUS
<1>1. /\ \A c \in LitCommands : litRows[c] = Nothing /\ litOps[c] = Nothing
      /\ \A c \in CommandIds : calls[c] = Nothing /\ queue[c] = "none"
      /\ \A c \in CommandIds : c \in LitCommands
      /\ \A c \in CommandIds, s \in {"search", "protocol"} : <<c, s>> \in LitCommands
  BY DEF LiteratureInit, NoCalls, LitCommands
<1>2. LiteratureTypeOK
  BY DEF LiteratureInit, LiteratureTypeOK, NoCalls
<1>3. RowsPlaced /\ SearchesPlaced /\ CompleteIsNoted /\ CallsPlaced
  BY <1>1 DEF RowsPlaced, SearchesPlaced, SearchPlaced, CompleteIsNoted, CallsPlaced, Is
<1>4. DecisionsInOrder
  <2>1. DOMAIN screened = {}
    BY DEF LiteratureInit
  <2> QED BY <2>1, <1>1, LiteratureAssumption DEF DecisionsInOrder, Is
<1>5. LiteratureHolds
  BY <1>1 DEF LiteratureHolds, CompleteHasRow, TestedGapIsChallenged, ScreeningIsTraceable, Is
<1> QED BY <1>2, <1>3, <1>4, <1>5 DEF LiteratureInv

LEMMA LiteratureStepKeeps == ASSUME LiteratureInv, LiteratureNext PROVE LiteratureInv' /\ Recorded
<1>1. ASSUME NEW c \in CommandIds, RecordReviewProtocol(c) PROVE LiteratureInv' /\ Recorded
  BY <1>1, ReviewProtocolKeeps
<1>2. ASSUME NEW c \in CommandIds, NEW p \in LitCommands,
             \/ \E q \in CommandIds \cup {Nothing} : RecordQueryVersion(c, p, q)
             \/ \E Q \in SUBSET CommandIds : RecordLandscapeMap(c, p, Q)
             \/ \E i \in Identities : RecordCorpusIdentity(c, p, i)
      PROVE  LiteratureInv' /\ Recorded
  BY <1>2, QueryVersionKeeps, LandscapeKeeps, CorpusIdentityKeeps
<1>3. ASSUME NEW c \in CommandIds, NEW p \in LitCommands,
             \/ \E I \in SUBSET Identities, E \in SUBSET (Records \X Records), found \in SUBSET (Records \X Records) :
                  ExploreCitations(c, p, I, E, found)
             \/ AmendEligibility(c, p)
      PROVE  LiteratureInv' /\ Recorded
  BY <1>3, ExploreKeeps, AmendKeeps
<1>4. ASSUME NEW c \in CommandIds, NEW p \in LitCommands, NEW r \in corpus,
             \/ \E d \in Verdicts : RecordScreeningDecision(c, r, p, d)
             \/ \E d \in {"include", "exclude"} : ResolveUncertainty(c, r, p, d)
      PROVE  LiteratureInv' /\ Recorded
  BY <1>4, ScreeningDecisionKeeps, ResolveKeeps
<1>5. ASSUME NEW c \in CommandIds,
             \/ \E e \in LitCommands, Q \in SUBSET CommandIds, s \in Status : RecordGapAssessment(c, e, Q, s)
             \/ \E g \in CommandIds : RecordContributionProposal(c, g)
      PROVE  LiteratureInv' /\ Recorded
  BY <1>5, GapAssessmentKeeps, ContributionKeeps
<1>6. ASSUME NEW c \in CommandIds, NEW q \in CommandIds,
             RunAuthorizedRetrieval(c, q) \/ \E g \in CommandIds : RunCounterSearch(c, g, q)
      PROVE  LiteratureInv' /\ Recorded
  BY <1>6, RetrievalKeeps, CounterSearchKeeps
<1>7. ASSUME NEW c \in CommandIds,
             \/ \E hits \in SUBSET Identities : Report1(c, hits)
             \/ \E located \in SUBSET corpus : FinishCounterSearch(c, located)
      PROVE  LiteratureInv' /\ Recorded
  BY <1>7, ReportKeeps, FinishKeeps
<1>8. ASSUME (\E c \in CommandIds, hits \in SUBSET Identities : RetrievalFails(c, hits)) \/ LiteratureCrash
      PROVE  LiteratureInv' /\ Recorded
  <2>1. corpus \subseteq Records
    BY DEF LiteratureInv, LiteratureTypeOK
  <2>2. CASE LiteratureCrash
    BY <2>1, <2>2, EndedCallKeeps DEF LiteratureCrash
  <2> QED BY <1>8, <2>2, FailedRetrievalKeeps
<1> QED BY <1>1, <1>2, <1>3, <1>4, <1>5, <1>6, <1>7, <1>8 DEF LiteratureNext

LEMMA LiteratureStutters == ASSUME LiteratureInv, UNCHANGED litVars PROVE LiteratureInv' /\ Recorded
<1>1. corpus \subseteq Records
  BY DEF LiteratureInv, LiteratureTypeOK
<1> QED BY <1>1, EndedCallKeeps DEF litVars

\* The invariant holds throughout.
LEMMA LiteratureInvariant == LiteratureSpec => []LiteratureInv
<1>1. LiteratureInit => LiteratureInv
  BY LiteratureInitially
<1>2. LiteratureInv /\ [LiteratureNext]_litVars => LiteratureInv'
  BY LiteratureStepKeeps, LiteratureStutters
<1> QED BY <1>1, <1>2, PTL DEF LiteratureSpec

\* Rows, operations, calls and the order of decisions keep their types (src/literature).
THEOREM LiteratureTypes == LiteratureSpec => []LiteratureTypeOK
<1>1. LiteratureInv => LiteratureTypeOK
  BY DEF LiteratureInv
<1> QED BY <1>1, LiteratureInvariant, PTL

\* What is complete has its row, a gap that was tested is challenged by every contrary
\* record found, and decisions are superseded and uncertainties resolved by decisions
\* about the same record (src/literature), however many searches of a gap overlap,
\* wherever the process dies and whatever is sent again.
THEOREM LiteratureIsKept == LiteratureSpec => []LiteratureHolds
<1>1. LiteratureInv => LiteratureHolds
  BY DEF LiteratureInv
<1> QED BY <1>1, LiteratureInvariant, PTL

\* What is complete, what a row says but for the state of a gap, and the decision that
\* superseded another or resolved an entry stay as they were recorded (src/literature),
\* however often a command is sent again.
THEOREM ReviewIsRecordedForGood == LiteratureSpec => RecordedForGood
<1>1. LiteratureInv /\ [LiteratureNext]_litVars => [Recorded]_litVars
  BY LiteratureStepKeeps
<1> QED BY <1>1, LiteratureInvariant, PTL DEF LiteratureSpec, RecordedForGood

-----------------------------------------------------------------------------
(* Analyses of src/analysis. *)

\* What has a row or was executed is recorded, unless it was cut short before.
RunIsRecorded ==
  \A c \in CommandIds : Unrecorded(c) /\ (c \in executed \/ analyses[c] # Nothing) => c \in cutShort

\* A run is recorded with what it was of.
RunIsOfItsTerms ==
  \A c \in CommandIds :
    ~Unrecorded(c) /\ analysisOps[c].kind = "analysis-run" =>
      /\ analyses[c] # Nothing
      /\ analysisOps[c].terms = Terms(analyses[c].argv, analyses[c].output)

AnalysisInv ==
  AnalysisTypeOK /\ RunIsRecorded /\ RunIsOfItsTerms /\ AnalysesHold

LEMMA AnalysisInitially == ASSUME AnalysisInit PROVE AnalysisInv
<1>1. AnalysisTypeOK
  BY DEF AnalysisInit, AnalysisTypeOK
<1>2. RunIsRecorded /\ RunIsOfItsTerms
  BY DEF AnalysisInit, RunIsRecorded, RunIsOfItsTerms, Unrecorded
<1>3. AnalysesHold
  BY DEF AnalysisInit, AnalysesHold, RunsConfirmed, ReproducedAgree, SettledUnlessCut, StatusIsTrue,
         RecordedIsDone, Unrecorded
<1> QED BY <1>1, <1>2, <1>3 DEF AnalysisInv

\* A command runs in a mode, confirmed for it unless everything is allowed.
LEMMA RunsInMode ==
  ASSUME AnalysisTypeOK, NEW argv, NEW i, MayRun(argv, i)
  PROVE  /\ runMode \in Modes
         /\ runMode # "full-access" =>
              \E j \in DOMAIN confirmed : confirmed[j].argv = argv /\ confirmed[j].mode = runMode
<1>1. i \in DOMAIN confirmed => confirmed[i] \in Confirmations
  BY DEF AnalysisTypeOK
<1> QED BY <1>1, AnalysisAssumption DEF MayRun, AnalysisTypeOK, Confirmations

\* Recording an operation.
LEMMA RecordOperationType ==
  ASSUME AnalysisTypeOK, NEW c \in CommandIds, NEW kind, NEW terms, NEW whole \in BOOLEAN,
         [kind |-> kind, terms |-> terms] \in Operations, RecordOperation(c, kind, terms, whole)
  PROVE  /\ analysisOps' \in [CommandIds -> Operations \cup {Nothing}]
         /\ cutShort' \subseteq CommandIds /\ cutShort \subseteq cutShort'
         /\ \A d \in CommandIds \ {c} : analysisOps'[d] = analysisOps[d]
         /\ whole => analysisOps'[c] = [kind |-> kind, terms |-> terms] /\ analysisOps'[c] # Nothing
         /\ ~whole => analysisOps' = analysisOps /\ c \in cutShort'
BY NullAnalysisAssumption DEF AnalysisTypeOK, RecordOperation

\* What an operation on something else than a run leaves: confirmations, outputs and
\* notes may come, and one command more may be recorded or cut short.
LEMMA AnalysesStay ==
  ASSUME AnalysisInv, AnalysisTypeOK', NEW c \in CommandIds, Unrecorded(c),
         NEW kind \in {"execution-policy", "command-confirmation", "external-analysis-import"} \cup NoteKinds,
         NEW terms, NEW whole \in BOOLEAN,
         [kind |-> kind, terms |-> terms] \in Operations,
         UNCHANGED <<analyses, held, executed, again, gates>>,
         \/ RecordOperation(c, kind, terms, whole) /\ UNCHANGED strays
         \/ UNCHANGED analysisOps /\ strays' = strays \cup {c} /\ cutShort' = cutShort \cup {c},
         \A i \in DOMAIN confirmed : i \in DOMAIN confirmed' /\ confirmed'[i] = confirmed[i],
         \A x \in CommandIds : outputs[x] # Nothing => outputs'[x] = outputs[x],
         notes \subseteq notes',
         analysisOps' # analysisOps =>
           /\ kind = "external-analysis-import" => outputs'[c] # Nothing
           /\ kind = "command-confirmation" => \E i \in DOMAIN confirmed' : confirmed'[i].command = c
           /\ kind \in NoteKinds => <<kind, c>> \in notes'
  PROVE  AnalysisInv'
<1>1. /\ cutShort \subseteq cutShort'
      /\ \A d \in CommandIds \ {c} : analysisOps'[d] = analysisOps[d]
      /\ \/ analysisOps'[c] = analysisOps[c]
         \/ analysisOps'[c] = [kind |-> kind, terms |-> terms] /\ analysisOps'[c] # Nothing
              /\ analysisOps' # analysisOps
      /\ strays' \subseteq strays \cup cutShort'
  <2>1. CASE RecordOperation(c, kind, terms, whole) /\ UNCHANGED strays
    <3>1. AnalysisTypeOK
      BY DEF AnalysisInv
    <3>2. /\ cutShort \subseteq cutShort'
          /\ \A d \in CommandIds \ {c} : analysisOps'[d] = analysisOps[d]
          /\ whole => analysisOps'[c] = [kind |-> kind, terms |-> terms] /\ analysisOps'[c] # Nothing
          /\ ~whole => analysisOps' = analysisOps /\ c \in cutShort'
      BY <2>1, <3>1, RecordOperationType
    <3>3. analysisOps[c] = Nothing
      BY DEF Unrecorded
    <3> QED BY <2>1, <3>2, <3>3
  <2>2. CASE UNCHANGED analysisOps /\ strays' = strays \cup {c} /\ cutShort' = cutShort \cup {c}
    BY <2>2
  <2> QED BY <2>1, <2>2
<1>2. analyses' = analyses /\ held' = held /\ executed' = executed /\ again' = again /\ gates' = gates
  OBVIOUS
<1>3. \A d \in CommandIds : Unrecorded(d)' => Unrecorded(d)
  BY <1>1 DEF Unrecorded
<1>4. StatusIsTrue'
  BY <1>2 DEF AnalysisInv, AnalysesHold, StatusIsTrue
<1>5. RunIsRecorded'
  BY <1>1, <1>2, <1>3 DEF AnalysisInv, RunIsRecorded
<1>6. \A d \in CommandIds : ~Unrecorded(d)' /\ analysisOps'[d].kind = "analysis-run"
                            => ~Unrecorded(d) /\ analysisOps'[d] = analysisOps[d]
  <2> SUFFICES ASSUME NEW d \in CommandIds, ~Unrecorded(d)', analysisOps'[d].kind = "analysis-run"
               PROVE  ~Unrecorded(d) /\ analysisOps'[d] = analysisOps[d]
    OBVIOUS
  <2>1. CASE analysisOps'[d] = analysisOps[d]
    BY <2>1 DEF Unrecorded
  <2>2. CASE analysisOps'[d] # analysisOps[d]
    <3>1. analysisOps'[d].kind = kind
      BY <1>1, <2>2
    <3> QED BY <3>1 DEF NoteKinds
  <2> QED BY <2>1, <2>2
<1>7. RunIsOfItsTerms'
  BY <1>2, <1>6 DEF AnalysisInv, RunIsOfItsTerms
<1>8. RunsConfirmed'
  <2> SUFFICES ASSUME NEW d \in CommandIds, analyses[d] # Nothing, analyses[d].mode # "full-access"
               PROVE  \E i \in DOMAIN confirmed' :
                        confirmed'[i].argv = analyses[d].argv /\ confirmed'[i].mode = analyses[d].mode
    BY <1>2 DEF RunsConfirmed
  <2>1. PICK i \in DOMAIN confirmed :
          confirmed[i].argv = analyses[d].argv /\ confirmed[i].mode = analyses[d].mode
    BY DEF AnalysisInv, AnalysesHold, RunsConfirmed
  <2> QED BY <2>1
<1>9. ReproducedAgree'
  <2> SUFFICES ASSUME NEW d \in CommandIds, analyses[d] # Nothing, analyses[d].reproduced
               PROVE  \E x \in CommandIds :
                        /\ outputs'[x] # Nothing /\ analyses[d].output = x
                        /\ analyses[d].status = "succeeded" /\ analyses[d].stdout = outputs'[x].content
                        /\ outputs'[x].argv \in {analyses[d].argv, Nothing}
    BY <1>2 DEF ReproducedAgree
  <2>1. PICK x \in CommandIds :
          /\ outputs[x] # Nothing /\ analyses[d].output = x
          /\ analyses[d].status = "succeeded" /\ analyses[d].stdout = outputs[x].content
          /\ outputs[x].argv \in {analyses[d].argv, Nothing}
    BY DEF AnalysisInv, AnalysesHold, ReproducedAgree
  <2>2. outputs'[x] = outputs[x]
    BY <2>1
  <2> QED BY <2>1, <2>2
<1>10. SettledUnlessCut'
  <2>1. SettledUnlessCut
    BY DEF AnalysisInv, AnalysesHold
  <2> QED BY <2>1, <1>1, <1>2 DEF SettledUnlessCut
<1>11. RecordedIsDone'
  <2> SUFFICES ASSUME NEW d \in CommandIds, ~Unrecorded(d)'
               PROVE  LET k == analysisOps'[d].kind
                      IN  /\ k = "analysis-run" => analyses'[d] # Nothing
                          /\ k = "external-analysis-import" => outputs'[d] # Nothing
                          /\ k = "command-confirmation" =>
                               \E i \in DOMAIN confirmed' : confirmed'[i].command = d
                          /\ k \in NoteKinds => <<k, d>> \in notes'
    BY DEF RecordedIsDone
  <2>1. CASE analysisOps'[d] = analysisOps[d]
    <3>1. ~Unrecorded(d)
      BY <2>1 DEF Unrecorded
    <3>2. /\ analysisOps[d].kind = "analysis-run" => analyses[d] # Nothing
          /\ analysisOps[d].kind = "external-analysis-import" => outputs[d] # Nothing
          /\ analysisOps[d].kind = "command-confirmation" =>
               \E i \in DOMAIN confirmed : confirmed[i].command = d
          /\ analysisOps[d].kind \in NoteKinds => <<analysisOps[d].kind, d>> \in notes
      BY <3>1 DEF AnalysisInv, AnalysesHold, RecordedIsDone
    <3> QED BY <2>1, <3>2, <1>2
  <2>2. CASE analysisOps'[d] # analysisOps[d]
    <3>1. d = c /\ analysisOps'[d].kind = kind /\ analysisOps' # analysisOps
      BY <1>1, <2>2
    <3>2. kind # "analysis-run"
      BY DEF NoteKinds
    <3> QED BY <3>1, <3>2
  <2> QED BY <2>1, <2>2
<1> QED BY <1>4, <1>5, <1>7, <1>8, <1>9, <1>10, <1>11 DEF AnalysisInv, AnalysesHold

LEMMA ConfigureKeeps ==
  ASSUME AnalysisInv, NEW c \in CommandIds, NEW mode \in Modes, NEW whole \in BOOLEAN,
         ConfigureExecution(c, mode, whole)
  PROVE  AnalysisInv'
<1> DEFINE kind == "execution-policy"
           terms == <<mode>>
<1>1. [kind |-> kind, terms |-> terms] \in Operations
  BY DEF Operations
<1>2. RecordOperation(c, kind, terms, whole) /\ Unrecorded(c) /\ AnalysisTypeOK
  BY DEF ConfigureExecution, AnalysisInv
<1>3. /\ analysisOps' \in [CommandIds -> Operations \cup {Nothing}]
      /\ cutShort' \subseteq CommandIds
  BY <1>1, <1>2, RecordOperationType
<1>4. AnalysisTypeOK'
  BY <1>2, <1>3 DEF AnalysisTypeOK, ConfigureExecution
<1>5. /\ UNCHANGED <<analyses, held, executed, again, gates, strays, confirmed, outputs, notes>>
      /\ kind \in {"execution-policy", "command-confirmation", "external-analysis-import"} \cup NoteKinds
      /\ kind # "external-analysis-import" /\ kind # "command-confirmation" /\ kind \notin NoteKinds
  BY DEF ConfigureExecution, NoteKinds
<1> HIDE DEF kind, terms
<1> QED BY <1>1, <1>2, <1>4, <1>5, AnalysesStay

LEMMA ConfirmKeeps ==
  ASSUME AnalysisInv, NEW c \in CommandIds, NEW argv \in Argvs, NEW whole \in BOOLEAN,
         ConfirmCommand(c, argv, whole)
  PROVE  AnalysisInv'
<1> DEFINE kind == "command-confirmation"
           terms == <<argv, runMode>>
           confirmation == [command |-> c, argv |-> argv, mode |-> runMode]
<1>0. AnalysisTypeOK /\ runMode \in Modes
  BY DEF AnalysisInv, AnalysisTypeOK, ConfirmCommand
<1>1. [kind |-> kind, terms |-> terms] \in Operations
  BY <1>0 DEF Operations
<1>2. RecordOperation(c, kind, terms, whole) /\ Unrecorded(c)
  BY DEF ConfirmCommand
<1>3. /\ analysisOps' \in [CommandIds -> Operations \cup {Nothing}]
      /\ cutShort' \subseteq CommandIds
  BY <1>0, <1>1, <1>2, RecordOperationType
<1>4. /\ confirmed \in Seq(Confirmations) /\ confirmation \in Confirmations
      /\ confirmed' = Append(confirmed, confirmation)
  BY <1>0 DEF AnalysisTypeOK, ConfirmCommand, Confirmations
<1>5. /\ confirmed' \in Seq(Confirmations)
      /\ \A i \in DOMAIN confirmed : i \in DOMAIN confirmed' /\ confirmed'[i] = confirmed[i]
      /\ Len(confirmed) + 1 \in DOMAIN confirmed' /\ confirmed'[Len(confirmed) + 1] = confirmation
  <2> HIDE DEF confirmation
  <2> QED BY ONLY <1>4
<1>6. AnalysisTypeOK'
  BY <1>0, <1>3, <1>5 DEF AnalysisTypeOK, ConfirmCommand
<1>7. \E i \in DOMAIN confirmed' : confirmed'[i].command = c
  BY <1>5
<1>8. /\ UNCHANGED <<analyses, held, executed, again, gates, strays, outputs, notes>>
      /\ kind \in {"execution-policy", "command-confirmation", "external-analysis-import"} \cup NoteKinds
      /\ kind # "external-analysis-import" /\ kind \notin NoteKinds
  BY DEF ConfirmCommand, NoteKinds
<1> HIDE DEF kind, terms
<1> QED BY <1>1, <1>2, <1>5, <1>6, <1>7, <1>8, AnalysesStay

LEMMA AddNoteKeeps ==
  ASSUME AnalysisInv, NEW c \in CommandIds, NEW kind \in NoteKinds, NEW whole \in BOOLEAN,
         AddNote(kind, c, whole)
  PROVE  AnalysisInv'
<1> DEFINE terms == <<kind>>
<1>1. [kind |-> kind, terms |-> terms] \in Operations
  BY DEF Operations
<1>2. RecordOperation(c, kind, terms, whole) /\ Unrecorded(c) /\ AnalysisTypeOK
  BY DEF AddNote, AnalysisInv
<1>3. /\ analysisOps' \in [CommandIds -> Operations \cup {Nothing}]
      /\ cutShort' \subseteq CommandIds
  BY <1>1, <1>2, RecordOperationType
<1>4. AnalysisTypeOK'
  BY <1>2, <1>3 DEF AnalysisTypeOK, AddNote
<1>5. /\ UNCHANGED <<analyses, held, executed, again, gates, strays, confirmed, outputs>>
      /\ notes \subseteq notes' /\ <<kind, c>> \in notes'
  BY DEF AddNote
<1>6. /\ kind \in {"execution-policy", "command-confirmation", "external-analysis-import"} \cup NoteKinds
      /\ kind # "external-analysis-import" /\ kind # "command-confirmation"
  BY DEF NoteKinds
<1> HIDE DEF terms
<1> QED BY <1>1, <1>2, <1>4, <1>5, <1>6, AnalysesStay

LEMMA ImportKeeps ==
  ASSUME AnalysisInv, NEW c \in CommandIds, NEW output \in Outputs, NEW last \in RunStages,
         ImportOutput(c, output, last)
  PROVE  AnalysisInv'
<1> DEFINE kind == "external-analysis-import"
           terms == <<output.content, output.argv>>
           whole == last = "recorded"
<1>0. AnalysisTypeOK /\ Unrecorded(c) /\ whole \in BOOLEAN
  BY DEF AnalysisInv, ImportOutput
<1>1. [kind |-> kind, terms |-> terms] \in Operations
  BY DEF Operations, Outputs
<1>2. /\ UNCHANGED <<analyses, held, executed, again, gates, confirmed, notes>>
      /\ kind \in {"execution-policy", "command-confirmation", "external-analysis-import"} \cup NoteKinds
      /\ kind # "command-confirmation" /\ kind \notin NoteKinds
  BY DEF ImportOutput, NoteKinds
<1>3. CASE last = "executed" \/ outputs[c] # Nothing
  <2>1. /\ UNCHANGED <<analysisOps, outputs>>
        /\ strays' = strays \cup {c} /\ cutShort' = cutShort \cup {c}
    BY <1>3 DEF ImportOutput
  <2>2. AnalysisTypeOK'
    BY <1>0, <2>1 DEF AnalysisTypeOK, ImportOutput
  <2> HIDE DEF kind, terms, whole
  <2> QED BY <1>0, <1>1, <1>2, <2>1, <2>2, AnalysesStay
<1>4. CASE ~(last = "executed" \/ outputs[c] # Nothing)
  <2>1. /\ outputs' = [outputs EXCEPT ![c] = output] /\ outputs[c] = Nothing
        /\ RecordOperation(c, kind, terms, whole) /\ UNCHANGED strays
    BY <1>4 DEF ImportOutput
  <2>2. /\ analysisOps' \in [CommandIds -> Operations \cup {Nothing}]
        /\ cutShort' \subseteq CommandIds
    <3> HIDE DEF kind, terms, whole
    <3> QED BY <1>0, <1>1, <2>1, RecordOperationType
  <2>3. outputs \in [CommandIds -> Outputs \cup {Nothing}]
    BY <1>0 DEF AnalysisTypeOK
  <2>4. /\ outputs' \in [CommandIds -> Outputs \cup {Nothing}]
        /\ \A x \in CommandIds : outputs[x] # Nothing => outputs'[x] = outputs[x]
        /\ outputs'[c] # Nothing
    BY ONLY <2>1, <2>3, NullAnalysisAssumption, output \in Outputs, c \in CommandIds
  <2>5. AnalysisTypeOK'
    BY <1>0, <2>1, <2>2, <2>4 DEF AnalysisTypeOK, ImportOutput
  <2> HIDE DEF kind, terms, whole
  <2> QED BY <1>0, <1>1, <1>2, <2>1, <2>4, <2>5, AnalysesStay
<1> QED BY <1>3, <1>4

LEMMA DeletionKeeps ==
  ASSUME AnalysisInv, NEW of, DeleteContent(of)
  PROVE  AnalysisInv'
<1>1. /\ UNCHANGED <<analyses, outputs, confirmed, notes, analysisOps, gates, held, executed, again,
                     cutShort, strays, runMode>>
      /\ gone' \subseteq {"run", "output"} \X CommandIds
  BY DEF DeleteContent, AnalysisInv, AnalysisTypeOK
<1>2. AnalysisTypeOK'
  BY <1>1 DEF AnalysisInv, AnalysisTypeOK
<1>3. RunIsRecorded' /\ RunIsOfItsTerms'
  BY <1>1 DEF AnalysisInv, RunIsRecorded, RunIsOfItsTerms, Unrecorded
<1>4. AnalysesHold'
  BY <1>1 DEF AnalysisInv, AnalysesHold, RunsConfirmed, ReproducedAgree, SettledUnlessCut,
              StatusIsTrue, RecordedIsDone, Unrecorded
<1> QED BY <1>2, <1>3, <1>4 DEF AnalysisInv

\* What a run leaves that is carried out for the first time: row is in the mode of
\* the moment and, where it is marked, agrees with the output it names.
LEMMA PerformKeeps ==
  ASSUME AnalysisInv, NEW c \in CommandIds, NEW row \in Analyses, NEW i, NEW last \in RunStages,
         Perform(c, row, i, last), row.mode = runMode,
         row.reproduced =>
           \E x \in CommandIds :
             /\ outputs[x] # Nothing /\ row.output = x
             /\ row.status = "succeeded" /\ row.stdout = outputs[x].content
             /\ outputs[x].argv \in {row.argv, Nothing},
         UNCHANGED <<runMode, confirmed, outputs, notes, gone>>
  PROVE  AnalysisInv'
<1> DEFINE terms == Terms(row.argv, row.output)
           whole == last = "recorded"
           settled == IF row.status = "quarantined" THEN "quarantined" ELSE "completed"
<1>0. AnalysisTypeOK /\ Unrecorded(c) /\ analyses[c] = Nothing /\ MayRun(row.argv, i) /\ whole \in BOOLEAN
  BY DEF AnalysisInv, Perform
<1>a. PICK status \in Left(row, last) : gates' = gates \cup {<<c, status>>}
  BY DEF Perform
<1>1. [kind |-> "analysis-run", terms |-> terms] \in Operations
  BY DEF Operations, Analyses, Terms
<1>2. /\ analysisOps' \in [CommandIds -> Operations \cup {Nothing}]
      /\ cutShort' \subseteq CommandIds /\ cutShort \subseteq cutShort'
      /\ \A d \in CommandIds \ {c} : analysisOps'[d] = analysisOps[d]
      /\ whole => analysisOps'[c] = [kind |-> "analysis-run", terms |-> terms] /\ analysisOps'[c] # Nothing
      /\ ~whole => analysisOps' = analysisOps /\ c \in cutShort'
  <2>1. RecordOperation(c, "analysis-run", terms, whole)
    BY DEF Perform
  <2> HIDE DEF terms, whole
  <2> QED BY <1>0, <1>1, <2>1, RecordOperationType
<1>3. /\ executed' \subseteq executed \cup {c} /\ executed \subseteq executed' /\ executed \subseteq CommandIds
      /\ again' \subseteq again \cup ({c} \cap executed)
      /\ analyses' = analyses \/ analyses' = [analyses EXCEPT ![c] = row]
      /\ strays' = strays \/ (strays' = strays \cup {c} /\ last = "executed")
      /\ status \in {"queued", "blocked", settled}
      /\ held' = held \/ (held' = held \cup {c} /\ row.status = "quarantined" /\ Reached("held", last))
      /\ whole => /\ analyses' = [analyses EXCEPT ![c] = row]
                  /\ status = settled
                  /\ row.status = "quarantined" => c \in held'
      /\ Reached("held", last) \/ status = settled => analyses' = [analyses EXCEPT ![c] = row]
  BY <1>0, <1>a DEF Perform, Execute, Reached, Before, RunStages, AnalysisTypeOK, Left
<1>b. settled \in {"completed", "quarantined"} /\ (settled = "quarantined" <=> row.status = "quarantined")
  OBVIOUS
<1> HIDE DEF settled
<1>4. /\ analyses \in [CommandIds -> Analyses \cup {Nothing}] /\ row # Nothing
      /\ analyses' \in [CommandIds -> Analyses \cup {Nothing}]
      /\ \A d \in CommandIds \ {c} : analyses'[d] = analyses[d]
      /\ analyses'[c] \in {Nothing, row}
  <2>1. analyses \in [CommandIds -> Analyses \cup {Nothing}]
    BY <1>0 DEF AnalysisTypeOK
  <2> QED BY ONLY <2>1, <1>0, <1>3, NullAnalysisAssumption, row \in Analyses, c \in CommandIds
<1>5. AnalysisTypeOK'
  <2>1. /\ status \in {"queued", "blocked", "completed", "quarantined"}
        /\ gates' \subseteq CommandIds \X {"queued", "blocked", "completed", "quarantined"}
    BY <1>0, <1>a, <1>3, <1>b DEF AnalysisTypeOK
  <2>2. held' \cup executed' \cup again' \cup cutShort' \cup strays' \subseteq CommandIds
    BY <1>0, <1>2, <1>3 DEF AnalysisTypeOK
  <2> QED BY <1>0, <1>2, <1>4, <2>1, <2>2 DEF AnalysisTypeOK
<1>6. \A d \in CommandIds \ {c} : Unrecorded(d)' <=> Unrecorded(d)
  BY <1>2 DEF Unrecorded
<1>7. StatusIsTrue'
  <2> SUFFICES ASSUME NEW d \in CommandIds
               PROVE  /\ <<d, "completed">> \in gates' =>
                           analyses'[d] # Nothing /\ analyses'[d].status # "quarantined"
                      /\ d \in held' \/ <<d, "quarantined">> \in gates' =>
                           analyses'[d] # Nothing /\ analyses'[d].status = "quarantined"
    BY DEF StatusIsTrue
  <2>1. StatusIsTrue
    BY DEF AnalysisInv, AnalysesHold
  <2>2. CASE d # c
    <3>1. /\ \A t : <<d, t>> \in gates' <=> <<d, t>> \in gates
          /\ d \in held' <=> d \in held
      BY <2>2, <1>a, <1>3
    <3> QED BY <2>1, <2>2, <3>1, <1>4 DEF StatusIsTrue
  <2>3. CASE d = c
    <3>1. <<c, "completed">> \notin gates /\ <<c, "quarantined">> \notin gates /\ c \notin held
      BY <2>1, <1>0 DEF StatusIsTrue
    <3>2. /\ <<c, "completed">> \in gates' => status = "completed"
          /\ <<c, "quarantined">> \in gates' => status = "quarantined"
          /\ c \in held' => row.status = "quarantined" /\ Reached("held", last)
      BY <3>1, <1>a, <1>3
    <3>3. status \in {"completed", "quarantined"} => status = settled
      BY <1>3
    <3> QED BY <2>3, <3>2, <3>3, <1>3, <1>4, <1>b
  <2> QED BY <2>2, <2>3
<1>8. RunIsRecorded'
  <2> SUFFICES ASSUME NEW d \in CommandIds, Unrecorded(d)', d \in executed' \/ analyses'[d] # Nothing
               PROVE  d \in cutShort'
    BY DEF RunIsRecorded
  <2>1. CASE d = c
    BY <2>1, <1>2 DEF Unrecorded
  <2>2. CASE d # c
    <3>1. Unrecorded(d) /\ (d \in executed \/ analyses[d] # Nothing)
      BY <2>2, <1>3, <1>4, <1>6
    <3> QED BY <3>1, <1>2 DEF AnalysisInv, RunIsRecorded
  <2> QED BY <2>1, <2>2
<1>9. RunIsOfItsTerms'
  <2> SUFFICES ASSUME NEW d \in CommandIds, ~Unrecorded(d)', analysisOps'[d].kind = "analysis-run"
               PROVE  /\ analyses'[d] # Nothing
                      /\ analysisOps'[d].terms = Terms(analyses'[d].argv, analyses'[d].output)
    BY DEF RunIsOfItsTerms
  <2>1. CASE d = c
    <3>1. whole
      BY <2>1, <1>0, <1>2 DEF Unrecorded
    <3>2. analyses'[c] = row /\ analysisOps'[c].terms = terms
      BY <3>1, <1>2, <1>3, <1>4
    <3> QED BY <2>1, <3>2, <1>4
  <2>2. CASE d # c
    BY <2>2, <1>2, <1>4, <1>6 DEF AnalysisInv, RunIsOfItsTerms
  <2> QED BY <2>1, <2>2
<1>10. RunsConfirmed'
  <2> SUFFICES ASSUME NEW d \in CommandIds, analyses'[d] # Nothing, analyses'[d].mode # "full-access"
               PROVE  \E j \in DOMAIN confirmed :
                        confirmed[j].argv = analyses'[d].argv /\ confirmed[j].mode = analyses'[d].mode
    BY DEF RunsConfirmed
  <2>1. CASE d = c
    <3>1. analyses'[d] = row /\ runMode # "full-access"
      BY <2>1, <1>4
    <3>2. \E j \in DOMAIN confirmed : confirmed[j].argv = row.argv /\ confirmed[j].mode = runMode
      BY <1>0, <3>1, RunsInMode
    <3> QED BY <3>1, <3>2
  <2>2. CASE d # c
    BY <2>2, <1>4 DEF AnalysisInv, AnalysesHold, RunsConfirmed
  <2> QED BY <2>1, <2>2
<1>11. ReproducedAgree'
  <2> SUFFICES ASSUME NEW d \in CommandIds, analyses'[d] # Nothing, analyses'[d].reproduced
               PROVE  \E x \in CommandIds :
                        /\ outputs[x] # Nothing /\ analyses'[d].output = x
                        /\ analyses'[d].status = "succeeded" /\ analyses'[d].stdout = outputs[x].content
                        /\ outputs[x].argv \in {analyses'[d].argv, Nothing}
    BY DEF ReproducedAgree
  <2>1. CASE d = c
    BY <2>1, <1>4
  <2>2. CASE d # c
    BY <2>2, <1>4 DEF AnalysisInv, AnalysesHold, ReproducedAgree
  <2> QED BY <2>1, <2>2
<1>12. SettledUnlessCut'
  <2>1. SettledUnlessCut /\ StatusIsTrue
    BY DEF AnalysisInv, AnalysesHold
  <2>2. again' \subseteq cutShort'
    <3>1. c \in executed => c \in cutShort
      BY <1>0 DEF AnalysisInv, RunIsRecorded
    <3> QED BY <3>1, <2>1, <1>2, <1>3 DEF SettledUnlessCut
  <2>3. strays' \subseteq cutShort'
    BY <2>1, <1>2, <1>3 DEF SettledUnlessCut
  <2>4. ASSUME NEW d \in CommandIds \ cutShort', analyses'[d] # Nothing
        PROVE  IF analyses'[d].status = "quarantined"
               THEN d \in held' /\ <<d, "quarantined">> \in gates'
               ELSE d \notin held' /\ <<d, "completed">> \in gates'
    <3>1. CASE d = c
      <4>1. whole /\ analyses'[c] = row /\ c \notin held
        BY <3>1, <2>4, <1>0, <1>2, <1>4, <2>1 DEF StatusIsTrue
      <4>2. row.status # "quarantined" => c \notin held'
        BY <4>1, <1>3
      <4>3. <<c, settled>> \in gates'
        BY <4>1, <1>a, <1>3
      <4> QED BY <3>1, <4>1, <4>2, <4>3, <1>3, <1>b
    <3>2. CASE d # c
      <4>1. analyses'[d] = analyses[d] /\ d \notin cutShort /\ (d \in held' <=> d \in held) /\ gates \subseteq gates'
        BY <3>2, <2>4, <1>a, <1>2, <1>3, <1>4
      <4> QED BY <4>1, <2>1, <2>4 DEF SettledUnlessCut
    <3> QED BY <3>1, <3>2
  <2> QED BY <2>2, <2>3, <2>4 DEF SettledUnlessCut
<1>13. RecordedIsDone'
  <2> SUFFICES ASSUME NEW d \in CommandIds, ~Unrecorded(d)'
               PROVE  LET k == analysisOps'[d].kind
                      IN  /\ k = "analysis-run" => analyses'[d] # Nothing
                          /\ k = "external-analysis-import" => outputs[d] # Nothing
                          /\ k = "command-confirmation" => \E j \in DOMAIN confirmed : confirmed[j].command = d
                          /\ k \in NoteKinds => <<k, d>> \in notes
    BY DEF RecordedIsDone
  <2>1. CASE d = c
    <3>1. whole
      BY <2>1, <1>0, <1>2 DEF Unrecorded
    <3>2. analysisOps'[d].kind = "analysis-run" /\ analyses'[d] # Nothing
      BY <2>1, <3>1, <1>2, <1>3, <1>4
    <3> QED BY <3>2 DEF NoteKinds
  <2>2. CASE d # c
    <3>1. ~Unrecorded(d) /\ analysisOps'[d] = analysisOps[d] /\ analyses'[d] = analyses[d]
      BY <2>2, <1>2, <1>4, <1>6
    <3> QED BY <3>1 DEF AnalysisInv, AnalysesHold, RecordedIsDone
  <2> QED BY <2>1, <2>2
<1> QED BY <1>5, <1>7, <1>8, <1>9, <1>10, <1>11, <1>12, <1>13 DEF AnalysisInv, AnalysesHold

\* A command whose row was left without a record is executed again.
LEMMA PerformAgainKeeps ==
  ASSUME AnalysisInv, NEW c \in CommandIds, NEW argv, NEW i,
         PerformAgain(c, argv, i) \/ Refuse(c),
         UNCHANGED <<runMode, confirmed, outputs, notes, gone>>
  PROVE  AnalysisInv'
<1>0. AnalysisTypeOK
  BY DEF AnalysisInv
<1>1. /\ UNCHANGED <<analyses, held, analysisOps, cutShort>>
      /\ gates' = gates \cup {<<c, "blocked">>}
      /\ strays' = strays \/ (strays' = strays \cup {c} /\ c \in cutShort)
      /\ executed' \subseteq executed \cup {c}
      /\ again' \subseteq again \cup {c}
      /\ c \in executed' \/ c \in again' => c \in cutShort' \/ c \in executed \/ c \in again
      /\ again' # again => c \in cutShort
  BY DEF PerformAgain, Refuse, Execute, AnalysisInv, RunIsRecorded
<1>2. AnalysisTypeOK'
  BY <1>0, <1>1 DEF AnalysisTypeOK
<1>3. RunIsOfItsTerms' /\ StatusIsTrue'
  <2>1. \A d \in CommandIds, t \in {"completed", "quarantined"} : <<d, t>> \in gates' <=> <<d, t>> \in gates
    BY <1>1
  <2> QED BY <1>1, <2>1 DEF AnalysisInv, RunIsOfItsTerms, AnalysesHold, StatusIsTrue, Unrecorded
<1>4. RunIsRecorded'
  <2>1. \A d \in CommandIds : d \in executed' => d \in executed \/ d \in cutShort
    BY DEF PerformAgain, Refuse, Execute, AnalysisInv, RunIsRecorded
  <2> QED BY <1>1, <2>1 DEF AnalysisInv, RunIsRecorded, Unrecorded
<1>5. RunsConfirmed' /\ ReproducedAgree' /\ RecordedIsDone'
  BY <1>1 DEF AnalysisInv, AnalysesHold, RunsConfirmed, ReproducedAgree, RecordedIsDone, Unrecorded
<1>6. SettledUnlessCut'
  <2>1. SettledUnlessCut
    BY DEF AnalysisInv, AnalysesHold
  <2> QED BY <1>1, <2>1 DEF SettledUnlessCut
<1> QED BY <1>2, <1>3, <1>4, <1>5, <1>6 DEF AnalysisInv, AnalysesHold

\* What a command leaves in the mode of the moment has the type of a row.
LEMMA ResultsType ==
  ASSUME AnalysisTypeOK, NEW argv \in Argvs, NEW output \in CommandIds \cup {Nothing}, NEW i,
         NEW row \in Results(argv, output), MayRun(argv, i)
  PROVE  row \in Analyses /\ row.argv = argv /\ row.mode = runMode /\ row.output = output /\ ~row.reproduced
<1>1. runMode \in Modes
  BY RunsInMode
<1>2. PICK status \in {"succeeded", "failed", "quarantined"}, stdout \in Contents \cup {Nothing} :
        row = [argv |-> argv, mode |-> runMode, output |-> output, reproduced |-> FALSE,
               status |-> status, stdout |-> IF status = "quarantined" THEN Nothing ELSE stdout]
  BY DEF Results
<1>3. (IF status = "quarantined" THEN Nothing ELSE stdout) \in Contents \cup {Nothing}
  OBVIOUS
<1> QED BY <1>1, <1>2, <1>3 DEF Analyses

LEMMA RunKeeps ==
  ASSUME AnalysisInv, NEW c \in CommandIds, NEW argv \in Argvs, NEW output \in CommandIds \cup {Nothing},
         NEW i, RunAuthorizedAnalysis(c, argv, output, i)
  PROVE  AnalysisInv'
<1>0. AnalysisTypeOK /\ UNCHANGED <<runMode, confirmed, outputs, notes, gone>>
  BY DEF AnalysisInv, RunAuthorizedAnalysis
<1>1. ASSUME NEW row \in Results(argv, output), NEW last \in RunStages, Perform(c, row, i, last)
      PROVE  AnalysisInv'
  <2>1. row.argv = argv
    BY DEF Results
  <2>2. MayRun(argv, i)
    BY <1>1, <2>1 DEF Perform
  <2>3. row \in Analyses /\ row.mode = runMode /\ ~row.reproduced
    BY <1>0, <2>2, ResultsType
  <2> QED BY <1>0, <1>1, <2>3, PerformKeeps
<1>2. ASSUME PerformAgain(c, argv, i) \/ Refuse(c) PROVE AnalysisInv'
  BY <1>0, <1>2, PerformAgainKeeps
<1> QED BY <1>1, <1>2 DEF RunAuthorizedAnalysis

\* A run that is there is found to agree with an output, and marked.
LEMMA MarkKeeps ==
  ASSUME AnalysisInv, NEW c \in CommandIds, NEW x \in CommandIds, NEW argv \in Argvs,
         outputs[x] # Nothing, outputs[x].argv \in {argv, Nothing},
         RanBefore(c, argv, x), Agrees(c, analyses[c], x),
         analyses' = [analyses EXCEPT ![c].reproduced = TRUE],
         UNCHANGED <<runMode, confirmed, outputs, notes, gone, analysisOps, gates, held, executed, again,
                     cutShort, strays>>
  PROVE  AnalysisInv'
<1>0. AnalysisTypeOK
  BY DEF AnalysisInv
<1>1. analysisOps[c] # Nothing /\ analysisOps[c].kind = "analysis-run" /\ analysisOps[c].terms = Terms(argv, x)
  <2>1. analysisOps[c] \in Operations \cup {Nothing}
    BY <1>0 DEF AnalysisTypeOK
  <2>2. [kind |-> "analysis-run", terms |-> Terms(argv, x)] \in Operations
    BY DEF Operations, Terms
  <2> QED BY <2>2, NullAnalysisAssumption DEF RanBefore
<1>2. analyses[c] # Nothing /\ analyses[c].argv = argv /\ analyses[c].output = x
  <2>1. analyses[c] # Nothing /\ Terms(argv, x) = Terms(analyses[c].argv, analyses[c].output)
    BY <1>1 DEF AnalysisInv, RunIsOfItsTerms, Unrecorded
  <2> QED BY <2>1 DEF Terms
<1>3. /\ analyses \in [CommandIds -> Analyses \cup {Nothing}] /\ analyses[c] \in Analyses
      /\ analyses' \in [CommandIds -> Analyses \cup {Nothing}]
      /\ \A d \in CommandIds \ {c} : analyses'[d] = analyses[d]
      /\ analyses'[c] # Nothing /\ analyses'[c].reproduced = TRUE
      /\ analyses'[c].argv = analyses[c].argv /\ analyses'[c].mode = analyses[c].mode
      /\ analyses'[c].output = analyses[c].output /\ analyses'[c].status = analyses[c].status
      /\ analyses'[c].stdout = analyses[c].stdout
  <2> DEFINE marked == [analyses[c] EXCEPT !.reproduced = TRUE]
  <2>1. analyses \in [CommandIds -> Analyses \cup {Nothing}] /\ analyses[c] \in Analyses
    BY <1>0, <1>2 DEF AnalysisTypeOK
  <2>2. /\ marked \in Analyses /\ marked.reproduced = TRUE
        /\ marked.argv = analyses[c].argv /\ marked.mode = analyses[c].mode
        /\ marked.output = analyses[c].output /\ marked.status = analyses[c].status
        /\ marked.stdout = analyses[c].stdout
    BY <2>1 DEF Analyses
  <2>3. analyses' = [analyses EXCEPT ![c] = marked]
    OBVIOUS
  <2> HIDE DEF marked
  <2>4. marked # Nothing
    BY <2>2, NullAnalysisAssumption
  <2> QED BY <2>1, <2>2, <2>3, <2>4
<1>4. \A d \in CommandIds :
        /\ analyses'[d] # Nothing <=> analyses[d] # Nothing
        /\ analyses'[d].argv = analyses[d].argv /\ analyses'[d].mode = analyses[d].mode
        /\ analyses'[d].output = analyses[d].output /\ analyses'[d].status = analyses[d].status
        /\ analyses'[d].stdout = analyses[d].stdout
        /\ d # c => analyses'[d].reproduced = analyses[d].reproduced
  BY <1>2, <1>3
<1>5. AnalysisTypeOK'
  BY <1>0, <1>3 DEF AnalysisTypeOK
<1>6. StatusIsTrue' /\ RunIsRecorded' /\ RunIsOfItsTerms'
  <2>1. StatusIsTrue'
    <3>1. StatusIsTrue
      BY DEF AnalysisInv, AnalysesHold
    <3>2. held' = held /\ gates' = gates
      OBVIOUS
    <3> QED BY ONLY <1>4, <3>1, <3>2 DEF StatusIsTrue
  <2>2. RunIsRecorded'
    BY <1>4 DEF AnalysisInv, RunIsRecorded, Unrecorded
  <2>3. RunIsOfItsTerms'
    <3> SUFFICES ASSUME NEW d \in CommandIds, analysisOps[d] # Nothing, analysisOps[d].kind = "analysis-run"
                 PROVE  analyses'[d] # Nothing
                        /\ analysisOps[d].terms = Terms(analyses'[d].argv, analyses'[d].output)
      BY DEF RunIsOfItsTerms, Unrecorded
    <3>1. analyses[d] # Nothing /\ analysisOps[d].terms = Terms(analyses[d].argv, analyses[d].output)
      BY DEF AnalysisInv, RunIsOfItsTerms, Unrecorded
    <3> QED BY <3>1, <1>4
  <2> QED BY <2>1, <2>2, <2>3
<1>7. RunsConfirmed' /\ SettledUnlessCut' /\ RecordedIsDone'
  <2>1. RunsConfirmed'
    <3> SUFFICES ASSUME NEW d \in CommandIds, analyses'[d] # Nothing, analyses'[d].mode # "full-access"
                 PROVE  \E i \in DOMAIN confirmed :
                          confirmed[i].argv = analyses'[d].argv /\ confirmed[i].mode = analyses'[d].mode
      BY DEF RunsConfirmed
    <3>1. /\ analyses[d] # Nothing /\ analyses[d].mode # "full-access"
          /\ analyses'[d].argv = analyses[d].argv /\ analyses'[d].mode = analyses[d].mode
      BY <1>4
    <3> QED BY <3>1 DEF AnalysisInv, AnalysesHold, RunsConfirmed
  <2>2. SettledUnlessCut'
    <3>1. SettledUnlessCut
      BY DEF AnalysisInv, AnalysesHold
    <3>2. \A d \in CommandIds : (analyses'[d] # Nothing <=> analyses[d] # Nothing)
                                  /\ analyses'[d].status = analyses[d].status
      BY <1>4
    <3>3. again' = again /\ strays' = strays /\ cutShort' = cutShort /\ held' = held /\ gates' = gates
      OBVIOUS
    <3> QED BY ONLY <3>1, <3>2, <3>3 DEF SettledUnlessCut
  <2>3. RecordedIsDone'
    BY <1>4 DEF AnalysisInv, AnalysesHold, RecordedIsDone, Unrecorded
  <2> QED BY <2>1, <2>2, <2>3
<1>8. ReproducedAgree'
  <2> SUFFICES ASSUME NEW d \in CommandIds, analyses'[d] # Nothing, analyses'[d].reproduced
               PROVE  \E y \in CommandIds :
                        /\ outputs[y] # Nothing /\ analyses'[d].output = y
                        /\ analyses'[d].status = "succeeded" /\ analyses'[d].stdout = outputs[y].content
                        /\ outputs[y].argv \in {analyses'[d].argv, Nothing}
    BY DEF ReproducedAgree
  <2>1. CASE d = c
    BY <2>1, <1>2, <1>4 DEF Agrees
  <2>2. CASE d # c
    BY <2>2, <1>3 DEF AnalysisInv, AnalysesHold, ReproducedAgree
  <2> QED BY <2>1, <2>2
<1> QED BY <1>5, <1>6, <1>7, <1>8 DEF AnalysisInv, AnalysesHold

LEMMA ReproduceKeeps ==
  ASSUME AnalysisInv, NEW c \in CommandIds, NEW x \in CommandIds, NEW a \in CommandIds,
         ReproduceAnalysisRun(c, x, a)
  PROVE  AnalysisInv'
<1> DEFINE argv == analyses[a].argv
<1>0. /\ AnalysisTypeOK /\ UNCHANGED <<runMode, confirmed, outputs, notes, gone>>
      /\ outputs[x] # Nothing /\ outputs[x].argv \in {argv, Nothing}
  BY DEF AnalysisInv, ReproduceAnalysisRun
<1>1. argv \in Argvs
  BY <1>0 DEF ReproduceAnalysisRun, AnalysisTypeOK, Analyses
<1>2. ASSUME NEW row \in Results(argv, x), NEW last \in RunStages, NEW compared \in BOOLEAN,
             Perform(c, [row EXCEPT !.reproduced = compared /\ Agrees(c, row, x)], Oldest(argv), last)
      PROVE  AnalysisInv'
  <2> DEFINE marked == [row EXCEPT !.reproduced = compared /\ Agrees(c, row, x)]
  <2>1. row.argv = argv /\ marked.argv = argv
    BY DEF Results
  <2>2. MayRun(argv, Oldest(argv))
    BY <1>2, <2>1 DEF Perform
  <2>3. row \in Analyses /\ row.mode = runMode /\ row.output = x
    <3> HIDE DEF argv
    <3> QED BY <1>0, <1>1, <2>2, ResultsType
  <2>4. /\ marked \in Analyses /\ marked.mode = row.mode /\ marked.output = row.output
        /\ marked.status = row.status /\ marked.stdout = row.stdout
        /\ marked.reproduced => Agrees(c, row, x)
    <3>1. Agrees(c, row, x) \in BOOLEAN
      BY DEF Agrees
    <3> QED BY <2>3, <3>1 DEF Analyses
  <2>5. marked.reproduced =>
           \E y \in CommandIds :
             /\ outputs[y] # Nothing /\ marked.output = y
             /\ marked.status = "succeeded" /\ marked.stdout = outputs[y].content
             /\ outputs[y].argv \in {marked.argv, Nothing}
    BY <1>0, <2>1, <2>3, <2>4 DEF Agrees
  <2>6. Perform(c, marked, Oldest(argv), last)
    BY <1>2
  <2>7. marked.mode = runMode
    BY <2>3, <2>4
  <2> HIDE DEF marked, argv
  <2> QED BY <1>0, <2>4, <2>5, <2>6, <2>7, PerformKeeps
<1>3. ASSUME PerformAgain(c, argv, Oldest(argv)) \/ Refuse(c) PROVE AnalysisInv'
  BY <1>0, <1>3, PerformAgainKeeps
<1>4. ASSUME RanBefore(c, argv, x), Agrees(c, analyses[c], x),
             analyses' = [analyses EXCEPT ![c].reproduced = TRUE],
             UNCHANGED <<analysisOps, gates, held, executed, again, cutShort, strays>>
      PROVE  AnalysisInv'
  <2>1. UNCHANGED <<runMode, confirmed, outputs, notes, gone, analysisOps, gates, held, executed, again,
                    cutShort, strays>>
    BY <1>0, <1>4
  <2> HIDE DEF argv
  <2> QED BY <1>0, <1>1, <1>4, <2>1, MarkKeeps
<1> QED BY <1>2, <1>3, <1>4 DEF ReproduceAnalysisRun

LEMMA AnalysisStepKeeps == ASSUME AnalysisInv, AnalysisNext PROVE AnalysisInv'
<1>1. ASSUME NEW c \in CommandIds, NEW m \in Modes, NEW whole \in BOOLEAN, ConfigureExecution(c, m, whole)
      PROVE  AnalysisInv'
  BY <1>1, ConfigureKeeps
<1>2. ASSUME NEW c \in CommandIds, NEW argv \in Argvs, NEW whole \in BOOLEAN, ConfirmCommand(c, argv, whole)
      PROVE  AnalysisInv'
  BY <1>2, ConfirmKeeps
<1>3. ASSUME NEW c \in CommandIds, NEW argv \in Argvs, NEW output \in CommandIds \cup {Nothing},
             NEW i \in Nat, RunAuthorizedAnalysis(c, argv, output, i)
      PROVE  AnalysisInv'
  BY <1>3, RunKeeps
<1>4. ASSUME NEW c \in CommandIds, NEW output \in Outputs, NEW last \in RunStages, ImportOutput(c, output, last)
      PROVE  AnalysisInv'
  BY <1>4, ImportKeeps
<1>5. ASSUME NEW c \in CommandIds, NEW x \in CommandIds, NEW a \in CommandIds, ReproduceAnalysisRun(c, x, a)
      PROVE  AnalysisInv'
  BY <1>5, ReproduceKeeps
<1>6. ASSUME NEW c \in CommandIds, NEW kind \in NoteKinds, NEW whole \in BOOLEAN, AddNote(kind, c, whole)
      PROVE  AnalysisInv'
  BY <1>6, AddNoteKeeps
<1>7. ASSUME NEW c \in CommandIds, NEW of \in {"run", "output"}, DeleteContent(<<of, c>>)
      PROVE  AnalysisInv'
  BY <1>7, DeletionKeeps
<1> QED BY <1>1, <1>2, <1>3, <1>4, <1>5, <1>6, <1>7 DEF AnalysisNext

LEMMA AnalysisStutters == ASSUME AnalysisInv, UNCHANGED analysisVars PROVE AnalysisInv'
<1>1. UNCHANGED <<runMode, confirmed, analyses, outputs, notes, analysisOps, gates, held, gone,
                  executed, again, cutShort, strays>>
  BY DEF analysisVars
<1>2. AnalysisTypeOK' /\ RunIsRecorded' /\ RunIsOfItsTerms'
  BY <1>1 DEF AnalysisInv, AnalysisTypeOK, RunIsRecorded, RunIsOfItsTerms, Unrecorded
<1>3. RunsConfirmed' /\ ReproducedAgree' /\ SettledUnlessCut' /\ StatusIsTrue' /\ RecordedIsDone'
  BY <1>1 DEF AnalysisInv, AnalysesHold, RunsConfirmed, ReproducedAgree, SettledUnlessCut,
              StatusIsTrue, RecordedIsDone, Unrecorded
<1> QED BY <1>2, <1>3 DEF AnalysisInv, AnalysesHold

\* The invariant holds throughout.
LEMMA AnalysisInvariant == AnalysisSpec => []AnalysisInv
<1>1. AnalysisInit => AnalysisInv
  BY AnalysisInitially
<1>2. AnalysisInv /\ [AnalysisNext]_analysisVars => AnalysisInv'
  BY AnalysisStepKeeps, AnalysisStutters
<1> QED BY <1>1, <1>2, PTL DEF AnalysisSpec

\* Confirmations, runs, outputs, notes and operations keep their types.
THEOREM AnalysisTypes == AnalysisSpec => []AnalysisTypeOK
<1>1. AnalysisInv => AnalysisTypeOK
  BY DEF AnalysisInv
<1> QED BY <1>1, AnalysisInvariant, PTL

\* Runs were confirmed in the mode they ran in, a reproduction agrees with what it
\* reproduces, a command runs once and settles unless a crash or a failing statement
\* cut it short, what a lifecycle operation says of a run is true even then, and what is
\* recorded was done (src/analysis), however often a command is sent again, wherever
\* the process dies or a statement throws, and whatever is deleted.
THEOREM AnalysesAreKept == AnalysisSpec => []AnalysesHold
<1>1. AnalysisInv => AnalysesHold
  BY DEF AnalysisInv
<1> QED BY <1>1, AnalysisInvariant, PTL
==============================================================================
