---------------------------- MODULE ReviewQueues ----------------------------
(***************************************************************************)
(* The review queues of an ANALYZE_ONLY run (app/reports/review_queue.py): *)
(* which decisions a person has to look at, with which reasons and how     *)
(* urgently. They are built from the decisions and the evidence bundles of *)
(* ObjectEvidence, one item for each queue a decision belongs to.          *)
(*                                                                         *)
(* An item has the place of its decision in the report; the tie-break of   *)
(* two items of one priority, by object id, is left out. Scores are in     *)
(* percent.                                                                *)
(***************************************************************************)
EXTENDS ObjectEvidence

\* The queues of a decision and the reason codes it is queued with. A decision
\* can be in the label queue twice, once for each of its reasons.
Memberships(decision) ==
    LET has == decision.reasons
        Member(queue, belongs, codes) == IF belongs THEN {[queue |-> queue, codes |-> codes]} ELSE {}
        \* The codes of the decision among these, and the one of the queue.
        Listed(queue, reviewed, action, code) ==
            Member(queue, decision.action = action \/ has \cap reviewed # {}, (has \cap reviewed) \cup {code})
    IN  UNION {
          Member("LABEL_REVIEW", "ambiguous_object" \in has,
                 {"high_model_uncertainty", "low_prediction_margin", "ambiguous_object"}),
          Member("LABEL_REVIEW", "probable_label_error" \in has,
                 {"probable_label_error", "high_confidence_label_conflict"}
                    \cup (has \cap {"neighbor_label_disagreement"})),
          Listed("PRIVACY_REVIEW", {"text_pii_detected", "pii_unmasked"},
                 "SEND_TO_PRIVACY_REVIEW", "privacy_review_required"),
          Listed("DUPLICATE_REVIEW", {"exact_duplicate", "duplicate_candidate"},
                 "REMOVE_DUPLICATE", "duplicate_review_required"),
          Listed("ANNOTATION_REVIEW", {"missing_numeric", "target_column_missing", "business_rule_failure"},
                 Missing, "schema_review_required")}

OrNone(score) == IF score = Missing THEN 0 ELSE score

\* value or 1.0: a score of zero counts as none.
OrFull(score) == IF score \in {Missing, 0} THEN 100 ELSE score

Priority(queue, codes, bundle) ==
    LET doubt == {OrNone(bundle.ambiguous), OrNone(bundle.uncertainty), 100 - OrFull(bundle.margin)}
        conflict == {OrNone(bundle.labelError), OrNone(bundle.confidence)}
    IN  CASE queue = "PRIVACY_REVIEW" -> OrNone(bundle.privacy)
          [] queue = "DUPLICATE_REVIEW" -> OrNone(bundle.duplicate)
          [] queue = "ANNOTATION_REVIEW" -> 100 - OrFull(bundle.quality)
          [] OTHER -> Max((IF "ambiguous_object" \in codes THEN doubt ELSE {})
                             \cup (IF "probable_label_error" \in codes THEN conflict ELSE {}))

\* The last bundle of an object; the run has one for every decision.
BundleOf(bundles, object) == bundles[Max({i \in DOMAIN bundles : bundles[i].id = object})]

ReviewItems(decisions, bundles, queue) ==
    UNION {{[place |-> i, object |-> decisions[i].id, codes |-> m.codes,
             priority |-> Priority(queue, m.codes, BundleOf(bundles, decisions[i].id))] :
                m \in {n \in Memberships(decisions[i]) : n.queue = queue}} : i \in DOMAIN decisions}

\* The queues that have items. Only labels are reviewed with an external tool.
QueuesOf(decisions, bundles) ==
    [queue \in {m.queue : m \in UNION {Memberships(d) : d \in ToSet(decisions)}} |->
        [items |-> ReviewItems(decisions, bundles, queue), external |-> queue = "LABEL_REVIEW"]]

=============================================================================
