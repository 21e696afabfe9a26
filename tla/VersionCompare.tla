--------------------------- MODULE VersionCompare ---------------------------
(***************************************************************************)
(* The comparison of a candidate with its base version                     *)
(* (app/kernel/version_compare.py): what an action plan changed, told from *)
(* the profiles of both sides and the reports of the steps that were       *)
(* applied. Every report is optional, Missing when it was not given.       *)
(*                                                                         *)
(* The score, the model metrics and the validation gates are copied from   *)
(* their own reports and left out.                                         *)
(***************************************************************************)
EXTENDS TabularProfile

\* A field of a report, or what stands for it without one.
FieldOr(report, name, default) == IF report = Missing THEN default ELSE report[name]

\* Without a candidate profile nothing is said to have changed.
ObjectCounts(base, candidate) ==
    LET before == FieldOr(base, "rows", 0)
        after == FieldOr(candidate, "rows", before)
    IN  [before |-> before, after |-> after, delta |-> after - before]

\* Texts are compared only when both sides have a report.
RedactedDelta(texts) ==
    IF Missing \in {texts.base, texts.candidate} THEN 0
    ELSE Max({0, texts.candidate.redacted - texts.base.redacted})

\* Rows that are gone without a removal. Synthetic rows hide them.
RemovedOrBlocked(delta, added, removed) ==
    LET gone == Max({0, (IF added = 0 THEN -delta ELSE 0) - removed})
    IN  IF removed > 0 /\ delta < 0 THEN Max({gone, -delta - removed}) ELSE gone

\* applied: the reports of the steps.
ChangedObjects(applied, texts, counts) ==
    LET imputed == FieldOr(applied.imputation, "imputed", 0)
        duplicates == FieldOr(applied.duplicates, "changed", 0)
        mode == FieldOr(applied.duplicates, "mode", Missing)
        removed == IF mode = "REMOVE_DUPLICATES" THEN duplicates ELSE 0
        added == FieldOr(applied.synthetic, "generated", 0)
        blocked == RemovedOrBlocked(counts.delta, added, removed)
    IN  [imputed |-> imputed, removed |-> removed, added |-> added, blocked |-> blocked,
         marked |-> duplicates - removed, redacted |-> RedactedDelta(texts),
         total |-> imputed + duplicates + RedactedDelta(texts) + added + blocked]

\* A column is listed when it had gaps, filled or not.
ImputedFields(imputation) ==
    IF FieldOr(imputation, "imputed", 0) > 0 \/ FieldOr(imputation, "before", 0) > 0
    THEN {[before |-> imputation.before, after |-> imputation.after, imputed |-> imputation.imputed]} ELSE {}

Unredacted(text) == Max({0, FieldOr(text, "pii", 0) - FieldOr(text, "redacted", 0)})

PiiRiskChange(texts) ==
    IF {texts.base, texts.candidate} = {Missing} THEN Missing
    ELSE [delta |-> FieldOr(texts.candidate, "pii", 0) - FieldOr(texts.base, "pii", 0),
          before |-> Unredacted(texts.base), after |-> Unredacted(texts.candidate)]

DuplicatePairCount(profile) == IF profile = Missing THEN 0 ELSE profile.duplicates.pairs

DuplicateDiff(base, candidate) ==
    IF {base, candidate} = {Missing} THEN Missing
    ELSE [before |-> DuplicatePairCount(base), after |-> DuplicatePairCount(candidate),
          delta |-> DuplicatePairCount(candidate) - DuplicatePairCount(base)]

\* The classes of both sides; the rare one is that of the base if it has any.
ClassBalance(base, candidate) ==
    LET before == FieldOr(base, "imbalance", Missing)
        after == FieldOr(candidate, "imbalance", Missing)
        none == [l \in {} |-> 0]
        Count(side, l) == IF l \in DOMAIN FieldOr(side, "counts", none) THEN side.counts[l] ELSE 0
    IN  IF {before, after} = {Missing} THEN Missing
        ELSE [rare |-> FieldOr(before, "rare", FieldOr(after, "rare", Missing)),
              shareDelta |-> IF Missing \in {before, after} THEN Missing ELSE after.share - before.share,
              classes |-> [l \in DOMAIN FieldOr(before, "counts", none) \cup DOMAIN FieldOr(after, "counts", none) |->
                             [before |-> Count(before, l), after |-> Count(after, l)]]]

VersionCompareReport(base, candidate, applied, texts) ==
    LET counts == ObjectCounts(base, candidate)
    IN  [counts |-> counts, changed |-> ChangedObjects(applied, texts, counts),
         fields |-> ImputedFields(applied.imputation), pii |-> PiiRiskChange(texts),
         duplicates |-> DuplicateDiff(base, candidate), classes |-> ClassBalance(base, candidate)]

=============================================================================
