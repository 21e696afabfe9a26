SPECIFICATION FairRuntimeSpec
CONSTANTS
    None = None
    Plans <- PlansOfTheModel
    Findings <- FindingsOfTheModel
    MaxDisturbances = 2
CHECK_DEADLOCK FALSE
INVARIANT RuntimeTypeOK
INVARIANT ReadyFromExpectedBytes
INVARIANT WholePlanIsValidated
PROPERTY RunEnds
INVARIANT ReadyExportIsValidated
INVARIANT BlockedCandidateStaysInside
