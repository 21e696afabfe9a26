SPECIFICATION RuntimeSpec
CONSTANTS
    None = None
    Plans <- PlansOfTheModel
    Findings <- FindingsOfTheModel
    MaxDisturbances = 2
CHECK_DEADLOCK FALSE
INVARIANT FailedRunsProposeNothing
