SPECIFICATION CaseSpec
CONSTANTS
    Missing = Missing
    None = Missing
    Unavailable = Missing
    NoValue = Missing
    Word = Word
    NumberId = NumberId
    DuplicateIdLimit = 3
    OutlierIdLimit = 2
INVARIANT ReadyExactlyWhenSafe
INVARIANT BlockersOutrankScores
 
INVARIANT VerdictsNeedEvidence
INVARIANT SplitsKeepGroupsWhole
INVARIANT TabularStepsKeepTheirWord
INVARIANT IngestionAccountsForRecords
INVARIANT PassportsCarryFindings
