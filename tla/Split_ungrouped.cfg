INIT SplitInit
NEXT CaseNext
CONSTANTS
    Missing = Missing
    None = Missing
    Unavailable = Missing
    NoValue = Missing
    Word = Word
    NumberId = NumberId
    DuplicateIdLimit = 3
    OutlierIdLimit = 2
INVARIANT RowsFollowTheirGroup
