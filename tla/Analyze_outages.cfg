SPECIFICATION FairAnalyzeSpec
CONSTANT MaxOutages = 2
CHECK_DEADLOCK FALSE
INVARIANT AnalyzeTypeOK
INVARIANT CompletedSetIsWhole
INVARIANT OutputsBuiltOnce
INVARIANT AnalyzeEndsOnce
PROPERTY ImplementsAnalysisContract
PROPERTY StartedAnalyzeReportsAnEnd
