SPECIFICATION PlanSpec
CONSTANTS
    Jobs = {j1, j2}
    PreviewRequests <- MCPreviewRequests
    SourceVersions = {"v1", "v2"}
    Artifacts <- MCArtifacts
    Predictions <- TwoModels
    ApprovalRequests = {a1}
    None = None
    MaxPreviews = 2
    MaxEdits = 1
    MaxApprovals = 2
    MaxRuns = 2
CHECK_DEADLOCK FALSE
INVARIANT SameKeySameArtifacts
