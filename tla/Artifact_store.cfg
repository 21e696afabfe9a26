SPECIFICATION StoreSpec
CONSTANTS
    Writers = {w1, w2, w3}
    Written <- WrittenLabels
    Labels <- LabelComponents
    Clean <- CleanLabel
    Bytes = {b1, b2}
    Stamps = {t1, t2}
    None = None
    MaxForeign = 1
SYMMETRY Interchangeable
CHECK_DEADLOCK FALSE
INVARIANT StoreTypeOK
INVARIANT AnswersAreStored
INVARIANT RepliesAgree
PROPERTY ImplementsWriteOnceStore
