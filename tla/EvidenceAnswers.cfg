SPECIFICATION Spec
CONSTANTS
    Missing = Missing
    NoEvidence = NoEvidence
    NoDraft = NoDraft
    Details = {"details1"}
    Selections <- Ticks
    Saved <- SavedEvidence
    MaxPages = 5
    MaxUpdates = 1
    MaxOthers = 1
    Straying = FALSE
INVARIANTS
    IInv
    FollowedIsComplete
PROPERTIES
    SavedAsShown
    ReopensAsShown
    OnlyAnsweredChanges
