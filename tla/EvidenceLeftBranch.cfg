SPECIFICATION Spec
CONSTANTS
    Missing = Missing
    NoEvidence = NoEvidence
    NoDraft = NoDraft
    Details = {"details1"}
    Selections <- Ticks
    Saved <- SavedEvidence
    MaxPages = 2
    MaxUpdates = 1
    MaxOthers = 0
    Straying = TRUE
PROPERTIES
    NothingSentOfNo
