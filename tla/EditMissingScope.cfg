SPECIFICATION Spec
CONSTANTS
    Missing = Missing
    NoDraft = NoDraft
    Clients = {"client1", "client2"}
    NiNumbers = {"ni1"}
    Reasons = {"reason1"}
    EvidenceScopes = {"childAbuse"}
    UkAddresses = {"uk1"}
    OsAddresses = {"os1"}
    UnlistedAddresses = {"elsewhere"}
    Saved <- SavedCases
    MaxPages = 1
    MaxUpdates = 1
PROPERTIES
    NoScopeMadeUp
