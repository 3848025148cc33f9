SPECIFICATION Spec
CONSTANTS
    Kind = "UncheckedCall"
    Snippets = {s1, s2, s3, s4, s5}
    MaxNum = 3
    MaxSites = 2
    MaxFiles = 2
    MaxLaterFiles = 1
    MaxRuns = 2
INVARIANTS Conservation OneLabelPerFlow CountersMatchDisk TornBound SecureOutranks QuotaOvershoot
PROPERTIES SamplesKept StoreSpec SecureStarves ManagerView
SYMMETRY Symmetry
CHECK_DEADLOCK FALSE
