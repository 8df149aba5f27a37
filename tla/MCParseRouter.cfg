SPECIFICATION Spec
CONSTANTS
    Server = {s1, s2}
    Local = {s1}
    Request = {r1, r2}
    NoServer = NoServer
    NoRequest = NoRequest
    ErrorThreshold = 2
    HealthThreshold = 1
    MaxFaults = 1
SYMMETRY MCSymmetry
INVARIANTS
    AssignmentsBalanced
    DuplicateExplained
    RecordTruthful
PROPERTIES TerminalStays
