SPECIFICATION Spec
CONSTANTS
    Doc = {d1, d2}
    Task = {t1, t2}
    f1 = f1
    f2 = f2
    File = {f1}
    StdOf <- MCStdOf
    Img = {i1}
    Txt = {c1}
    NoDoc = NoDoc
    NoFile = NoFile
    NoTask = NoTask
    MaxFaults = 1
    Clients = {"text", "delete", "cleanup"}
SYMMETRY MCSymmetry
INVARIANTS
    TypeOK
    RowsOwned
    FileHashUnique
    IndexLossExplained
    PurgedStaysPurged
    OrphansExplained
PROPERTIES
    ImplementsRegistry
