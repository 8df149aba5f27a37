SPECIFICATION FairSpec
CONSTANTS
    Doc = {d1}
    Task = {t1, t2}
    f1 = f1
    f2 = f2
    File = {f1}
    StdOf <- MCStdOf
    Img = {i1}
    Txt = {c1}
    NoDoc = NoDoc
    NoFile = NoFile
    NoTask = NoTask
    MaxFaults = 1
    Clients = {"script", "resubmit", "delete"}
PROPERTIES
    ScanSettles
    HandlerEnds
