SPECIFICATION Spec
CONSTANTS
    Level = {"recall", "rerank"}
    TTL <- MCTTL
    SemanticTTL = 1
    MaxPoints = 0
    Run = {r1, r2}
    d1 = d1
    d2 = d2
    d3 = d3
    Doc = {d1, d2, d3}
    Filters = {"category"}
    Relaxing <- MCRelaxing
    Match <- MCMatch
    Pictured = {d3}
    Enough = 1
    TopK <- MCTopK
    Best <- MCBest
    MaxRun = 1
    MaxEvents = 1
SYMMETRY MCSymmetry
INVARIANTS FiltersKept
PROPERTIES RetrievalSettles
