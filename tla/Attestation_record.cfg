CONSTANTS
    vnc = vnc
    headless = headless
    s1 = s1
    s2 = s2
    Variants = {vnc, headless}
    Sources = {s1, s2}
    Plan <- MCPlan
    MaxSends = 2
    Rounds = 2
    MaxRuns = 2
SPECIFICATION FairSpec
INVARIANT AttestedMeansTested
PROPERTIES
    RecordedFlatIfAnswered
    RunsEnd
