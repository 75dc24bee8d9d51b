SPECIFICATION Spec
CONSTANTS
    h1 = h1
    h2 = h2
    m1 = m1
    Hls = {h1, h2}
    Masters = {h2}
    Media = {m1}
    Lists <- FeedLists
    Indices <- FeedIndices
    Options <- FeedOptions
    DefaultCount = 2
    MaxCount = 2
    MaxTicks = 2
    None = None
    MaxCalls = 3
INVARIANTS TypeOK QueueSorted MarkedIsWorkedOn
PROPERTIES YieldsWhenAsked DrainEnds
CHECK_DEADLOCK FALSE
