SPECIFICATION Spec
CONSTANTS
    Kinds = {"merge_requests", "dora", "value_stream", "code_review", "repository", "contributors"}
    p1 = p1
    p2 = p2
    Projects = {p1, p2}
    Lists <- TrackedLists
    DoraMetrics <- AskedMetrics
    Stages <- StageNames
    Scrapers = {s1}
    MaxVersion = 1
    MaxCycle = 2
INVARIANTS
    TypeOK
    PublishedCyclesAreComplete
    PublishedValuesAreFresh
PROPERTIES
    ScrapeIsOneSnapshot
    AnswersNeverOlder
CHECK_DEADLOCK FALSE
