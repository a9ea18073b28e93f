\* One kind is enough: a cycle with a failed list call, then one without.
SPECIFICATION Spec
CONSTANTS
    Kinds = {"merge_requests"}
    p1 = p1
    p2 = p2
    Projects = {p1, p2}
    Lists <- TrackedLists
    DoraMetrics <- AskedMetrics
    Stages <- StageNames
    Scrapers = {}
    MaxVersion = 0
    MaxCycle = 2
PROPERTIES
    ErrorsTotalNeverDecreases
CHECK_DEADLOCK FALSE
