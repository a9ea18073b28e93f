\* Two cycles and any number of scrapes: a scrape before, between and during.
SPECIFICATION Spec
CONSTANTS
    Kinds = {"pipelines", "jobs", "environments", "test_reports"}
    p1 = p1
    main = main
    Places <- OneProject
    Statuses = {"success"}
    JobNames <- Jobs
    PerPage = 2
    Scrapers = {s1}
    MaxItems = 1
    MaxCycles = 2
INVARIANTS
    TypeOK
    ScrapesFitTogether
PROPERTIES
    AnswersOnlyGrow
    SeriesAreAtomic
    CyclesMoveOn
CHECK_DEADLOCK FALSE
