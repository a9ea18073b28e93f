\* Two scrapers, so that scrapes can overlap without a pause; two items, so
\* that Run asks for the lock twice.
SPECIFICATION FairSpec
CONSTANTS
    Kinds = {"environments", "test_reports"}
    p1 = p1
    main = main
    Places <- OneProject
    Statuses = {"success"}
    JobNames <- NoJobs
    PerPage = 2
    Scrapers = {s1, s2}
    MaxItems = 2
    MaxCycles = 1
PROPERTIES
    CyclesEnd
CHECK_DEADLOCK FALSE
