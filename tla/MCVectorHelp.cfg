\* One pipeline and two cycles.
SPECIFICATION Spec
CONSTANTS
    Kinds = {"pipelines"}
    p1 = p1
    main = main
    Places <- OneProject
    Statuses = {"running", "success"}
    JobNames <- NoJobs
    PerPage = 2
    Scrapers = {}
    MaxItems = 1
    MaxCycles = 2
INVARIANTS
    AHelpTextHolds
CHECK_DEADLOCK FALSE
