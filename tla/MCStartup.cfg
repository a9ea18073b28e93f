\* Every combination of sources for one setting at a time, and every way to
\* discover five projects.
SPECIFICATION FairSpec
CONSTANTS
    Projects <- FiveProjects
    Sources <- AllSources
    GitLab <- UltimateAnswers
    PageSize = 2
INVARIANTS
    TypeOK
    ProjectsOnce
    WildcardsAreComplete
    EntriesAreTracked
    CommandLineWins
PROPERTIES
    StartupEnds
