\* One file, and a GitLab that supports everything.
SPECIFICATION Spec
CONSTANTS
    Projects <- FiveProjects
    Sources <- PromiseSources
    GitLab <- UltimateAnswers
    PageSize = 2
INVARIANTS
    APromiseIsKept
