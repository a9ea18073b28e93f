\* Two sources, neither with a token in a file.
SPECIFICATION Spec
CONSTANTS
    Projects <- FiveProjects
    Sources <- TokenOutsideFile
    GitLab <- UltimateAnswers
    PageSize = 2
INVARIANTS
    ATokenSuffices
