\* One task is enough: the listener fails to bind after the 100 ms of Start.
SPECIFICATION FairSpec
CONSTANTS
    Tasks = {t1}
    Conns = {c1}
PROPERTIES
    FailedBindIsFatal
