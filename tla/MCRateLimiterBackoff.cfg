\* The shortest case: another call is answered between the copy and its test.
SPECIFICATION Spec
CONSTANTS
    Callers = {c1, c2}
    Rps = 1
    Burst = 2
    Delays = {2}
    Remainings = {0}
    Window = 0
PROPERTIES
    AnyBackoffHonoured
