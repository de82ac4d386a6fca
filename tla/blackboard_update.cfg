CONSTANTS
    Callers = {c1, c2}
    Writes = {"update"}
    Timed = FALSE
    Cap = 3
SPECIFICATION Spec
PROPERTY NoLostUpdate
