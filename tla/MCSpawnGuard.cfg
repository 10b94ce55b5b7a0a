SPECIFICATION Spec
CONSTANTS
    Workers = {w1, w2}
    Clients = {c1, c2}
    MaxSups = 2
    MaxLive = 1
    Crashes = TRUE
    None = None
CONSTRAINT Followed
SYMMETRY Symmetry
INVARIANTS FindableUndisturbed OnceUndisturbed
