SPECIFICATION Spec
CONSTANTS
    Jobs = {j1, j2, j3}
    Handled = {j1, j2}
    Workers = {w1, w2}
    MaxAttempts = 2
    MaxFaults = 1
INVARIANTS
    SurviveRestarts
