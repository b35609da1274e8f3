CONSTANTS
    Worker = {w1, w2}
    Task = {r1, r2, latch}
    Latch = latch
SPECIFICATION DBFairSpec
INVARIANTS NobodySleepsOnWork ConnectionsSuffice StopExecutes
PROPERTIES StopReturns RequestsExecuted
\* The pool's life ends.
CHECK_DEADLOCK FALSE
