SPECIFICATION GraphSpec
CONSTANTS
    Refs <- MCRefs
    Targets = {"main"}
    CallsOf <- MCCallsOf
    Similar <- MCSimilar
    Requests = {q1}
    MaxBuilds = 1
    NoRef = "none"
\* No graph is built after MaxBuilds failures.
CHECK_DEADLOCK FALSE
INVARIANT OnlyRootAtZero
