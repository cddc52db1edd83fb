\* One build, a connection that comes and goes.
SPECIFICATION Spec
CONSTANTS
    MaxBuilds = 1
    MaxLate = 1
CHECK_DEADLOCK FALSE
INVARIANT VisitsRender
