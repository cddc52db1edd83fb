\* One note of the API and one of the user, two calls at a time, a page opened
\* twice and a request refused; three builds; three searches.
SPECIFICATION Spec
CONSTANTS
    ApiNotes = {a1}
    OwnNotes = {n1}
    Texts = {x, y}
    Calls = {c1, c2}
    MaxOpens = 2
    MaxFailures = 1
    Idle = Idle
    None = None
    MaxBuilds = 3
    MaxLate = 1
    Queries = {p, q}
    Empty = Empty
    MaxRequests = 3
CHECK_DEADLOCK FALSE
INVARIANTS
    ShownIsStored
    CachesAreCurrent
    ShownAnswersQuery
PROPERTIES
    OwnNotesKept
