\* Each server by itself: two books, members and loans; two accounts in two
\* currencies; the credit account; the task servers; a board of two users;
\* two gRPC scripts and a guest.
SPECIFICATION ServicesSpec
CONSTANTS
    BookIds = {b1, b2}
    MemberIds = {m1, m2}
    LoanIds = {l1, l2}
    Isbns = {i1, i2}
    Emails = {e1, e2}
    Copies = {0, 1, 2}
    DEFAULT_LIMIT = 1
    Accounts = {"A", "B"}
    Currencies = {"USD", "BRL"}
    Amounts <- SomeAmounts
    MaxDeposited = 4
    Valores <- SomeAmounts
    SaldoInicial = 2
    LimiteInicial = 1
    MaxSaldo = 4
    Texts = {"text", "null"}
    Blank = Blank
    Null = Null
    Absent = Absent
    MaxTasks = 3
    Users = {u1, u2}
    Titles = {"x", "y"}
    MaxCards = 2
    MaxInbox = 2
    Undefined = Undefined
    NaN = NaN
    Clients = {c1, c2}
    Guests = {g}
    MaxCalls = 1
INVARIANTS
    CopiesAddUp
    MoneyAddsUp
    BoardsAgree
    ConversionsKeepMessages
    RejectedForDeleted
PROPERTIES
    EveryServerIsAStore
CHECK_DEADLOCK FALSE
