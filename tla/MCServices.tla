----------------------------- MODULE MCServices -----------------------------
(***************************************************************************)
(* The small servers for the model checker.  They share nothing, so it is  *)
(* enough to explore the behaviours of each of them by itself.             *)
(***************************************************************************)
EXTENDS Library, Integers, Sequences

CONSTANTS
    Accounts, Currencies, Amounts, MaxDeposited,
    Valores, SaldoInicial, LimiteInicial, MaxSaldo,
    Texts, Blank, Null, Absent, MaxTasks,
    Users, Titles, MaxCards, MaxInbox,
    Undefined, NaN, Clients, Guests, MaxCalls

\* Requests name amounts of any sign.
ASSUME MoneyAssumption == Amounts \subseteq Int

VARIABLES accounts, deposited, lost
VARIABLES saldo, limiteCredito, resposta
VARIABLES style, tasks, nextId
VARIABLES cards, nextCard, clients, socket, inbox, view
VARIABLES store, pc, outcome, call, status

VARIABLE system  \* the one that runs

\* Requests name any amount.
SomeAmounts == -1..2

Money == INSTANCE Bank
Credit == INSTANCE Conta
Styles == INSTANCE TaskServers
Board == INSTANCE TaskBoard WITH tasks <- cards, nextId <- nextCard, MaxTasks <- MaxCards

Messages == INSTANCE GrpcClient

\* Calls at the edges: fields at their defaults, blank titles, tasks that are
\* not there.
SomeCalls ==
    {Messages!Call("patchTask", patch) :
        patch \in [id : {1}, title : {Undefined, "", " "}, done : {Undefined, FALSE},
                   assignee : {Undefined}]}
    \cup {Messages!Call("deleteTask", [id |-> 1]),
          Messages!Call("createTask", [title |-> "", assignee |-> Undefined]),
          Messages!Call("updateTask", [id |-> 0, title |-> "", done |-> FALSE,
                                       assignee |-> Undefined])}

\* undefined is no string, no boolean and no object, encoded or not.
ASSUME UndefinedAssumption ==
    /\ Undefined \notin {"", " "} /\ Undefined \notin BOOLEAN
    /\ \A a \in {Messages!Alex, Messages!Maria} :
          Undefined # a /\ Undefined # Messages!Put(Messages!Assignee, a)

\* The guests are the callers that do not run the script.
ASSUME CallersAssumption == Clients \cap Guests = {}

Grpc == INSTANCE GrpcTasks WITH GuestCalls <- SomeCalls
Json == INSTANCE GrpcJson

\* One value of each kind that a field may be given in JSON, and those that
\* convert to a default.
SomeValues ==
    <<Json!JsonNull, Json!Value("number", 0), Json!Value("number", 2),
      Json!Value("boolean", FALSE), Json!Value("boolean", TRUE),
      Json!Value("string", ""), Json!Value("string", "text"), Json!Value("object", <<>>)>>

libraryVars == <<books, members, loans, issued>>
moneyVars   == <<accounts, deposited, lost>>
creditVars  == <<saldo, limiteCredito, resposta>>
stylesVars  == <<style, tasks, nextId>>
boardVars   == <<cards, nextCard, clients, socket, inbox, view>>
grpcVars    == <<store, pc, outcome, call, status>>

allVars == <<libraryVars, moneyVars, creditVars, stylesVars, boardVars, grpcVars, system>>

ServicesInit ==
    /\ system \in {"library", "money", "credit", "styles", "board", "grpc"}
    /\ Init /\ Money!Init /\ Credit!Init /\ Styles!Init /\ Board!Init /\ Grpc!Init
    /\ system # "styles" => style = "rest"

ServicesNext ==
    \/ /\ system = "library" /\ Next
       /\ UNCHANGED <<moneyVars, creditVars, stylesVars, boardVars, grpcVars, system>>
    \/ /\ system = "money" /\ Money!Next
       /\ UNCHANGED <<libraryVars, creditVars, stylesVars, boardVars, grpcVars, system>>
    \/ /\ system = "credit" /\ Credit!Next
       /\ UNCHANGED <<libraryVars, moneyVars, stylesVars, boardVars, grpcVars, system>>
    \/ /\ system = "styles" /\ Styles!Next
       /\ UNCHANGED <<libraryVars, moneyVars, creditVars, boardVars, grpcVars, system>>
    \/ /\ system = "board" /\ Board!Next
       /\ UNCHANGED <<libraryVars, moneyVars, creditVars, stylesVars, grpcVars, system>>
    \/ /\ system = "grpc" /\ Grpc!Next
       /\ UNCHANGED <<libraryVars, moneyVars, creditVars, stylesVars, boardVars, system>>

ServicesSpec == ServicesInit /\ [][ServicesNext]_allVars

-----------------------------------------------------------------------------
(* Properties, restated for the run.                                       *)

\* No request makes or loses money (Bank).
MoneyAddsUp == Money!MoneyAddsUp

\* Users see the server's list once their messages have come (TaskBoard).
BoardsAgree == Board!BoardsAgree

\* Every server of tasks, whatever its style, implements one task store, the
\* abstract specification: an id is never used again, only a task that is there
\* is changed, and no change leaves one blank (TaskServers, TaskBoard, GrpcTasks).
EveryServerIsAStore ==
    Styles!ServesAStore /\ Board!BoardIsAStore /\ Grpc!CallsServeAStore

\* A message on its way lasts through JSON too, through a partial object, and
\* through either with null for what is left out; "done: false" in a patch is not
\* taken for none.  A field that comes as a value of another kind is read as one
\* that JSON then keeps (generated/tasks.ts).
SameAfterJson ==
    \A c \in Clients \cup Guests :
        LET client == Messages!TaskServiceService[call[c].method]
            server == Grpc!Server!TaskServiceService[call[c].method]
        IN  /\ call[c].leg = "request" =>
                 /\ Json!Keeps(client.request, server.request, call[c].message)
                 /\ Json!Settles(client.request, server.request, call[c].message, SomeValues)
            /\ call[c].leg = "reply" /\ status[c] = "OK" =>
                 /\ Json!Keeps(server.response, client.response, call[c].message)
                 /\ Json!Settles(server.response, client.response, call[c].message, SomeValues)

\* The generated conversions keep every message that is on its way: what is
\* decoded is what was encoded (GrpcTasks), and JSON keeps it too.
ConversionsKeepMessages == Grpc!SameAfterTheWire /\ SameAfterJson

\* A script is rejected only for a task that was deleted (GrpcTasks).
RejectedForDeleted == Grpc!RejectedForDeleted

=============================================================================
