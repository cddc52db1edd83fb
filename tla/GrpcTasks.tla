----------------------------- MODULE GrpcTasks -----------------------------
(***************************************************************************)
(* APIs-strategies/grpc: clients that run the script and guests that call  *)
(* what they like, against one server.  Each has one call under way.       *)
(***************************************************************************)
EXTENDS Naturals, Sequences

CONSTANTS
    Undefined,
    Clients,    \* processes that run client.ts
    Guests,     \* others that call the server
    GuestCalls, \* what they may call
    MaxCalls    \* bound of this instance on the calls of a guest

VARIABLES
    store,    \* the server's tasks and nextId
    pc,       \* number of the next call, for clients and guests alike
    outcome,  \* how the script goes: "running", "done", "rejected", "unreachable"
    call,     \* what each is waiting for: "none", "request" or "reply" under way,
              \* the method, the bytes, and, as history, the message they encode
    status    \* of the reply under way

vars == <<store, pc, outcome, call, status>>

Server == INSTANCE GrpcServer
Client == INSTANCE GrpcClient

Callers == Clients \cup Guests

Idle == [leg |-> "none"]

Init ==
    /\ store = Server!Empty
    /\ pc = [c \in Callers |-> 1]
    /\ outcome = [c \in Callers |-> "running"]
    /\ call = [c \in Callers |-> Idle]
    /\ status = [c \in Callers |-> "OK"]

Send(c, method, request) ==
    /\ call[c] = Idle
    /\ call' = [call EXCEPT ![c] =
                  [leg |-> "request", method |-> method, message |-> request,
                   bytes |-> Client!Encode(Client!TaskServiceService[method].request,
                                           request)]]
    /\ UNCHANGED <<store, pc, outcome, status>>

\* The script awaits each call before it makes the next.
Promisify(c) ==
    /\ outcome[c] = "running"
    /\ pc[c] <= Len(Client!Script)
    /\ Send(c, Client!Script[pc[c]].method, Client!Script[pc[c]].request)

GuestSend(g) ==
    /\ pc[g] <= MaxCalls
    /\ \E called \in GuestCalls : Send(g, called.method, called.request)

\* The server decodes, runs the handler and encodes what it calls back with.
Serve(c) ==
    /\ call[c].leg = "request"
    /\ LET method == call[c].method
           types == Server!TaskServiceService[method]
           reply == Server!Handle(store, method, Server!Decode(types.request, call[c].bytes))
       IN  /\ store' = reply.store
           /\ status' = [status EXCEPT ![c] = reply.status]
           /\ call' = [call EXCEPT ![c] =
                         [leg |-> "reply", method |-> method, message |-> reply.message,
                          bytes |-> IF reply.status = "OK"
                                    THEN Server!Encode(types.response, reply.message)
                                    ELSE <<>>]]
    /\ UNCHANGED <<pc, outcome>>

\* What a caller makes of a reply; main().catch ends a script that was rejected.
Receive(c) ==
    /\ call[c].leg = "reply"
    /\ call' = [call EXCEPT ![c] = Idle]
    /\ pc' = [pc EXCEPT ![c] = @ + 1]
    /\ outcome' = IF c \in Guests THEN outcome
                  ELSE IF status[c] # "OK" THEN [outcome EXCEPT ![c] = "rejected"]
                  ELSE IF pc[c] = Len(Client!Script) THEN [outcome EXCEPT ![c] = "done"]
                  ELSE outcome
    /\ UNCHANGED <<store, status>>

\* The connection breaks, on the way there or back; nothing is retried.
Unavailable(c) ==
    /\ c \in Clients
    /\ call[c] # Idle
    /\ call' = [call EXCEPT ![c] = Idle]
    /\ outcome' = [outcome EXCEPT ![c] = "unreachable"]
    /\ UNCHANGED <<store, pc, status>>

Next ==
    \/ \E c \in Clients : Promisify(c) \/ Unavailable(c)
    \/ \E g \in Guests : GuestSend(g)
    \/ \E c \in Callers : Serve(c) \/ Receive(c)

Spec == Init /\ [][Next]_vars

-----------------------------------------------------------------------------

\* What is decoded is what was encoded, both ways, for every message that the
\* program sends: defaults and absent fields too, which are not on the wire,
\* and "done: false" in a patch is not the same as no "done".
SameAfterTheWire ==
    \A c \in Callers :
        /\ call[c].leg = "request" =>
             Server!Decode(Server!TaskServiceService[call[c].method].request, call[c].bytes)
                 = call[c].message
        /\ call[c].leg = "reply" /\ status[c] = "OK" =>
             Client!Decode(Client!TaskServiceService[call[c].method].response, call[c].bytes)
                 = call[c].message

\* A script works on tasks 1 and 2, whoever created them: it is rejected only
\* when one of them was deleted by somebody else, and it leaves no task 2.
RejectedForDeleted ==
    LET deleted == (1..(store.nextId - 1)) \ Server!Ids(store)
    IN  \A c \in Clients :
          /\ outcome[c] = "rejected" => {1, 2} \cap deleted # {}
          /\ outcome[c] = "done" => 2 \in deleted

Held ==
    [i \in Server!Ids(store) |->
        LET task == store.tasks[Server!Find(store, i)]
        IN  [title |-> task.title, done |-> task.done, assignee |-> task.assignee]]

Store == INSTANCE TaskStore
    WITH Content <- [title : {"Estudar", "Revisar", "Feito"}, done : BOOLEAN,
                     assignee : {Undefined, Client!Alex, Client!Maria}],
         held <- Held, created <- store.nextId - 1

\* The server is a task store, whatever order the calls arrive in and whatever
\* becomes of their answers.
CallsServeAStore == Store!Spec

=============================================================================
