----------------------------- MODULE TaskBoard -----------------------------
(***************************************************************************)
(* APIs-strategies/websocket: the list of tasks is pushed to everyone.  A  *)
(* connection starts with a snapshot; each change is handled in one turn   *)
(* of the event loop and sent to every open connection, and a connection   *)
(* keeps the order.  What a client makes of the messages is not in the     *)
(* repository: it applies them one by one.                                 *)
(***************************************************************************)
EXTENDS Naturals, Sequences, SequencesExt

CONSTANTS
    Users,
    Titles,    \* titles, trimmed and not blank; a blank one is refused
    MaxTasks,  \* bound of this instance on the tasks ever created
    MaxInbox   \* bound of this instance on the messages on their way to a user

VARIABLES
    tasks, nextId,  \* the server's list
    clients,        \* the server's set of sockets
    socket,         \* state of each user's socket: "none", "open", "closed", or "ended"
                    \* with the server
    inbox,          \* messages on their way to each user
    view            \* the list that each user sees

vars == <<tasks, nextId, clients, socket, inbox, view>>

Ids == {tasks[k].id : k \in DOMAIN tasks}

Init ==
    /\ tasks = <<>> /\ nextId = 1
    /\ clients = {}
    /\ socket = [u \in Users |-> "none"]
    /\ inbox = [u \in Users |-> <<>>]
    /\ view = [u \in Users |-> <<>>]

Snapshot(list) == [type |-> "snapshot", tasks |-> list]

-----------------------------------------------------------------------------
(* Connections *)

Connect(u) ==
    /\ socket[u] = "none"
    /\ socket' = [socket EXCEPT ![u] = "open"]
    /\ clients' = clients \cup {u}
    /\ inbox' = [inbox EXCEPT ![u] = <<Snapshot(tasks)>>]
    /\ view' = [view EXCEPT ![u] = <<>>]
    /\ UNCHANGED <<tasks, nextId>>

\* The socket is no longer open; its close event comes later.
HangUp(u) ==
    /\ socket[u] = "open"
    /\ socket' = [socket EXCEPT ![u] = "closed"]
    /\ inbox' = [inbox EXCEPT ![u] = <<>>]
    /\ UNCHANGED <<tasks, nextId, clients, view>>

Close(u) ==
    /\ socket[u] = "closed"
    /\ clients' = clients \ {u}
    /\ socket' = [socket EXCEPT ![u] = "none"]
    /\ UNCHANGED <<tasks, nextId, inbox, view>>

-----------------------------------------------------------------------------
(* Messages of the users *)

\* Slip: the sender is left out.
BroadcastToOthers(u, message) ==
    inbox' = [v \in Users |-> IF v \in clients \ {u} /\ socket[v] = "open"
                              THEN Append(inbox[v], message) ELSE inbox[v]]

Broadcast(u, message) ==
    inbox' = [v \in Users |-> IF v \in clients /\ socket[v] = "open"
                              THEN Append(inbox[v], message) ELSE inbox[v]]

Room == \A u \in Users : Len(inbox[u]) < MaxInbox

Create(u, title) ==
    /\ socket[u] = "open" /\ Room
    /\ nextId <= MaxTasks
    /\ LET task == [id |-> nextId, title |-> title, done |-> FALSE]
       IN  /\ tasks' = Append(tasks, task)
           /\ Broadcast(u, [type |-> "task_created", task |-> task])
    /\ nextId' = nextId + 1
    /\ UNCHANGED <<clients, socket, view>>

\* update and patch: a field that a patch leaves out is one it gives its present
\* value, and either way the whole task is sent.
Update(u, k, title, done) ==
    /\ socket[u] = "open" /\ Room
    /\ k \in DOMAIN tasks
    /\ LET task == [id |-> tasks[k].id, title |-> title, done |-> done]
       IN  /\ tasks' = [tasks EXCEPT ![k] = task]
           /\ Broadcast(u, [type |-> "task_updated", task |-> task])
    /\ UNCHANGED <<nextId, clients, socket, view>>

Delete(u, k) ==
    /\ socket[u] = "open" /\ Room
    /\ k \in DOMAIN tasks
    /\ tasks' = RemoveAt(tasks, k)
    /\ Broadcast(u, [type |-> "task_deleted", id |-> tasks[k].id])
    /\ UNCHANGED <<nextId, clients, socket, view>>

\* A message that makes the listener throw: null, or a task whose title is no
\* string.  Nobody catches it and nothing is changed yet; the process
\* ends with every connection and is not started again.  What was sent may come.
Throw(u) ==
    /\ socket[u] = "open"
    /\ socket' = [v \in Users |-> "ended"]
    /\ clients' = {}
    /\ UNCHANGED <<tasks, nextId, inbox, view>>

List(u) ==
    /\ socket[u] = "open" /\ Room
    /\ inbox' = [inbox EXCEPT ![u] = Append(@, Snapshot(tasks))]
    /\ UNCHANGED <<tasks, nextId, clients, socket, view>>

-----------------------------------------------------------------------------
(* A user's side *)

Place(list, id) == CHOOSE k \in DOMAIN list : list[k].id = id

Apply(list, message) ==
    CASE message.type = "snapshot" -> message.tasks
      [] message.type = "task_created" -> Append(list, message.task)
      [] message.type = "task_updated" ->
           [k \in DOMAIN list |-> IF list[k].id = message.task.id THEN message.task ELSE list[k]]
      [] message.type = "task_deleted" ->
           IF \E k \in DOMAIN list : list[k].id = message.id
           THEN RemoveAt(list, Place(list, message.id)) ELSE list

Receive(u) ==
    /\ inbox[u] # <<>>
    /\ view' = [view EXCEPT ![u] = Apply(@, Head(inbox[u]))]
    /\ inbox' = [inbox EXCEPT ![u] = Tail(@)]
    /\ UNCHANGED <<tasks, nextId, clients, socket>>

-----------------------------------------------------------------------------

Next ==
    \E u \in Users :
        \/ Connect(u) \/ HangUp(u) \/ Close(u) \/ List(u) \/ Receive(u) \/ Throw(u)
        \/ \E title \in Titles : Create(u, title)
        \/ \E k \in 1..MaxTasks :
             \/ Delete(u, k)
             \/ \E title \in Titles, done \in BOOLEAN :
                  Update(u, k, title, done)

Spec == Init /\ [][Next]_vars

-----------------------------------------------------------------------------

\* Whoever is connected sees the server's list once the messages on their way
\* have come, for as long as the server lives: a change made between a snapshot
\* and its arrival, by whomever, is neither missed nor applied twice.
BoardsAgree ==
    \A u \in Users : socket[u] = "open" => FoldLeft(Apply, view[u], inbox[u]) = tasks

\* The board is a task store too.
Held ==
    [i \in Ids |-> LET task == tasks[Place(tasks, i)]
                   IN  [title |-> task.title, done |-> task.done]]

Store == INSTANCE TaskStore
    WITH Content <- [title : Titles, done : BOOLEAN], held <- Held, created <- nextId - 1

BoardIsAStore == Store!Spec

=============================================================================
