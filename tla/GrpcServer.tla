----------------------------- MODULE GrpcServer -----------------------------
(***************************************************************************)
(* APIs-strategies/grpc/server: its copy of the generated messages, and    *)
(* the handlers, each a function of the store and of a decoded request.    *)
(***************************************************************************)
EXTENDS GrpcWire, Sequences, SequencesExt

-----------------------------------------------------------------------------
(* generated/tasks.ts: a definition below stands for the conversions that  *)
(* were generated for its message                                          *)

Assignee ==
    [id |-> Field(8, "number", 0), name |-> Field(18, "string", ""),
     email |-> Field(26, "string", "")]

Task ==
    [id |-> Field(8, "number", 0), title |-> Field(18, "string", ""),
     done |-> Field(24, "boolean", FALSE), assignee |-> Submessage(34, Assignee)]

ListTasksRequest == <<>>

ListTasksResponse == [tasks |-> Repeated(10, Task)]

GetTaskRequest == [id |-> Field(8, "number", 0)]

CreateTaskRequest == [title |-> Field(10, "string", ""), assignee |-> Submessage(18, Assignee)]

UpdateTaskRequest ==
    [id |-> Field(8, "number", 0), title |-> Field(18, "string", ""),
     done |-> Field(24, "boolean", FALSE), assignee |-> Submessage(34, Assignee)]

\* Slip: the presence of a field is not kept ("done: false" for none).
PatchPlain ==
    [id |-> Field(8, "number", 0), title |-> Field(18, "string", ""),
     done |-> Field(24, "boolean", FALSE), assignee |-> Submessage(34, Assignee)]

PatchTaskRequest ==
    [id |-> Field(8, "number", 0), title |-> Optional(18, "string"),
     done |-> Optional(24, "boolean"), assignee |-> Submessage(34, Assignee)]

DeleteTaskRequest == [id |-> Field(8, "number", 0)]

DeleteTaskResponse == [deleted |-> Field(8, "boolean", FALSE)]

\* The messages of each method.
TaskServiceService ==
    [listTasks  |-> [request |-> ListTasksRequest, response |-> ListTasksResponse],
     getTask    |-> [request |-> GetTaskRequest, response |-> Task],
     createTask |-> [request |-> CreateTaskRequest, response |-> Task],
     updateTask |-> [request |-> UpdateTaskRequest, response |-> Task],
     patchTask  |-> [request |-> PatchTaskRequest, response |-> Task],
     deleteTask |-> [request |-> DeleteTaskRequest, response |-> DeleteTaskResponse]]

-----------------------------------------------------------------------------
(* The store and the handlers *)

Empty == [tasks |-> <<>>, nextId |-> 1]

Ids(store) == {store.tasks[k].id : k \in DOMAIN store.tasks}

Find(store, id) == CHOOSE k \in DOMAIN store.tasks : store.tasks[k].id = id

\* What a callback is given: a message, or the status of an error.
Answer(store, message) == [store |-> store, status |-> "OK", message |-> message]

Refuse(store, status) == [store |-> store, status |-> status, message |-> <<>>]

IsBlank(title) == title \in {"", " "}

HandleListTasks(store, request) == Answer(store, [tasks |-> store.tasks])

HandleGetTask(store, request) ==
    IF request.id \notin Ids(store)
    THEN Refuse(store, "NOT_FOUND")
    ELSE Answer(store, store.tasks[Find(store, request.id)])

\* Slip: the id is the length of the list plus one.
HandleCreateByLength(store, request) ==
    IF IsBlank(request.title)
    THEN Refuse(store, "INVALID_ARGUMENT")
    ELSE LET task == [id |-> Len(store.tasks) + 1, title |-> request.title, done |-> FALSE,
                      assignee |-> request.assignee]
         IN  Answer([tasks |-> Append(store.tasks, task), nextId |-> store.nextId + 1], task)

HandleCreateTask(store, request) ==
    IF IsBlank(request.title)
    THEN Refuse(store, "INVALID_ARGUMENT")
    ELSE LET task == [id |-> store.nextId, title |-> request.title, done |-> FALSE,
                      assignee |-> request.assignee]
         IN  Answer([tasks |-> Append(store.tasks, task), nextId |-> store.nextId + 1], task)

Changed(store, task) ==
    Answer([store EXCEPT !.tasks[Find(store, task.id)] = task], task)

HandleUpdateTask(store, request) ==
    IF request.id \notin Ids(store) THEN Refuse(store, "NOT_FOUND")
    ELSE IF IsBlank(request.title) THEN Refuse(store, "INVALID_ARGUMENT")
    ELSE Changed(store, request)

\* An empty title is no title, and a blank one is refused.
HandlePatchTask(store, request) ==
    IF request.id \notin Ids(store) THEN Refuse(store, "NOT_FOUND")
    ELSE IF request.title = " " THEN Refuse(store, "INVALID_ARGUMENT")
    ELSE LET task == store.tasks[Find(store, request.id)]
             Given(f) == request[f] # Undefined /\ (f = "title" => request[f] # "")
         IN  Changed(store, [f \in DOMAIN task |-> IF Given(f) THEN request[f] ELSE task[f]])

HandleDeleteTask(store, request) ==
    IF request.id \notin Ids(store)
    THEN Refuse(store, "NOT_FOUND")
    ELSE Answer([store EXCEPT !.tasks = RemoveAt(@, Find(store, request.id))],
                [deleted |-> TRUE])

\* addService
Handle(store, method, request) ==
    CASE method = "listTasks"  -> HandleListTasks(store, request)
      [] method = "getTask"    -> HandleGetTask(store, request)
      [] method = "createTask" -> HandleCreateTask(store, request)
      [] method = "updateTask" -> HandleUpdateTask(store, request)
      [] method = "patchTask"  -> HandlePatchTask(store, request)
      [] method = "deleteTask" -> HandleDeleteTask(store, request)

=============================================================================
