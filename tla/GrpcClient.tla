----------------------------- MODULE GrpcClient -----------------------------
(***************************************************************************)
(* APIs-strategies/grpc/client: its copy of the generated messages, and    *)
(* the script, a list of calls each of which awaits its answer.            *)
(***************************************************************************)
EXTENDS GrpcWire, Sequences

-----------------------------------------------------------------------------
(* generated/tasks.ts: a definition below stands for the conversions that  *)
(* were generated for its message                                          *)

Assignee ==
    [id |-> Field(8, "number", 0), name |-> Field(18, "string", ""),
     email |-> Field(26, "string", "")]

Task ==
    [id |-> Field(8, "number", 0), title |-> Field(18, "string", ""),
     done |-> Field(24, "boolean", FALSE), assignee |-> Submessage(34, Assignee)]

ListTasksRequest == <<>>

ListTasksResponse == [tasks |-> Repeated(10, Task)]

GetTaskRequest == [id |-> Field(8, "number", 0)]

CreateTaskRequest == [title |-> Field(10, "string", ""), assignee |-> Submessage(18, Assignee)]

UpdateTaskRequest ==
    [id |-> Field(8, "number", 0), title |-> Field(18, "string", ""),
     done |-> Field(24, "boolean", FALSE), assignee |-> Submessage(34, Assignee)]

PatchTaskRequest ==
    [id |-> Field(8, "number", 0), title |-> Optional(18, "string"),
     done |-> Optional(24, "boolean"), assignee |-> Submessage(34, Assignee)]

DeleteTaskRequest == [id |-> Field(8, "number", 0)]

DeleteTaskResponse == [deleted |-> Field(8, "boolean", FALSE)]

\* The messages of each method.
TaskServiceService ==
    [listTasks  |-> [request |-> ListTasksRequest, response |-> ListTasksResponse],
     getTask    |-> [request |-> GetTaskRequest, response |-> Task],
     createTask |-> [request |-> CreateTaskRequest, response |-> Task],
     updateTask |-> [request |-> UpdateTaskRequest, response |-> Task],
     patchTask  |-> [request |-> PatchTaskRequest, response |-> Task],
     deleteTask |-> [request |-> DeleteTaskRequest, response |-> DeleteTaskResponse]]

-----------------------------------------------------------------------------
(* client.ts *)

Alex == [id |-> 1, name |-> "Alex", email |-> "alex@"]
Maria == [id |-> 2, name |-> "Maria", email |-> "maria@"]

Call(method, request) == [method |-> method, request |-> request]

Script ==
    <<Call("createTask", [title |-> "Estudar", assignee |-> Alex]),
      Call("createTask", [title |-> "Revisar", assignee |-> Undefined]),
      Call("listTasks", <<>>),
      Call("getTask", [id |-> 1]),
      Call("updateTask", [id |-> 1, title |-> "Feito", done |-> TRUE, assignee |-> Maria]),
      Call("patchTask", [id |-> 2, title |-> Undefined, done |-> TRUE,
                         assignee |-> Undefined]),
      Call("deleteTask", [id |-> 2]),
      Call("listTasks", <<>>)>>

=============================================================================
