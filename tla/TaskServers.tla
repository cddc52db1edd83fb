---------------------------- MODULE TaskServers ----------------------------
(***************************************************************************)
(* The servers of one problem, tasks with a title: REST, JSON-RPC and      *)
(* GraphQL in APIs-strategies, and the MVC and MVVM demos, which only add. *)
(* They differ in what they take from a request whose fields are absent or *)
(* null.  A request that is refused changes nothing and is left out.       *)
(***************************************************************************)
EXTENDS Naturals, Sequences, SequencesExt

CONSTANTS
    Texts,         \* titles once trimmed; "null" is one
    Blank,         \* a title that trimming empties
    Null, Absent,  \* what a request may hold instead of a value
    MaxTasks       \* bound of this instance on the tasks ever created

VARIABLES
    style,   \* the server that runs
    tasks,   \* its list
    nextId

vars == <<style, tasks, nextId>>

Styles == {"rest", "rpc", "graphql", "mvc", "mvvm"}

Ids == {tasks[k].id : k \in DOMAIN tasks}

Find(id) == CHOOSE k \in DOMAIN tasks : tasks[k].id = id

Init ==
    /\ style \in Styles
    /\ tasks = <<>>
    /\ nextId = 1

-----------------------------------------------------------------------------
(* What the handlers share *)

\* Slip: the id is the length of the list plus one.
AddByLength(title) ==
    /\ title \in Texts
    /\ nextId <= MaxTasks
    /\ tasks' = Append(tasks, [id |-> Len(tasks) + 1, title |-> title, done |-> FALSE])
    /\ nextId' = nextId + 1
    /\ UNCHANGED style

Add(title) ==
    /\ title \in Texts
    /\ nextId <= MaxTasks
    /\ tasks' = Append(tasks, [id |-> nextId, title |-> title, done |-> FALSE])
    /\ nextId' = nextId + 1
    /\ UNCHANGED style

Change(id, title, done) ==
    /\ id \in Ids
    /\ title \in Texts
    /\ tasks' = [tasks EXCEPT ![Find(id)].title = title, ![Find(id)].done = done]
    /\ UNCHANGED <<style, nextId>>

Drop(id) ==
    /\ id \in Ids
    /\ tasks' = RemoveAt(tasks, Find(id))
    /\ UNCHANGED <<style, nextId>>

\* The field of a patch, or what the task has.
OrKept(given, kept) == IF given = Absent THEN kept ELSE given

\* Boolean(x), also of x ?? false.
Truthy(done) == done = TRUE

-----------------------------------------------------------------------------
(* REST *)

RestPost(title) == style = "rest" /\ Add(title)

RestPut(id, title, done) == style = "rest" /\ Change(id, title, Truthy(done))

\* String(null) is a title like another.
RestPatch(id, title, done) ==
    /\ style = "rest" /\ id \in Ids
    /\ LET task == tasks[Find(id)]
           text == IF title = Null THEN "null" ELSE OrKept(title, task.title)
       IN  Change(id, text, IF done = Absent THEN task.done ELSE Truthy(done))

RestDelete(id) == style = "rest" /\ Drop(id)

-----------------------------------------------------------------------------
(* JSON-RPC *)

RpcCreate(title) == style = "rpc" /\ Add(title)

RpcUpdate(id, title, done) == style = "rpc" /\ Change(id, title, Truthy(done))

\* trim of a null title throws.
RpcPatch(id, title, done) ==
    /\ style = "rpc" /\ id \in Ids
    /\ LET task == tasks[Find(id)]
       IN  Change(id, OrKept(title, task.title),
                  IF done = Absent THEN task.done ELSE Truthy(done))

RpcDelete(id) == style = "rpc" /\ Drop(id)

-----------------------------------------------------------------------------
(* GraphQL: the schema refuses a null wherever it says "!" *)

CreateTask(title) == style = "graphql" /\ Add(title)

UpdateTask(id, title, done) ==
    style = "graphql" /\ done \in BOOLEAN /\ Change(id, title, done)

\* done is nullable here: a null is stored, which no query can then return.
PatchTask(id, title, done) ==
    /\ style = "graphql" /\ id \in Ids
    /\ LET task == tasks[Find(id)]
       IN  Change(id, OrKept(title, task.title), OrKept(done, task.done))

DeleteTask(id) == style = "graphql" /\ Drop(id)

-----------------------------------------------------------------------------
(* MVC and MVVM: what is not a string counts as blank.  The view model     *)
(* lives for one request, so its error is gone with the answer.            *)

ControllerCreate(title) == style = "mvc" /\ Add(title)

ViewModelAddTask(title) == style = "mvvm" /\ Add(title)

-----------------------------------------------------------------------------

GivenTitles == Texts \cup {Blank, Null, Absent}
Dones == BOOLEAN \cup {Null, Absent}

Next ==
    \/ \E title \in GivenTitles :
         \/ RestPost(title) \/ RpcCreate(title) \/ CreateTask(title)
         \/ ControllerCreate(title) \/ ViewModelAddTask(title)
    \/ \E id \in 1..MaxTasks :
         \/ RestDelete(id) \/ RpcDelete(id) \/ DeleteTask(id)
         \/ \E title \in GivenTitles, done \in Dones :
              \/ RestPut(id, title, done) \/ RestPatch(id, title, done)
              \/ RpcUpdate(id, title, done) \/ RpcPatch(id, title, done)
              \/ UpdateTask(id, title, done) \/ PatchTask(id, title, done)

Spec == Init /\ [][Next]_vars

-----------------------------------------------------------------------------

\* The list as a task store sees it.
Content == [title : Texts, done : BOOLEAN \cup {Null}]

Held == [i \in Ids |-> [title |-> tasks[Find(i)].title, done |-> tasks[Find(i)].done]]

\* Every style is a task store: ids are never used again, also after the last
\* task was deleted, and no request makes a title blank, whatever it holds
\* instead of one (APIs-strategies/README.md: five demos, one problem).
Store == INSTANCE TaskStore WITH held <- Held, created <- nextId - 1

ServesAStore == Store!Spec

=============================================================================
