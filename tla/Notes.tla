------------------------------- MODULE Notes -------------------------------
(***************************************************************************)
(* The notes of the PWA: the page's state (useNotes.ts) over IndexedDB     *)
(* (indexeddb.ts), with notes.json fetched through the service worker.     *)
(* Every click starts a call, an async function that gives up control at   *)
(* each await; the calls interleave, also with those of a page the user    *)
(* has left.  IndexedDB serves its requests in the order they were made.   *)
(***************************************************************************)
EXTENDS Naturals, FiniteSets, Sequences, Functions

CONSTANTS
    ApiNotes,     \* ids the API may publish
    OwnNotes,     \* ids addNote may draw: the clock and a random string
    Texts,        \* what a note may say
    Calls,        \* calls under way at a time, at most
    MaxOpens, MaxFailures,
    Idle, None

VARIABLES
    store,        \* the object store: id -> text
    queue,        \* calls with a request before IndexedDB, in order
    call,         \* the calls under way
    page,         \* how often the page was opened: the instance that is shown
    apiNoteIds, notes, loading,  \* its state
    editor,       \* what the editor is open for: a note, None for a new one, or nothing
    removed,      \* history: own notes the user deleted
    failures,     \* history: requests IndexedDB refused
    leftBusy,     \* history: the page was left with a call under way
    stale         \* history: updates whose note was deleted since they found it

editing == <<editor, stale>>

vars == <<store, queue, call, page, apiNoteIds, notes, loading, removed, failures, leftBusy,
          editing>>

hook == <<page, apiNoteIds, notes, loading, leftBusy>>

Ids == ApiNotes \cup OwnNotes

NoNotes == <<>>

InitCall == [kind |-> "init", step |-> "fetch", page |-> 1, id |-> None, text |-> None,
             ids |-> {}, got |-> NoNotes]

Init ==
    /\ store = NoNotes
    /\ queue = <<>>
    /\ page = 1 /\ apiNoteIds = {} /\ notes = NoNotes /\ loading = TRUE
    /\ \E c \in Calls : call = [s \in Calls |-> IF s = c THEN InitCall ELSE Idle]
    /\ editor = {}
    /\ removed = {} /\ failures = 0 /\ leftBusy = FALSE /\ stale = {}

-----------------------------------------------------------------------------
(* Calls *)

\* What a call that is under way is at.
CallState ==
    [kind : {"init", "sync", "add", "update", "remove"},
     step : {"fetch", "save", "find", "delete", "read"},
     page : 1..MaxOpens, id : Ids \cup {None}, text : Texts \cup {None},
     ids : SUBSET ApiNotes, got : [ApiNotes -> Texts] \cup {NoNotes}]

Free == {c \in Calls : call[c] = Idle}

\* The call goes on at a step that is a request to IndexedDB, behind rest.
Ask(c, state, rest) ==
    /\ call' = [call EXCEPT ![c] = state]
    /\ queue' = Append(rest, c)

Ends(c) == call' = [call EXCEPT ![c] = Idle]

\* A handler of the page that is shown; its closure holds the API's ids as of
\* the last render.
Start(kind, step, id, text) ==
    \E c \in Free :
        LET new == [kind |-> kind, step |-> step, page |-> page, id |-> id, text |-> text,
                    ids |-> apiNoteIds, got |-> NoNotes]
        IN  IF step = "fetch"
            THEN call' = [call EXCEPT ![c] = new] /\ UNCHANGED queue
            ELSE Ask(c, new, queue)

\* setState of an instance that was unmounted does nothing.
Mounted(c) == call[c].page = page

\* When what was submitted is done the editor is closed, whichever is open by
\* then.
SubmitEnds(c) ==
    editor' = IF call[c].kind \in {"add", "update"} /\ Mounted(c) THEN {} ELSE editor

-----------------------------------------------------------------------------
(* The page *)

\* The page is left and opened again: a new instance, the calls of the old one
\* go on.
Open ==
    /\ page < MaxOpens
    /\ \E c \in Free : call' = [call EXCEPT ![c] = [InitCall EXCEPT !.page = page + 1]]
    /\ page' = page + 1
    /\ apiNoteIds' = {} /\ notes' = NoNotes /\ loading' = TRUE
    /\ leftBusy' = (leftBusy \/ Free # Calls)
    /\ editor' = {}
    /\ UNCHANGED <<store, queue, removed, failures, stale>>

\* The button Sincronizar, shown while the browser takes itself for online.
\* The editor is drawn over it and over the cards, but disables none of them.
SyncWithApi ==
    /\ Start("sync", "fetch", None, None)
    /\ UNCHANGED <<store, hook, removed, failures, editing>>

\* Nova Nota, and Editar on the card of a note.
OpenEditor(id) ==
    /\ id = None \/ (~loading /\ id \in DOMAIN notes)
    /\ editor' = {id}
    /\ UNCHANGED <<store, queue, call, hook, removed, failures, stale>>

\* Cancelar closes the editor at once; what it has submitted goes on.
Cancel ==
    /\ editor # {} /\ editor' = {}
    /\ UNCHANGED <<store, queue, call, hook, removed, failures, stale>>

\* Salvar, enabled also while what was submitted is under way.
AddNote(id, text) ==
    /\ None \in editor
    /\ id \notin removed \cup DOMAIN store
    /\ \A c \in Calls : call[c] # Idle => call[c].id # id
    /\ Start("add", "save", id, text)
    /\ UNCHANGED <<store, hook, removed, failures, editing>>

UpdateNote(id, text) ==
    /\ id \in editor
    /\ Start("update", "find", id, text)
    /\ UNCHANGED <<store, hook, removed, failures, editing>>

\* Excluir on the card of a note.
RemoveNote(id) ==
    /\ ~loading /\ id \in DOMAIN notes
    /\ Start("remove", "delete", id, None)
    /\ UNCHANGED <<store, hook, removed, failures, editing>>

-----------------------------------------------------------------------------
(* notes.json *)

Fetching(c) == call[c] # Idle /\ call[c].step = "fetch"

\* The file as it is deployed now, or as the worker cached it earlier, while
\* the network does not answer; then setApiNoteIds and saveNotes.
FetchNotes(c) ==
    /\ Fetching(c)
    /\ \E answer \in [ApiNotes -> Texts] :
         Ask(c, [call[c] EXCEPT !.step = "save", !.got = answer], queue)
    /\ apiNoteIds' = IF Mounted(c) THEN ApiNotes ELSE apiNoteIds
    /\ UNCHANGED <<store, page, notes, loading, removed, failures, leftBusy, editing>>

\* Neither answers, or with an error: init goes on to the store, syncWithApi
\* gives up.
FetchFails(c) ==
    /\ Fetching(c)
    /\ IF call[c].kind = "init" THEN Ask(c, [call[c] EXCEPT !.step = "read"], queue)
                                ELSE Ends(c) /\ UNCHANGED queue
    /\ UNCHANGED <<store, hook, removed, failures, editing>>

-----------------------------------------------------------------------------
(* IndexedDB *)

Served(c, step) == queue # <<>> /\ c = Head(queue) /\ call[c].step = step

\* Slip: a synchronisation is over once it has saved.
LoadNotesUnlessSync(c) ==
    /\ IF call[c].kind = "sync"
       THEN Ends(c) /\ queue' = Tail(queue)
       ELSE Ask(c, [call[c] EXCEPT !.step = "read"], Tail(queue))
    /\ loading' = (loading \/ (Mounted(c) /\ call[c].kind \in {"add", "update", "remove"}))

\* loadNotes of the page: the spinner, then what is stored.
LoadNotes(c) ==
    /\ Ask(c, [call[c] EXCEPT !.step = "read"], Tail(queue))
    /\ loading' = (loading \/ (Mounted(c) /\ call[c].kind \in {"add", "update", "remove"}))

\* put: what is there is replaced.
Put(ids, new) == [i \in ids \cup DOMAIN store |-> IF i \in ids THEN new[i] ELSE store[i]]

\* One note of the user, or in one transaction those of the API.
Save(c) ==
    /\ Served(c, "save")
    /\ store' = IF call[c].kind \in {"init", "sync"}
                THEN Put(DOMAIN call[c].got, call[c].got)
                ELSE Put({call[c].id}, [i \in {call[c].id} |-> call[c].text])
    /\ LoadNotes(c)
    /\ stale' = stale \ {c}
    /\ UNCHANGED <<page, apiNoteIds, notes, removed, failures, leftBusy, editor>>

\* Slip: it is written whether it is there or not.
FindAny(c) ==
    /\ Served(c, "find")
    /\ Ask(c, [call[c] EXCEPT !.step = "save"], Tail(queue))
    /\ UNCHANGED <<store, hook, removed, failures, editing>>

\* updateNote looks the note up and stops if it is gone.
Find(c) ==
    /\ Served(c, "find")
    /\ IF call[c].id \in DOMAIN store
       THEN Ask(c, [call[c] EXCEPT !.step = "save"], Tail(queue)) /\ UNCHANGED editor
       ELSE Ends(c) /\ queue' = Tail(queue) /\ SubmitEnds(c)
    /\ UNCHANGED <<store, hook, removed, failures, stale>>

Delete(c) ==
    /\ Served(c, "delete")
    /\ store' = Restrict(store, DOMAIN store \ {call[c].id})
    /\ removed' = removed \cup ({call[c].id} \cap OwnNotes)
    /\ stale' = stale \cup {d \in Calls : /\ call[d] # Idle /\ call[d].id = call[c].id
                                          /\ call[d].kind = "update" /\ call[d].step = "save"}
    /\ LoadNotes(c)
    /\ UNCHANGED <<page, apiNoteIds, notes, failures, leftBusy, editor>>

\* The list as it is shown: synced if the id is among those of the API, as the
\* function that reads knows them.  On opening that is the empty set of the
\* first render.
Shown(known) ==
    [i \in DOMAIN store |-> [text |-> store[i],
                             syncStatus |-> IF i \in known THEN "synced" ELSE "local"]]

Known(c) == IF call[c].kind = "sync" THEN DOMAIN call[c].got ELSE call[c].ids

\* getAllNotes, and the state set from it before IndexedDB goes on.
Read(c) ==
    /\ Served(c, "read")
    /\ IF Mounted(c)
       THEN /\ notes' = Shown(Known(c))
            /\ loading' = (loading /\ call[c].kind = "sync")
       ELSE UNCHANGED <<notes, loading>>
    /\ Ends(c) /\ queue' = Tail(queue)
    /\ SubmitEnds(c)
    /\ UNCHANGED <<store, page, apiNoteIds, removed, failures, leftBusy, stale>>

\* A request is rejected.  init goes on after a failed save and is left with
\* its spinner after a failed read; loadNotes shows an error, and the submit
\* that called it is done all the same; the other calls end where they are,
\* and their editor stays open.
RequestFails(c) ==
    /\ failures < MaxFailures /\ failures' = failures + 1
    /\ queue # <<>> /\ c = Head(queue)
    /\ IF call[c].kind = "init" /\ call[c].step = "save"
       THEN Ask(c, [call[c] EXCEPT !.step = "read"], Tail(queue))
       ELSE Ends(c) /\ queue' = Tail(queue)
    /\ loading' = (loading /\ ~(/\ call[c].step = "read" /\ Mounted(c)
                                /\ call[c].kind \in {"add", "update", "remove"}))
    /\ IF call[c].step = "read" THEN SubmitEnds(c) ELSE UNCHANGED editor
    /\ stale' = stale \ {c}
    /\ UNCHANGED <<store, page, apiNoteIds, notes, removed, leftBusy>>

Next ==
    \/ Open \/ SyncWithApi \/ Cancel
    \/ \E id \in Ids \cup {None} : OpenEditor(id)
    \/ \E id \in OwnNotes, text \in Texts : AddNote(id, text)
    \/ \E id \in Ids, text \in Texts : UpdateNote(id, text)
    \/ \E id \in Ids : RemoveNote(id)
    \/ \E c \in Calls : FetchNotes(c) \/ FetchFails(c)
    \/ \E c \in Calls : Save(c) \/ Find(c) \/ Delete(c) \/ Read(c) \/ RequestFails(c)

Spec == Init /\ [][Next]_vars

-----------------------------------------------------------------------------
(* Properties *)

\* Once nothing is under way the list is what is stored, whatever overlapped
\* on the way there, unless the page was left with a call under way or
\* IndexedDB refused a request.
ShownIsStored ==
    Free = Calls /\ failures = 0 /\ ~leftBusy =>
        ~loading /\ [i \in DOMAIN notes |-> notes[i].text] = store

\* A note of the user is never lost or changed but by a call the user made on
\* it - no synchronisation, failure or late answer touches it - and one that
\* was deleted comes back only with an update of it that was under way: one
\* that had found the note before it was deleted, and saves it after.
OwnNotesKept ==
    [][\A i \in OwnNotes :
         /\ i \in removed \ DOMAIN store /\ i \in DOMAIN store'
              => Head(queue) \in stale /\ call[Head(queue)].id = i
         /\ i \in DOMAIN store /\ ~(i \in DOMAIN store' /\ store'[i] = store[i])
              => call[Head(queue)].id = i]_vars

=============================================================================
