----------------------------- MODULE MCFrontend -----------------------------
(***************************************************************************)
(* The browser demos: notes, service worker, movie search.  They share     *)
(* nothing but the page, so each is explored by itself.                    *)
(***************************************************************************)
EXTENDS Naturals

CONSTANTS
    ApiNotes, OwnNotes, Texts, Calls, MaxOpens, MaxFailures, Idle, None,
    MaxBuilds, MaxLate,
    Queries, Empty, MaxRequests

VARIABLES store, queue, call, page, apiNoteIds, notes, loading, removed, failures, leftBusy,
          editor, stale
VARIABLES build, cacheVersion, online, caches, worker, skip, late, visit, cut
VARIABLES demo, query, timer, requests, sent, results, searching, error, answered, overtaken,
          silent

VARIABLE app  \* the one that runs

Pad == INSTANCE Notes
Sw == INSTANCE ServiceWorker
Films == INSTANCE MovieSearch WITH page <- demo, loading <- searching

\* The API publishes no note under an id that addNote draws, no note is called
\* None, the page is opened
\* at least once, and the mark of a slot without a call is no call.
ASSUME NotesAssumption ==
    /\ ApiNotes \cap OwnNotes = {} /\ None \notin ApiNotes \cup OwnNotes
    /\ MaxOpens \in Nat \ {0}
    /\ Idle \notin Pad!CallState

\* There is a build to begin with.
ASSUME BuildsAssumption == MaxBuilds \in Nat \ {0}

\* null is nothing one can type.
ASSUME QueriesAssumption == None \notin Queries

padVars == <<store, queue, call, page, apiNoteIds, notes, loading, removed, failures, leftBusy,
            editor, stale>>
swVars == <<build, cacheVersion, online, caches, worker, skip, late, visit, cut>>
filmsVars == <<demo, query, timer, requests, sent, results, searching, error, answered,
               overtaken, silent>>

appVars == <<padVars, swVars, filmsVars, app>>

Init ==
    /\ app \in {"notes", "worker", "films"}
    /\ Pad!Init /\ Sw!Init /\ Films!Init
    /\ app # "films" => demo = "debounced"

Next ==
    \/ app = "notes" /\ Pad!Next /\ UNCHANGED <<swVars, filmsVars, app>>
    \/ app = "worker" /\ Sw!Next /\ UNCHANGED <<padVars, filmsVars, app>>
    \/ app = "films" /\ Films!Next /\ UNCHANGED <<padVars, swVars, app>>

Spec == Init /\ [][Next]_appVars

\* The list is what is stored, once nothing is under way (Notes).
ShownIsStored == Pad!ShownIsStored

\* The user's notes are only touched by the user's calls (Notes).
OwnNotesKept == Pad!OwnNotesKept

\* No cache of an older worker, and the shell in this one's (ServiceWorker).
CachesAreCurrent == Sw!CachesAreCurrent

\* The list is that of the query over it (MovieSearch).
ShownAnswersQuery == Films!ShownAnswersQuery

=============================================================================
