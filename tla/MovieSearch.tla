---------------------------- MODULE MovieSearch ----------------------------
(***************************************************************************)
(* Searching for movies as the film demos do it: react-clean-architecture  *)
(* sends what was typed after 400 ms without a key, the modular and the    *)
(* feature-sliced demo what was submitted.  No request is ever cancelled,  *)
(* and whichever answers last sets the list.  A list is named by the query *)
(* it answers; the empty query stands for the popular movies.              *)
(***************************************************************************)
EXTENDS Naturals

CONSTANTS Queries, Empty, None, MaxRequests

VARIABLES
    page,      \* the demo: "debounced" or "submitted"
    query,     \* what the field, or the title over the list, says
    timer,     \* what the debounce is about to send
    requests,  \* under way: [n, query], numbered as they are sent
    sent,      \* how many were sent
    results,   \* the list
    loading, error,
    answered,  \* history: the latest request that was answered
    overtaken, \* history: a request ended after a later one had
    silent     \* history: a request failed and nothing on the page says so

vars == <<page, query, timer, requests, sent, results, loading, error, answered, overtaken,
          silent>>

Init ==
    /\ page \in {"debounced", "submitted"}
    /\ query = Empty /\ timer = None /\ error = FALSE
    /\ requests = IF page = "submitted" THEN {[n |-> 1, query |-> Empty]} ELSE {}
    /\ sent = IF page = "submitted" THEN 1 ELSE 0
    /\ results = None /\ loading = (page = "submitted")
    /\ answered = 0 /\ overtaken = FALSE /\ silent = FALSE

Send(q) ==
    /\ sent < MaxRequests /\ sent' = sent + 1
    /\ requests' = requests \cup {[n |-> sent + 1, query |-> q]}
    /\ loading' = TRUE

-----------------------------------------------------------------------------
(* react-clean-architecture *)

\* Slip: a timer that runs is left to run.
TypeThrottled(q) ==
    /\ page = "debounced"
    /\ query' = q
    /\ IF q = Empty
       THEN timer' = None /\ results' = None /\ error' = FALSE
       ELSE timer' = (IF timer = None THEN q ELSE timer) /\ UNCHANGED <<results, error>>
    /\ UNCHANGED <<page, requests, sent, loading, answered, overtaken, silent>>

\* Every key starts the wait again; an emptied field clears the list.
Type(q) ==
    /\ page = "debounced"
    /\ query' = q
    /\ IF q = Empty
       THEN timer' = None /\ results' = None /\ error' = FALSE
       ELSE timer' = q /\ UNCHANGED <<results, error>>
    /\ UNCHANGED <<page, requests, sent, loading, answered, overtaken, silent>>

\* 400 ms have passed.
Search ==
    /\ timer # None
    /\ Send(timer) /\ timer' = None /\ error' = FALSE
    /\ UNCHANGED <<page, query, results, answered, overtaken, silent>>

-----------------------------------------------------------------------------
(* The modular and the feature-sliced demo *)

\* SearchBar hands the trimmed text over; useMovies runs when it has changed.
Submit(q) ==
    /\ page = "submitted" /\ q # query
    /\ query' = q /\ Send(q)
    /\ UNCHANGED <<page, timer, results, error, answered, overtaken, silent>>

-----------------------------------------------------------------------------
(* Both *)

\* What every end of a request does, finally: the spinner goes, whoever else
\* is still under way.
Over(r) ==
    /\ requests' = requests \ {r}
    /\ loading' = FALSE
    /\ answered' = IF r.n > answered THEN r.n ELSE answered
    /\ overtaken' = (overtaken \/ r.n < answered)
    /\ UNCHANGED <<page, query, timer, sent>>

Answer(r) ==
    /\ Over(r)
    /\ results' = r.query
    /\ UNCHANGED <<error, silent>>

\* useSearchMovies shows the error; useMovies catches none.
Fail(r) ==
    /\ Over(r)
    /\ error' = (error \/ page = "debounced")
    /\ silent' = (silent \/ page = "submitted")
    /\ UNCHANGED results

Next ==
    \/ \E q \in Queries \cup {Empty} : Type(q) \/ Submit(q)
    \/ Search
    \/ \E r \in requests : Answer(r) \/ Fail(r)

Spec == Init /\ [][Next]_vars

-----------------------------------------------------------------------------

\* What is on the screen: the popular movies have a request of their own in
\* the debounced demo, whose list is shown while nothing is typed.
Shown ==
    IF page = "debounced" /\ query = Empty THEN Empty ELSE results

\* Once every request has ended, and the debounce with it, the list is that of
\* the query over it, or an error is shown; unless an answer was overtaken by
\* an earlier one, or a failure passed in silence.
ShownAnswersQuery ==
    requests = {} /\ timer = None =>
        Shown = query \/ error \/ overtaken \/ silent

=============================================================================
