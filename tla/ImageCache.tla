----------------------------- MODULE ImageCache -----------------------------
(***************************************************************************)
(* The thumbnails on disk of mobile-architecture/offline-cache:            *)
(* src/data/images/fileSystemImageCache.ts and src/domain/eviction.ts.     *)
(*                                                                         *)
(* A step is what runs between two awaits.  The order of a request does    *)
(* not matter: a batch is any of the keys that are left.  All the manifest *)
(* adds to the files is how long ago they were used.                       *)
(***************************************************************************)
EXTENDS Integers, FiniteSetsExt

CONSTANTS
    Keys,         \* ids of posts, numbers: ties are broken by their order
    Requests,     \* bound on the sets of keys one ensure or touch names
    Drops,        \* bound on the sets of keys one drop names
    Callers,      \* executions of ensure that may overlap: the sync, the screen
    Size,         \* the bytes of each image
    Budget,       \* CACHE_BUDGET_BYTES
    MaxParallel,  \* MAX_PARALLEL_DOWNLOADS
    MaxNow        \* bound on the clock

SizeOf(S) == SumFunctionOnSet(Size, S)

ASSUME CacheAssumption ==
    /\ IsFiniteSet(Keys) /\ IsFiniteSet(Callers)
    /\ Keys \subseteq Nat /\ Requests \cup Drops \subseteq SUBSET Keys
    /\ Size \in [Keys -> Nat \ {0}]
    /\ Budget \in Nat /\ MaxParallel \in Nat \ {0} /\ MaxNow \in Nat
    /\ \A S \in SUBSET Keys : Cardinality(S) <= MaxParallel => SizeOf(S) <= Budget

VARIABLES
    files,          \* keys with a file in the directory
    items,          \* the index in memory, for the keys it has
    inFlight,
    initialized,    \* the process is up and has called init
    call,           \* what each execution of ensure has asked for and awaits
    now

\* History, read by no guard.
VARIABLES
    torn,           \* keys whose file a later call took away, and none put back since
    gone,           \* keys let go of while not being fetched, and not fetched since
    overdue         \* killed with a batch on disk that no eviction has followed

memoryVars  == <<items, inFlight, initialized, call>>
historyVars == <<torn, gone, overdue>>

vars == <<files, memoryVars, now, historyVars>>

-----------------------------------------------------------------------------

Item == [sizeBytes : Nat, lastAccessAt : 0 .. MaxNow]

\* An index without items.
Empty == [k \in {} |-> 0]

\* Keys not begun, those of the batch, those whose download is awaited, and
\* those of them whose file is there already.
Call == [rest : SUBSET Keys, batch : SUBSET Keys, left : SUBSET Keys, arrived : SUBSET Keys]

Idle == [rest |-> {}, batch |-> {}, left |-> {}, arrived |-> {}]

TypeOK ==
    /\ files \subseteq Keys
    /\ DOMAIN items \subseteq Keys
    /\ \A k \in DOMAIN items : items[k] \in Item
    /\ inFlight \subseteq Keys
    /\ initialized \in BOOLEAN
    /\ call \in [Callers -> Call]
    /\ now \in 0 .. MaxNow
    /\ torn \subseteq Keys /\ gone \subseteq Keys
    /\ overdue \in BOOLEAN

\* Nothing was ever cached.
Init ==
    /\ files = {}
    /\ items = Empty
    /\ inFlight = {}
    /\ initialized = FALSE
    /\ call = [c \in Callers |-> Idle]
    /\ now = 0
    /\ torn = {} /\ gone = {}
    /\ overdue = FALSE

-----------------------------------------------------------------------------
(* The index *)

Usage(index) == SumFunction([k \in DOMAIN index |-> index[k].sizeBytes])

Without(index, S) == Restrict(index, DOMAIN index \ S)

Before(index, j, k) ==
    \/ index[j].lastAccessAt < index[k].lastAccessAt
    \/ index[j].lastAccessAt = index[k].lastAccessAt /\ j < k

\* Slip: the newest go first.
PlanReversed(index, protected) ==
    LET candidates == DOMAIN index \ protected
        freedBefore(k) ==
            Usage(Restrict(index, {j \in candidates : Before(index, k, j)}))
    IN  {k \in candidates : Usage(index) - freedBefore(k) > Budget}

\* Slip: the loop stops with one item too many in place.
PlanShort(index, protected) ==
    LET candidates == DOMAIN index \ protected
        freedBefore(k) ==
            Usage(Restrict(index, {j \in candidates : Before(index, j, k)}))
    IN  {k \in candidates : Usage(index) - freedBefore(k) > Budget + 1}

\* From the least recently used upwards, an item goes as long as those before
\* it have not made enough room.
PlanEviction(index, protected) ==
    LET candidates == DOMAIN index \ protected
        freedBefore(k) ==
            Usage(Restrict(index, {j \in candidates : Before(index, j, k)}))
    IN  {k \in candidates : Usage(index) - freedBefore(k) > Budget}

-----------------------------------------------------------------------------
(* ensure *)

Awaited == UNION {call[c].left : c \in Callers}

Arrived == UNION {call[c].arrived : c \in Callers}

\* The downloads of a batch begin, and the files that are there make way.
Begin(c, rest) ==
    \E b \in kSubset(Min({MaxParallel, Cardinality(rest)}), rest) :
        /\ call' = [call EXCEPT ![c] =
                      [rest |-> rest \ b, batch |-> b, left |-> b, arrived |-> {}]]
        /\ files' = files \ b
        /\ inFlight' = inFlight \cup b
        /\ torn' = (torn \ b) \cup (b \cap (Arrived \cup DOMAIN items))
        /\ gone' = gone \ b
        /\ UNCHANGED <<items, initialized, now, overdue>>

Missing(wanted) == wanted \ (DOMAIN items \cup inFlight)

Ensure(c, wanted) ==
    /\ initialized
    /\ call[c] = Idle
    /\ Missing(wanted) # {}
    /\ Begin(c, Missing(wanted))

NextBatch(c) ==
    /\ call[c].rest # {} /\ call[c].batch = {}
    /\ Begin(c, call[c].rest)

\* The platform has written the file; the code that awaits it has yet to run.
FileArrives(c, k) ==
    /\ k \in call[c].left \ call[c].arrived
    /\ files' = files \cup {k}
    /\ call' = [call EXCEPT ![c].arrived = @ \cup {k}]
    /\ torn' = torn \ {k}
    /\ UNCHANGED <<items, inFlight, initialized, now, gone, overdue>>

\* The key in the index, with the size of its file, 0 if that is gone.
Indexed(k) ==
    [j \in DOMAIN items \cup {k} |->
       IF j = k THEN [sizeBytes |-> IF k \in files THEN Size[k] ELSE 0, lastAccessAt |-> now]
                ELSE items[j]]

Settle(c, k) == call' = [call EXCEPT ![c].left = @ \ {k}, ![c].arrived = @ \ {k}]

Downloaded(c, k) ==
    /\ k \in call[c].arrived
    /\ items' = Indexed(k)
    /\ inFlight' = inFlight \ {k}
    /\ Settle(c, k)
    /\ UNCHANGED <<files, initialized, now, historyVars>>

\* Slip: a failing download is queued again.
FailureQueuedAgain(c, k) ==
    /\ k \in call[c].left \ call[c].arrived
    /\ inFlight' = inFlight \ {k}
    /\ call' = [call EXCEPT ![c].left = @ \ {k}, ![c].rest = @ \cup {k}]
    /\ UNCHANGED <<files, items, initialized, now, historyVars>>

\* Slip: the key is indexed in any case.
FailureIndexed(c, k) ==
    /\ k \in call[c].left \ call[c].arrived
    /\ items' = Indexed(k)
    /\ inFlight' = inFlight \ {k}
    /\ Settle(c, k)
    /\ UNCHANGED <<files, initialized, now, historyVars>>

\* The next sync will try again.
DownloadFails(c, k) ==
    /\ k \in call[c].left \ call[c].arrived
    /\ inFlight' = inFlight \ {k}
    /\ Settle(c, k)
    /\ UNCHANGED <<files, items, initialized, now, historyVars>>

\* A batch is complete; without a rest, so is the call.
EnforceBudget(c) ==
    LET evicted == PlanEviction(items, call[c].batch)
    IN  /\ call[c].batch # {} /\ call[c].left = {}
        /\ items' = Without(items, evicted)
        /\ files' = files \ evicted
        /\ call' = [call EXCEPT ![c].batch = {}]
        /\ torn' = torn \cup (evicted \cap Arrived)
        /\ overdue' = FALSE
        /\ UNCHANGED <<inFlight, initialized, now, gone>>

-----------------------------------------------------------------------------
(* The other operations, none of which waits *)

Touch(ks) ==
    /\ initialized
    /\ ks \cap DOMAIN items # {}
    /\ items' = [k \in DOMAIN items |->
                   IF k \in ks THEN [items[k] EXCEPT !.lastAccessAt = now] ELSE items[k]]
    /\ UNCHANGED <<files, inFlight, initialized, call, now, historyVars>>

\* Slip: the index forgets the key, the file stays.
DropIndexed(ks) ==
    /\ initialized
    /\ items' = Without(items, ks)
    /\ gone' = gone \cup (ks \ Awaited)
    /\ UNCHANGED <<files, inFlight, initialized, call, now, torn, overdue>>

Drop(ks) ==
    /\ initialized
    /\ items' = Without(items, ks)
    /\ files' = files \ ks
    /\ gone' = gone \cup (ks \ Awaited)
    /\ torn' = torn \cup (ks \cap Arrived)
    /\ UNCHANGED <<inFlight, initialized, call, now, overdue>>

\* Only what the index has is removed.
Clear ==
    /\ initialized
    /\ items' = Without(items, DOMAIN items)
    /\ files' = files \ DOMAIN items
    /\ gone' = gone \cup (Keys \ Awaited)
    /\ torn' = torn \cup (DOMAIN items \cap Arrived)
    /\ UNCHANGED <<inFlight, initialized, call, now, overdue>>

-----------------------------------------------------------------------------
(* The process *)

\* init: the disk decides what there is, the manifest how long ago it was used.
\* The manifest may be behind, damaged or gone, so that is anything at all.
Start ==
    /\ ~initialized
    /\ \E at \in [files -> 0 .. now] :
         items' = [k \in files |-> [sizeBytes |-> Size[k], lastAccessAt |-> at[k]]]
    /\ initialized' = TRUE
    /\ UNCHANGED <<files, inFlight, call, now, historyVars>>

\* The process dies; the files stay.
Crash ==
    /\ initialized
    /\ items' = Empty
    /\ inFlight' = {}
    /\ initialized' = FALSE
    /\ call' = [c \in Callers |-> Idle]
    /\ torn' = {}
    /\ overdue' = (overdue \/ \E c \in Callers : call[c] # Idle)
    /\ UNCHANGED <<files, now, gone>>

Tick ==
    /\ now < MaxNow
    /\ now' = now + 1
    /\ UNCHANGED <<files, memoryVars, historyVars>>

-----------------------------------------------------------------------------

CallStep(c) ==
    \/ \E k \in Keys : FileArrives(c, k) \/ Downloaded(c, k) \/ DownloadFails(c, k)
    \/ EnforceBudget(c) \/ NextBatch(c)

Next ==
    \/ \E c \in Callers : CallStep(c) \/ \E wanted \in Requests : Ensure(c, wanted)
    \/ \E ks \in Requests : Touch(ks)
    \/ \E ks \in Drops : Drop(ks)
    \/ Clear \/ Start \/ Crash \/ Tick

Spec == Init /\ [][Next]_vars

\* A download ends, well or not.
FairSpec == Spec /\ \A c \in Callers : WF_vars(CallStep(c))

=============================================================================
