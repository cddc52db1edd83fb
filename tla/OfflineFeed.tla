---------------------------- MODULE OfflineFeed ----------------------------
(***************************************************************************)
(* The offline-first feed of mobile-architecture/offline-cache: the local  *)
(* store, the sync engine with its push and pull, the repository calls the *)
(* UI and the triggers make, and the server the client talks to.           *)
(*                                                                         *)
(* A step is what runs between two points where the code gives way: a      *)
(* request to the server or an image download, or a statement after which  *)
(* the process may be killed with the next one not yet done.  Store calls  *)
(* that only follow each other are one step, since the SQLite driver       *)
(* answers synchronously.  The downloads of one ensure of a run are a      *)
(* single step: ImageCache takes them apart, and has their sizes and the   *)
(* order of their last use.                                                *)
(***************************************************************************)
EXTENDS Post

CONSTANTS
    SeedPosts,  \* the posts the server starts with
    MaxNow,     \* bound: the clock of the server and of the cursor stops here
    ImageBudget,\* CACHE_BUDGET_BYTES, in thumbnails, all of one size
    Runs,       \* executions of SyncEngine.run that may exist at once
    Faults      \* what the environment does in this instance

FaultKinds == {"crash", "outage", "error", "lostReply", "download", "delete", "clear",
               "screen"}

ASSUME InstanceAssumption ==
    /\ SeedPosts \subseteq Posts /\ IsFiniteSet(SeedPosts)
    /\ MaxNow \in Nat
    /\ ImageBudget \in Nat
    /\ Faults \subseteq FaultKinds

VARIABLES
    now,            \* the clock, in milliseconds the code tells apart
    server,         \* the posts the server holds
    online,         \* Connectivity.isOnline
    posts,          \* table posts: a set of LocalPost rows
    outbox,         \* table outbox: a set of OutboxEntry rows
    cursor,         \* sync_state.cursor
    thumbs,         \* posts whose thumbnail is in the image cache
    warming,        \* posts whose thumbnail the feed screen is having fetched
    app,            \* "closed" or "open"
    running,        \* the run whose promise SyncEngine.running holds, if any
    run,            \* what each run of the engine is doing
    hasSyncedOnce,  \* FeedRepository.hasSyncedOnce
    nextId          \* the id the next outbox row gets

\* History, read by no guard: what was asked, and what became of it.
VARIABLES
    intent,     \* the like state the user last asked for, per post
    fate,       \* what became of each outbox row
    requested,  \* rows of which a request has left the client
    arrived,    \* rows whose write the server has carried out, per post
    refusals,   \* error answers the server gave a row, counted up to MaxAttempts
    voided,     \* posts of which some write was given up or overtaken
    forgotten,  \* posts the client let go of without a tombstone
    strays      \* posts dropped while the screen had their thumbnail fetched

serverVars  == <<now, server>>
storeVars   == <<posts, outbox, cursor>>
imageVars   == <<thumbs, warming, strays>>
memoryVars  == <<app, running, run, hasSyncedOnce>>
historyVars == <<intent, fate, requested, arrived, refusals, voided, forgotten>>

vars == <<serverVars, online, storeVars, imageVars, memoryVars, nextId, historyVars>>

-----------------------------------------------------------------------------
(* Types *)

NoCursor == -1

Cursor == {NoCursor} \cup 0 .. MaxNow

ServerPost == [state : {"absent", "live", "deleted"}, at : 0 .. MaxNow,
               liked : BOOLEAN, count : Nat]

LikeView == [liked : BOOLEAN, count : Nat]

PushSteps == {"wait", "acked", "applied", "refused"}

PullSteps == {"fetch", "merge", "drop", "orphans", "ensure", "commit"}

Run == [pc : {"idle", "push"} \cup PushSteps \cup PullSteps,
        todo : SUBSET OutboxEntry,  \* rows of this push not yet dealt with
        elapsed : 0 .. MaxDelay,    \* ticks since the push read its clock
        ack : LikeView,             \* what the server answered to sendLike
        since : Cursor,             \* the cursor fetchDelta was called with
        incoming : SUBSET RemotePost,
        tombstoned : SUBSET Posts,
        next : 0 .. MaxNow,         \* the cursor the delta came with
        merged : SUBSET Posts,
        dropped : SUBSET Posts]

IdleRun == [pc |-> "idle", todo |-> {}, elapsed |-> 0,
            ack |-> [liked |-> FALSE, count |-> 0], since |-> NoCursor,
            incoming |-> {}, tombstoned |-> {}, next |-> 0,
            merged |-> {}, dropped |-> {}]

Fates == {"unborn", "queued", "sent", "cancelled", "orphaned", "cleared"}

TypeOK ==
    /\ now \in 0 .. MaxNow
    /\ server \in [Posts -> ServerPost]
    /\ online \in BOOLEAN
    /\ posts \subseteq LocalPost
    /\ outbox \subseteq OutboxEntry
    /\ cursor \in Cursor
    /\ thumbs \subseteq Posts /\ warming \subseteq Posts /\ strays \subseteq Posts
    /\ app \in {"closed", "open"}
    /\ running \subseteq Runs
    /\ run \in [Runs -> Run]
    /\ hasSyncedOnce \in BOOLEAN
    /\ nextId \in 1 .. MaxTaps + 1
    /\ intent \in [Posts -> BOOLEAN]
    /\ fate \in [Ids -> Fates]
    /\ requested \subseteq Ids
    /\ arrived \in [Posts -> SUBSET Ids]
    /\ refusals \in [Ids -> 0 .. MaxAttempts]
    /\ voided \subseteq Posts
    /\ forgotten \subseteq Posts

-----------------------------------------------------------------------------

Init ==
    /\ now = 0
    /\ server = [p \in Posts |-> [state |-> IF p \in SeedPosts THEN "live" ELSE "absent",
                                  at |-> 0, liked |-> FALSE, count |-> 0]]
    /\ online = TRUE
    /\ posts = {}
    /\ outbox = {}
    /\ cursor = NoCursor
    /\ thumbs = {} /\ warming = {} /\ strays = {}
    /\ app = "closed"
    /\ running = {}
    /\ run = [r \in Runs |-> IdleRun]
    /\ hasSyncedOnce = FALSE
    /\ nextId = 1
    /\ intent = [p \in Posts |-> FALSE]
    /\ fate = [i \in Ids |-> "unborn"]
    /\ requested = {}
    /\ arrived = [p \in Posts |-> {}]
    /\ refusals = [i \in Ids |-> 0]
    /\ voided = {}
    /\ forgotten = {}

-----------------------------------------------------------------------------
(* The server: MockServer's endpoints *)

\* Slip: exclusive comparison.
ChangedAfter(at, c) == c = NoCursor \/ at > c

\* Inclusive comparison: what happened in the cursor's own millisecond counts.
ChangedSince(at, c) == c = NoCursor \/ at >= c

DeltaPosts(c) ==
    {[id |-> p, updatedAt |-> server[p].at, liked |-> server[p].liked,
      count |-> server[p].count] :
        p \in {q \in Posts : server[q].state = "live" /\ ChangedSince(server[q].at, c)}}

DeltaDeleted(c) ==
    {p \in Posts : server[p].state = "deleted" /\ ChangedSince(server[p].at, c)}

\* setLike is told the state wanted, so that repeating it moves nothing.
SetLike(post, liked) ==
    IF liked = post.liked THEN post
    ELSE [post EXCEPT !.liked = liked,
                      !.at = now,
                      !.count = IF liked THEN post.count + 1
                                ELSE IF post.count = 0 THEN 0 ELSE post.count - 1]

DeletePost(p) ==
    /\ "delete" \in Faults
    /\ server[p].state = "live"
    /\ server' = [server EXCEPT ![p].state = "deleted", ![p].at = now]
    /\ UNCHANGED <<now, online, storeVars, imageVars, memoryVars, nextId, historyVars>>

PublishPost(p) ==
    /\ server[p].state = "absent"
    /\ \A q \in Posts : server[q].state = "absent" => p <= q
    /\ server' = [server EXCEPT ![p].state = "live", ![p].at = now]
    /\ UNCHANGED <<now, online, storeVars, imageVars, memoryVars, nextId, historyVars>>

-----------------------------------------------------------------------------
(* Starting and ending a run of the engine *)

\* Slip: no lock.
SyncUnlocked(connected) ==
    \/ ~connected /\ UNCHANGED <<running, run, hasSyncedOnce>>
    \/ /\ connected
       /\ \E r \in Runs :
            /\ run[r].pc = "idle"
            /\ running' = {r}
            /\ run' = [run EXCEPT ![r].pc = "push"]
       /\ UNCHANGED hasSyncedOnce

\* SyncEngine.sync: while a run is in progress the call is dropped.
EngineSync ==
    \/ /\ running # {}
       /\ UNCHANGED <<running, run>>
    \/ /\ running = {}
       /\ \E r \in Runs :
            /\ run[r].pc = "idle"
            /\ running' = {r}
            /\ run' = [run EXCEPT ![r].pc = "push"]

\* FeedRepository.sync: refused while offline.  The outcome of a call that was
\* dropped still reads ok, and at once.
Sync(connected) ==
    \/ ~connected /\ UNCHANGED <<running, run, hasSyncedOnce>>
    \/ /\ connected
       /\ EngineSync
       /\ hasSyncedOnce' = (hasSyncedOnce \/ running # {})

\* Slip: the lock is let go of after a success only.
EndRunLocked(r, ok) ==
    /\ running' = IF ok THEN {} ELSE running
    /\ run' = [run EXCEPT ![r] = IdleRun]
    /\ hasSyncedOnce' = (hasSyncedOnce \/ ok)

\* The run's promise settles; the finally clause lets go of the lock.
EndRun(r, ok) ==
    /\ running' = {}
    /\ run' = [run EXCEPT ![r] = IdleRun]
    /\ hasSyncedOnce' = (hasSyncedOnce \/ ok)

\* What becomes of the rows in gone.
Fated(gone, end) ==
    [i \in Ids |-> IF \E e \in gone : e.id = i THEN end ELSE fate[i]]

-----------------------------------------------------------------------------
(* What the screen is given *)

\* The live query: what has not expired, the newest first.
FeedQuery == Newest(VisiblePosts(posts), MaxPosts)

\* The items: each post as the user sees it.
ComposeFeed(rows) ==
    {LET entries == ForPost(outbox, row.id)
     IN  [id |-> row.id, liked |-> DeriveLikeState(row, entries).liked,
          hasPendingWrite |-> Pending(entries) # {}, hasThumb |-> row.id \in thumbs] :
         row \in Newest(VisiblePosts(rows), MaxPosts)}

\* What the screen says of the feed as a whole.
ResolveStatus ==
    IF ComposeFeed(FeedQuery) # {} THEN "ready"
    ELSE IF cursor = NoCursor /\ running # {} THEN "cold-loading" ELSE "cold-empty"

\* What the hook of the screen returns.
FeedView == [items |-> ComposeFeed(FeedQuery), status |-> ResolveStatus]

\* The status of the repository's own snapshot.
StatusFor ==
    IF ComposeFeed(posts) # {} THEN "ready"
    ELSE IF cursor # NoCursor \/ hasSyncedOnce THEN "cold-empty"
    ELSE IF online /\ running # {} THEN "cold-loading" ELSE "cold-empty"

\* What an observer of the repository is given, of the whole table.
Snapshot == [items |-> ComposeFeed(posts), status |-> StatusFor]

-----------------------------------------------------------------------------
(* Push *)

\* The cursor is read and the delta asked for.
Fetching == [IdleRun EXCEPT !.pc = "fetch", !.since = cursor]

\* The request of the earliest row leaves; with no row left the pull begins.
Proceed(r, todo) ==
    /\ run' = [run EXCEPT ![r] = IF todo = {} THEN Fetching
                                 ELSE [@ EXCEPT !.pc = "wait", !.todo = todo]]
    /\ requested' = requested \cup {e.id : e \in Earliest(todo)}

\* The post of a request that leaves though its row was taken back, or while
\* an earlier row of the same post still waits.
Misordered(todo, entries) ==
    {e.post : e \in {f \in Earliest(todo) :
                        \/ ~\E x \in entries : x.id = f.id
                        \/ \E x \in ForPost(Pending(entries), f.post) : x.id < f.id}}

\* The outbox and the posts are read, orphans deleted, the sendable chosen.
PlanPush(r) ==
    LET gone == Orphans(outbox, PostIds(posts))
        keep == outbox \ gone
        todo == SelectSendable(keep)
    IN  /\ run[r].pc = "push"
        /\ outbox' = keep
        /\ fate' = Fated(gone, "orphaned")
        /\ voided' = voided \cup {e.post : e \in gone} \cup Misordered(todo, keep)
        /\ Proceed(r, todo)
        /\ UNCHANGED <<serverVars, online, posts, cursor, imageVars, app, running,
                       hasSyncedOnce, nextId, intent, arrived, refusals, forgotten>>

\* The server carries the write out and answers.
AcceptLike(r) ==
    /\ run[r].pc = "wait"
    /\ online
    /\ \E e \in Earliest(run[r].todo) :
         /\ server[e.post].state = "live"
         /\ server' = [server EXCEPT ![e.post] = SetLike(@, e.kind = "like")]
         /\ run' = [run EXCEPT ![r].pc = "acked",
                               ![r].ack = [liked |-> server'[e.post].liked,
                                           count |-> server'[e.post].count]]
         /\ arrived' = [arrived EXCEPT ![e.post] = @ \cup {e.id}]
    /\ UNCHANGED <<now, online, storeVars, imageVars, app, running, hasSyncedOnce,
                   nextId, intent, fate, requested, refusals, voided, forgotten>>

\* The server answers with an error: 404 for a post it deleted, or 500.
RefuseLike(r) ==
    /\ run[r].pc = "wait"
    /\ online
    /\ \E e \in Earliest(run[r].todo) :
         /\ server[e.post].state # "live" \/ "error" \in Faults
         /\ run' = [run EXCEPT ![r].pc = "refused"]
         /\ refusals' = [refusals EXCEPT ![e.id] = LesserOf(@ + 1, MaxAttempts)]
    /\ UNCHANGED <<serverVars, online, storeVars, imageVars, app, running, hasSyncedOnce,
                   nextId, intent, fate, requested, arrived, voided, forgotten>>

\* Slip: a network error spends an attempt like any other.
UnreachableSpends(r) ==
    /\ ~online
    /\ run[r].pc = "wait" \/ (run[r].pc = "acked" /\ "lostReply" \in Faults)
    /\ \E e \in Earliest(run[r].todo) :
         outbox' = {IF x.id = e.id THEN RecordFailure(e, run[r].elapsed) ELSE x : x \in outbox}
    /\ run' = [run EXCEPT ![r] = Fetching]
    /\ UNCHANGED <<serverVars, online, posts, cursor, imageVars, app, running, hasSyncedOnce,
                   nextId, historyVars>>

\* NetworkError: the request never got through, or its answer was lost.  The
\* row is left as it is and the push stops.
LikeUnreachable(r) ==
    /\ ~online
    /\ run[r].pc = "wait" \/ (run[r].pc = "acked" /\ "lostReply" \in Faults)
    /\ run' = [run EXCEPT ![r] = Fetching]
    /\ UNCHANGED <<serverVars, online, storeVars, imageVars, app, running, hasSyncedOnce,
                   nextId, historyVars>>

\* Slip: the acknowledged state is left for the pull to bring.
AckNotApplied(r) ==
    /\ run[r].pc = "acked"
    /\ run' = [run EXCEPT ![r].pc = "applied"]
    /\ UNCHANGED <<serverVars, online, storeVars, imageVars, app, running, hasSyncedOnce,
                   nextId, historyVars>>

ApplyServerLike(r) ==
    /\ run[r].pc = "acked"
    /\ \E e \in Earliest(run[r].todo) :
         posts' = {IF row.id = e.post
                   THEN [row EXCEPT !.liked = run[r].ack.liked, !.count = run[r].ack.count]
                   ELSE row : row \in posts}
    /\ run' = [run EXCEPT ![r].pc = "applied"]
    /\ UNCHANGED <<serverVars, online, outbox, cursor, imageVars, app, running, hasSyncedOnce,
                   nextId, historyVars>>

DeleteSent(r) ==
    /\ run[r].pc = "applied"
    /\ \E e \in Earliest(run[r].todo) :
         /\ outbox' = {x \in outbox : x.id # e.id}
         /\ fate' = [fate EXCEPT ![e.id] = IF @ = "queued" THEN "sent" ELSE @]
         /\ Proceed(r, run[r].todo \ {e})
         /\ voided' = voided \cup Misordered(run[r].todo \ {e}, outbox')
    /\ UNCHANGED <<serverVars, online, posts, cursor, imageVars, app, running, hasSyncedOnce,
                   nextId, intent, arrived, refusals, forgotten>>

\* Slip: INSERT OR REPLACE, which brings a deleted row back.
RefusalUpserts(r) ==
    /\ run[r].pc = "refused"
    /\ \E e \in Earliest(run[r].todo) :
         LET failed == RecordFailure(e, run[r].elapsed)
         IN  /\ outbox' = {x \in outbox : x.id # e.id} \cup {failed}
             /\ Proceed(r, run[r].todo \ {e})
    /\ UNCHANGED <<serverVars, online, posts, cursor, imageVars, app, running, hasSyncedOnce,
                   nextId, intent, fate, arrived, refusals, voided, forgotten>>

\* UPDATE ... WHERE id: a row deleted meanwhile stays deleted.
RecordRefusal(r) ==
    /\ run[r].pc = "refused"
    /\ \E e \in Earliest(run[r].todo) :
         LET failed == RecordFailure(e, run[r].elapsed)
         IN  /\ outbox' = {IF x.id = e.id THEN failed ELSE x : x \in outbox}
             /\ Proceed(r, run[r].todo \ {e})
             /\ voided' = voided \cup {x.post : x \in {failed} \ Pending({failed})}
                                 \cup Misordered(run[r].todo \ {e}, outbox')
    /\ UNCHANGED <<serverVars, online, posts, cursor, imageVars, app, running, hasSyncedOnce,
                   nextId, intent, fate, arrived, refusals, forgotten>>

-----------------------------------------------------------------------------
(* Pull *)

\* Slip: the thumbnails of tombstones go as soon as the delta is there.
AnswerDropsImages(r) ==
    /\ run[r].pc = "fetch"
    /\ online
    /\ run' = [run EXCEPT ![r].pc = "merge",
                          ![r].incoming = DeltaPosts(run[r].since),
                          ![r].tombstoned = DeltaDeleted(run[r].since),
                          ![r].next = now]
    /\ thumbs' = thumbs \ DeltaDeleted(run[r].since)
    /\ UNCHANGED <<serverVars, online, storeVars, warming, strays, app, running, hasSyncedOnce,
                   nextId, historyVars>>

AnswerDelta(r) ==
    /\ run[r].pc = "fetch"
    /\ online
    /\ run' = [run EXCEPT ![r].pc = "merge",
                          ![r].incoming = DeltaPosts(run[r].since),
                          ![r].tombstoned = DeltaDeleted(run[r].since),
                          ![r].next = now]
    /\ UNCHANGED <<serverVars, online, storeVars, imageVars, app, running, hasSyncedOnce,
                   nextId, historyVars>>

\* Slip: a fetch that fails is repeated within the run.
FetchRetries(r) ==
    /\ \/ run[r].pc = "fetch" /\ (~online \/ "error" \in Faults)
       \/ run[r].pc = "merge" /\ ~online /\ "lostReply" \in Faults
    /\ run' = [run EXCEPT ![r].pc = "fetch"]
    /\ UNCHANGED <<serverVars, online, storeVars, imageVars, app, running, hasSyncedOnce,
                   nextId, historyVars>>

\* The fetch throws: offline, its answer lost, or the server's 500.
FetchFails(r) ==
    /\ \/ run[r].pc = "fetch" /\ (~online \/ "error" \in Faults)
       \/ run[r].pc = "merge" /\ ~online /\ "lostReply" \in Faults
    /\ EndRun(r, FALSE)
    /\ UNCHANGED <<serverVars, online, storeVars, imageVars, app, nextId, historyVars>>

\* applyMerge: one transaction deletes what was dropped and upserts the rest.
Upsert(rows, merged, dropped) ==
    merged \cup {row \in rows : row.id \notin dropped /\ row.id \notin PostIds(merged)}

Merge(r) ==
    LET merged  == MergeDelta(posts, run[r].incoming, run[r].tombstoned)
        dropped == DroppedIds(posts, merged)
    IN  /\ run[r].pc = "merge"
        /\ posts' = Upsert(posts, merged, dropped)
        /\ run' = [run EXCEPT ![r] =
                     [IdleRun EXCEPT !.pc = IF dropped = {} THEN "ensure" ELSE "drop",
                                     !.next = run[r].next,
                                     !.merged = PostIds(merged),
                                     !.dropped = dropped]]
        /\ forgotten' = (forgotten \cup PostIds(posts) \cup PostIds(run[r].incoming))
                            \ PostIds(merged)
        /\ UNCHANGED <<serverVars, online, outbox, cursor, imageVars, app, running,
                       hasSyncedOnce, nextId, intent, fate, requested, arrived,
                       refusals, voided>>

\* Slip: the files of the posts dropped stay.
KeepImages(r) ==
    /\ run[r].pc = "drop"
    /\ run' = [run EXCEPT ![r].pc = "orphans", ![r].dropped = {}]
    /\ UNCHANGED <<serverVars, online, storeVars, imageVars, app, running, hasSyncedOnce,
                   nextId, historyVars>>

DropImages(r) ==
    /\ run[r].pc = "drop"
    /\ thumbs' = thumbs \ run[r].dropped
    /\ strays' = strays \cup (run[r].dropped \cap warming)
    /\ run' = [run EXCEPT ![r].pc = "orphans", ![r].dropped = {}]
    /\ UNCHANGED <<serverVars, online, storeVars, warming, app, running, hasSyncedOnce,
                   nextId, historyVars>>

DropOrphans(r) ==
    /\ run[r].pc = "orphans"
    /\ LET gone == Orphans(outbox, run[r].merged)
       IN  /\ outbox' = outbox \ gone
           /\ fate' = Fated(gone, "orphaned")
           /\ voided' = voided \cup {e.post : e \in gone}
    /\ run' = [run EXCEPT ![r].pc = "ensure"]
    /\ UNCHANGED <<serverVars, online, posts, cursor, imageVars, app, running, hasSyncedOnce,
                   nextId, intent, requested, arrived, refusals, forgotten>>

\* What may be left of the images held after a batch of downloads: if they do
\* not fit, those used least recently go, whichever those are, until the rest
\* fit or only the batch is left.
EnforceBudget(held, batch) ==
    IF Cardinality(held) <= ImageBudget THEN {held}
    ELSE {kept \in SUBSET held :
            /\ batch \cap held \subseteq kept
            /\ \/ Cardinality(kept) = ImageBudget
               \/ Cardinality(kept) >= ImageBudget /\ kept = batch \cap held}

MaxParallelDownloads == 4

\* What may have been downloaded side by side.
Batches(keys) ==
    {batch \in SUBSET keys : batch # {} /\ Cardinality(batch) <= MaxParallelDownloads}

\* ensure downloads what is missing, batch after batch, the images of posts
\* held pushed out by later ones where they do not fit; a download that fails
\* is passed over.  Of what the screen has asked for, some is being fetched.
EnsureImages(r) ==
    /\ run[r].pc = "ensure"
    /\ \E inFlight \in SUBSET warming :
         LET missing == run[r].merged \ (thumbs \cup inFlight)
         IN  \/ missing = {} /\ UNCHANGED thumbs
             \/ \E got \in SUBSET missing, last \in Batches(missing) :
                  /\ got = missing \/ "download" \in Faults
                  /\ thumbs' \in EnforceBudget(thumbs \cup got, last)
    /\ run' = [run EXCEPT ![r].pc = "commit"]
    /\ UNCHANGED <<serverVars, online, storeVars, warming, strays, app, running, hasSyncedOnce,
                   nextId, historyVars>>

\* Slip: the cursor is the time at the end of the sync.
SaveCursorNow(r) ==
    /\ run[r].pc = "commit"
    /\ cursor' = now
    /\ EndRun(r, TRUE)
    /\ UNCHANGED <<serverVars, online, posts, outbox, imageVars, app, nextId, historyVars>>

SaveCursor(r) ==
    /\ run[r].pc = "commit"
    /\ cursor' = run[r].next
    /\ EndRun(r, TRUE)
    /\ UNCHANGED <<serverVars, online, posts, outbox, imageVars, app, nextId, historyVars>>

-----------------------------------------------------------------------------
(* The repository's callers: the user, the triggers, the life of the app *)

\* Expired posts go, and their thumbnails with them.
PruneExpired ==
    LET expired == {row \in posts : IsExpired(row)}
    IN  /\ posts' = posts \ expired
        /\ thumbs' = thumbs \ PostIds(expired)
        /\ forgotten' = forgotten \cup PostIds(expired)

\* bootstrap, when the app is opened.
Launch ==
    /\ app = "closed"
    /\ app' = "open"
    /\ PruneExpired
    /\ Sync(online)
    /\ UNCHANGED <<serverVars, online, outbox, cursor, warming, strays, nextId,
                   intent, fate, requested, arrived, refusals, voided>>

\* Return to foreground, background task, pull to refresh, first observation.
TriggerSync ==
    /\ app = "open"
    /\ online
    /\ Sync(online)
    /\ UNCHANGED <<serverVars, online, storeVars, imageVars, app, nextId, historyVars>>

ToggleLike(row) ==
    LET forPost == ForPost(outbox, row.id)
        kind    == NextLikeAction(DeriveLikeState(row, forPost))
        entry   == [id |-> nextId, post |-> row.id, kind |-> kind, attempts |-> 0,
                    since |-> 0, status |-> "pending"]
        plan    == PlanEnqueue(forPost, entry)
    IN  /\ app = "open"
        /\ nextId <= MaxTaps \/ plan.insert = {}
        /\ outbox' = (outbox \ plan.delete) \cup plan.insert
        /\ nextId' = IF plan.insert = {} THEN nextId ELSE nextId + 1
        /\ intent' = [intent EXCEPT ![row.id] = (kind = "like")]
        /\ fate' = IF plan.insert = {} THEN Fated(plan.delete, "cancelled")
                   ELSE Fated(plan.insert, "queued")
        /\ voided' = voided \cup {e.post : e \in {f \in plan.delete :
                                               f.attempts = 0 /\ f.id \in requested}}
        /\ Sync(online)
        /\ UNCHANGED <<serverVars, online, posts, cursor, imageVars, app,
                       requested, arrived, refusals, forgotten>>

\* The items the screen has no image of, nor asked one for.
Missing == {i.id : i \in {j \in FeedView.items : ~j.hasThumb}} \ warming

\* The feed screen after a render, or the debug screen's button: nobody waits
\* for these downloads, and no lock covers them.
WarmImages ==
    /\ "screen" \in Faults
    /\ app = "open" /\ Missing # {}
    /\ warming' = warming \cup Missing
    /\ UNCHANGED <<serverVars, online, storeVars, thumbs, strays, memoryVars, nextId,
                   historyVars>>

\* The last download of a batch to end is the one after which the budget is
\* enforced.
ThumbArrives(p) ==
    /\ p \in warming
    /\ warming' = warming \ {p}
    /\ \E held \in {thumbs \cup {p}} \cup (IF "download" \in Faults THEN {thumbs} ELSE {}) :
         \/ warming' # {} /\ thumbs' = held
         \/ \E batch \in Batches(Posts \ warming') :
              p \in batch /\ thumbs' \in EnforceBudget(held, batch)
    /\ UNCHANGED <<serverVars, online, storeVars, strays, memoryVars, nextId, historyVars>>

\* The debug screen's "clear images".
ClearImages ==
    /\ "clear" \in Faults
    /\ app = "open"
    /\ thumbs' = {}
    /\ UNCHANGED <<serverVars, online, storeVars, warming, strays, memoryVars, nextId,
                   historyVars>>

\* The debug screen's "clear everything": the three tables, then the images.
ClearAll ==
    /\ "clear" \in Faults
    /\ app = "open"
    /\ posts' = {}
    /\ outbox' = {}
    /\ cursor' = NoCursor
    /\ thumbs' = {}
    /\ strays' = strays \cup warming
    /\ hasSyncedOnce' = FALSE
    /\ fate' = Fated(outbox, "cleared")
    /\ voided' = voided \cup {e.post : e \in outbox}
    /\ forgotten' = forgotten \cup PostIds(posts)
    /\ UNCHANGED <<serverVars, online, warming, app, running, run, nextId,
                   intent, requested, arrived, refusals>>

GoOffline ==
    /\ "outage" \in Faults
    /\ online
    /\ online' = FALSE
    /\ UNCHANGED <<serverVars, storeVars, imageVars, memoryVars, nextId, historyVars>>

\* The offline -> online edge is itself a trigger.
GoOnline ==
    /\ ~online
    /\ online' = TRUE
    /\ Sync(app = "open")
    /\ UNCHANGED <<serverVars, storeVars, imageVars, app, nextId, historyVars>>

\* The process is killed: what was in memory is gone, a request in flight
\* with it; the tables and the image files stay.
Crash ==
    /\ "crash" \in Faults
    /\ app = "open"
    /\ app' = "closed"
    /\ running' = {}
    /\ warming' = {}
    /\ run' = [r \in Runs |-> IdleRun]
    /\ hasSyncedOnce' = FALSE
    /\ UNCHANGED <<serverVars, online, storeVars, thumbs, strays, nextId, historyVars>>

\* Time passes.  Once the clock has reached MaxNow all that follows happens
\* in one and the same millisecond, while the ages go on growing.
Tick ==
    /\ now' = LesserOf(now + 1, MaxNow)
    /\ posts' = {[row EXCEPT !.age = Older(@, TTL + 1)] : row \in posts}
    /\ outbox' = {IF e.attempts = 0 THEN e ELSE [e EXCEPT !.since = Older(@, MaxDelay)] :
                      e \in outbox}
    /\ run' = [r \in Runs |-> IF run[r].pc \in PushSteps
                              THEN [run[r] EXCEPT !.elapsed = Older(@, MaxDelay)]
                              ELSE run[r]]
    /\ UNCHANGED <<server, online, cursor, imageVars, app, running, hasSyncedOnce,
                   nextId, historyVars>>

-----------------------------------------------------------------------------

PushStep(r) ==
    \/ PlanPush(r) \/ AcceptLike(r) \/ RefuseLike(r) \/ LikeUnreachable(r)
    \/ ApplyServerLike(r) \/ DeleteSent(r) \/ RecordRefusal(r)

PullStep(r) ==
    \/ AnswerDelta(r) \/ FetchFails(r) \/ Merge(r)
    \/ DropImages(r) \/ DropOrphans(r) \/ EnsureImages(r) \/ SaveCursor(r)

\* Pulling to refresh, trying again, the heart of a post.
FeedScreen == TriggerSync \/ \E row \in posts : ToggleLike(row)

\* The buttons that clear what the client holds; those that sync and warm the
\* images do as the feed screen does.
DebugScreen == ClearAll \/ ClearImages

\* The switch and the buttons that act on the server and on the way to it.
ServerControls ==
    \/ GoOffline \/ GoOnline
    \/ \E p \in Posts : DeletePost(p) \/ PublishPost(p)

UserStep == Launch \/ FeedScreen \/ DebugScreen

ScreenStep == WarmImages \/ \E p \in warming : ThumbArrives(p)

EnvironmentStep == ServerControls \/ Crash \/ Tick

Next ==
    \/ \E r \in Runs : PushStep(r) \/ PullStep(r)
    \/ UserStep
    \/ ScreenStep
    \/ EnvironmentStep

Spec == Init /\ [][Next]_vars

\* The event loop resumes every continuation, a request always settles one
\* way or the other, time passes, and the periodic task keeps asking for a
\* sync.  Nothing is assumed of the user, of the network or of the process.
Fairness ==
    /\ WF_vars(Tick)
    /\ WF_vars(TriggerSync)
    /\ \A r \in Runs : WF_vars(PushStep(r) \/ PullStep(r))

FairSpec == Spec /\ Fairness

=============================================================================
