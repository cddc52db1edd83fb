----------------------- MODULE OfflineFeedProperties -----------------------
(***************************************************************************)
(* What the offline feed promises, each property with the exceptions named *)
(* under which the code does break the promise of its comments.            *)
(***************************************************************************)
EXTENDS OfflineFeed

Row(p) == {row \in posts : row.id = p}

PendingIds == {e.id : e \in Pending(outbox)}

LivePosts == {p \in Posts : server[p].state = "live"}

-----------------------------------------------------------------------------
(* Writes *)

\* The promise in SyncEngine.running is the lock (ADR-012): whatever the
\* triggers, a run that is under way is the one the lock names.
OneRun == \A r \in Runs : run[r].pc # "idle" => running = {r}

\* Every row of the outbox is unique and accounted for: a row leaves the table
\* only because the server carried it out, the user took it back, its post is
\* gone or everything was cleared - never because a step went wrong half way.
NoWriteLost ==
    /\ \A i \in Ids : (fate[i] = "queued") <=> (\E e \in outbox : e.id = i)
    /\ \A i \in Ids : fate[i] = "sent" => \E p \in Posts : i \in arrived[p]
    /\ \A e, f \in outbox : e.id = f.id => e = f

\* Only an answer of the server spends an attempt (ADR-005, rule 3), across
\* outages, lost answers, crashes and writes taken from stale copies of a
\* row: a row is given up only after MaxAttempts refusals.
OnlyRefusalsSpendAttempts ==
    \A e \in outbox : /\ e.attempts <= refusals[e.id]
                      /\ e.status = "dead" => refusals[e.id] >= MaxAttempts

\* A like is counted once however often its request is repeated: the server's
\* count always follows its like state.
LikeCountedOnce ==
    \A p \in Posts : server[p].count = IF server[p].liked THEN 1 ELSE 0

\* What the screen shows, and what an observer of the repository is given, is
\* what the user last asked for, at every moment of a sync, unless a write of
\* that post was given up, or overtaken, or taken back with its request
\* already gone.
ShownIsAsked ==
    \A item \in FeedView.items \cup Snapshot.items :
        item.id \in voided \/ item.liked = intent[item.id]

\* With nothing pending for a post, the server has the like state the user
\* last asked for, under the same exceptions.
AskedReachesServer ==
    \A p \in LivePosts :
        \/ p \in voided
        \/ \E e \in Pending(outbox) : e.post = p
        \/ server[p].liked = intent[p]

-----------------------------------------------------------------------------
(* The feed *)

\* The row is the server's copy of the post, as of its last change.
Mirrors(row) ==
    LET post == server[row.id]
    IN  <<row.updatedAt, row.liked, row.count>> = <<post.at, post.liked, post.count>>

\* Nothing is behind the cursor: what the server changed before the instant
\* the cursor names is already in the local rows, whatever crash, outage,
\* repeated delivery or tap came between; the exceptions are the posts the
\* client itself let go of.
CursorCoversChanges ==
    cursor # NoCursor =>
        \A p \in Posts : server[p].at < cursor =>
            /\ server[p].state = "deleted" => Row(p) = {}
            /\ server[p].state = "live" /\ p \notin forgotten =>
                 \E row \in Row(p) : Mirrors(row)

\* The newest MaxPosts posts the server has: what the feed is for.
SyncedFeed ==
    {p \in LivePosts : Cardinality({q \in LivePosts : q > p}) < MaxPosts}

\* A run about to store its cursor, with nothing changed on the server since
\* it fetched.
UpToDate(r) ==
    run[r].pc = "commit" /\ \A p \in Posts : server[p].at < run[r].next

\* When a sync ends the feed is the newest posts of the server, unless one of
\* them was let go of earlier.
SyncedUnlessForgotten ==
    \A r \in Runs : UpToDate(r) =>
        SyncedFeed \cap forgotten # {} \/ PostIds(posts) = SyncedFeed

\* The image of a post that is held goes only where it must: because the user
\* clears the images, or because the budget is short, and then no more go than
\* leaves it full.  The images of posts a merge drops go after the merge is
\* stored, so that a kill in between never leaves a row without the image it
\* had.
HeldImagesGoForRoom ==
    [][\/ ClearImages
       \/ thumbs \ thumbs' \subseteq Posts \ PostIds(posts')
       \/ Cardinality(thumbs') >= ImageBudget]_vars

\* Between runs no thumbnail is left of a post that is not held, as long as
\* the process is never killed and nothing is cleared under a run - but for a
\* post that was dropped while the screen was having its thumbnail fetched.
NoOrphanThumbs ==
    running = {} => thumbs \subseteq PostIds(posts) \cup strays

-----------------------------------------------------------------------------
(* What must eventually happen *)

\* The client stays open and connected from some moment on.
SettledClient == <>[](app = "open" /\ online)

\* Every run of the engine ends, so that the lock is always let go of: a crash
\* or an outage in the middle of a run never blocks the syncs that follow.
RunsEnd == \A r \in Runs : run[r].pc # "idle" ~> run[r].pc = "idle"

\* A write is not pending for ever: backoff, skipped syncs and lost answers
\* only delay it.
WritesSettle ==
    SettledClient => \A i \in Ids : i \in PendingIds ~> i \notin PendingIds

\* The feed ends up the newest posts of the server, unless one of them was let
\* go of earlier, and the loading screen is gone for good.
FeedConverges ==
    SettledClient =>
        <>[](/\ SyncedFeed \cap forgotten # {} \/ PostIds(posts) = SyncedFeed
             /\ "cold-loading" \notin {Snapshot.status, FeedView.status})

=============================================================================
