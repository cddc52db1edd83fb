-------------------------------- MODULE Post --------------------------------
(***************************************************************************)
(* The two rules that decide what the user sees (domain/post.ts): the like *)
(* state shown is the server's overlaid with the pending outbox, and a     *)
(* delta from the server is merged into the rows held locally.             *)
(*                                                                         *)
(* A row keeps the fields the rules read: updatedAt, the like state of the *)
(* server, and cachedAt as an age in ticks, capped one above the TTL.      *)
(* createdAt is the post's number.  deletedAt is left out: no path of the  *)
(* code ever stores a row with one.                                        *)
(***************************************************************************)
EXTENDS Outbox, Folds

CONSTANTS
    MaxPosts,  \* MAX_POSTS, how many posts the feed keeps
    TTL        \* TTL_MS in ticks

ASSUME FeedAssumption == MaxPosts \in Nat \ {0} /\ TTL \in Nat

RemotePost == [id : Posts, updatedAt : Nat, liked : BOOLEAN, count : Nat]

LocalPost == [id : Posts, updatedAt : Nat, liked : BOOLEAN, count : Nat,
              age : 0 .. TTL + 1]

PostIds(rows) == {r.id : r \in rows}

-----------------------------------------------------------------------------

\* One pending row over a like state: liking what is liked moves nothing.
Overlay(e, view) ==
    IF e.kind = "like" /\ ~view.liked
    THEN [liked |-> TRUE, count |-> view.count + 1]
    ELSE IF e.kind = "unlike" /\ view.liked
    THEN [liked |-> FALSE, count |-> IF view.count = 0 THEN 0 ELSE view.count - 1]
    ELSE view

\* The like state the user sees: every pending row in order of creation.
DeriveLikeState(post, entries) ==
    MapThenFoldSet(Overlay,
                   [liked |-> post.liked, count |-> post.count],
                   LAMBDA e : e,
                   LAMBDA S : CHOOSE e \in S : e \in Latest(S),
                   Pending(entries))

NextLikeAction(view) == IF view.liked THEN "unlike" ELSE "like"

-----------------------------------------------------------------------------

IsExpired(post) == post.age > TTL

VisiblePosts(rows) == {r \in rows : ~IsExpired(r)}

\* The n rows published last.
Newest(rows, n) ==
    {r \in rows : Cardinality({s \in rows : s.id > r.id}) < n}

Cached(remote) ==
    [id |-> remote.id, updatedAt |-> remote.updatedAt, liked |-> remote.liked,
     count |-> remote.count, age |-> 0]

\* Last write wins: a local row is kept against an older copy of it.
Supersedes(row, remote) == row.id = remote.id /\ row.updatedAt > remote.updatedAt

\* The rows after a delta: local ones that are neither tombstoned nor
\* replaced, and those received, all confirmed now, trimmed to the newest.
MergeDelta(local, incoming, tombstoned) ==
    LET taken  == {i \in incoming : /\ i.id \notin tombstoned
                                    /\ ~\E l \in local : Supersedes(l, i)}
        kept   == {l \in local : /\ l.id \notin tombstoned
                                 /\ l.id \notin PostIds(taken)}
    IN  Newest({Cached(i) : i \in taken} \cup {[l EXCEPT !.age = 0] : l \in kept},
               MaxPosts)

DroppedIds(local, merged) == PostIds(local) \ PostIds(merged)

=============================================================================
