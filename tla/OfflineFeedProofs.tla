-------------------------- MODULE OfflineFeedProofs --------------------------
(***************************************************************************)
(* Theorems about the offline feed, for every number of posts, taps and    *)
(* runs, every retry policy and every set of faults: types, one run of the *)
(* engine at a time, images that go only for room, none left behind;       *)
(* and what the pending rows of a post make of it, in whatever way they    *)
(* are added, taken back and carried out.                                  *)
(***************************************************************************)
EXTENDS OfflineFeedProperties, SumTheorems, TLAPS

-----------------------------------------------------------------------------
(* What the helpers return *)

\* An age stays within its cap.
LEMMA OlderType ==
    ASSUME NEW age \in Nat, NEW cap \in Nat
    PROVE  Older(age, cap) \in 0 .. cap
BY DEF Older, LesserOf

\* A refusal leaves a row a row.
LEMMA RecordFailureType ==
    ASSUME NEW e \in OutboxEntry, NEW elapsed \in Nat
    PROVE  /\ RecordFailure(e, elapsed) \in OutboxEntry
           /\ RecordFailure(e, elapsed).id = e.id
           /\ RecordFailure(e, elapsed).post = e.post
<1> DEFINE attempts == e.attempts + 1
           status == IF attempts >= MaxAttempts THEN "dead" ELSE "pending"
<1>1. attempts \in Nat /\ status \in OutboxStatus
  BY DEF OutboxEntry, OutboxStatus
<1>2. RecordFailure(e, elapsed) =
        [e EXCEPT !.attempts = attempts, !.since = elapsed, !.status = status]
  BY DEF RecordFailure
<1> HIDE DEF attempts, status
<1> QED BY <1>1, <1>2 DEF OutboxEntry

\* A merge yields well-formed rows.
LEMMA MergeDeltaType ==
    ASSUME NEW local \in SUBSET LocalPost, NEW incoming \in SUBSET RemotePost,
           NEW tombstoned
    PROVE  MergeDelta(local, incoming, tombstoned) \subseteq LocalPost
<1>1. \A i \in incoming : Cached(i) \in LocalPost
  BY FeedAssumption DEF Cached, RemotePost, LocalPost
<1>2. \A l \in local : [l EXCEPT !.age = 0] \in LocalPost
  BY FeedAssumption DEF LocalPost
<1> QED
  BY <1>1, <1>2 DEF MergeDelta, Newest

\* The images left are some of those held, and go only as far as the budget.
LEMMA EvictionLeaves ==
    ASSUME NEW held, NEW batch, NEW kept \in EnforceBudget(held, batch)
    PROVE  kept \subseteq held /\ (kept = held \/ Cardinality(kept) >= ImageBudget)
<1>1. ImageBudget \in Nat
  BY InstanceAssumption
<1>2. CASE Cardinality(held) <= ImageBudget
  BY <1>2 DEF EnforceBudget
<1>3. CASE ~(Cardinality(held) <= ImageBudget)
  <2>1. kept \subseteq held
    BY <1>3 DEF EnforceBudget
  <2>2. Cardinality(kept) = ImageBudget \/ Cardinality(kept) >= ImageBudget
    BY <1>3 DEF EnforceBudget
  <2>3. Cardinality(kept) = ImageBudget => Cardinality(kept) >= ImageBudget
    BY <1>1
  <2> QED BY <2>1, <2>2, <2>3
<1> QED BY <1>2, <1>3

\* What an ensure of a run does to the images.
LEMMA EnsureLeaves ==
    ASSUME NEW r, EnsureImages(r)
    PROVE  /\ thumbs' \subseteq thumbs \cup run[r].merged
           /\ thumbs \subseteq thumbs' \/ Cardinality(thumbs') >= ImageBudget
<1>1. PICK inFlight \in SUBSET warming :
        LET missing == run[r].merged \ (thumbs \cup inFlight)
        IN  \/ missing = {} /\ UNCHANGED thumbs
            \/ \E got \in SUBSET missing, last \in Batches(missing) :
                 /\ got = missing \/ "download" \in Faults
                 /\ thumbs' \in EnforceBudget(thumbs \cup got, last)
  BY DEF EnsureImages
<1>2. CASE UNCHANGED thumbs
  BY <1>2
<1>3. CASE \E got \in SUBSET run[r].merged : \E last :
             thumbs' \in EnforceBudget(thumbs \cup got, last)
  <2>1. PICK got \in SUBSET run[r].merged :
               \E last : thumbs' \in EnforceBudget(thumbs \cup got, last)
    BY <1>3
  <2>2. /\ thumbs' \subseteq thumbs \cup got
        /\ thumbs' = thumbs \cup got \/ Cardinality(thumbs') >= ImageBudget
    BY <2>1, EvictionLeaves
  <2> QED BY <2>2
<1> QED BY <1>1, <1>2, <1>3

\* What the end of a download of the screen does to them.
LEMMA ArrivalLeaves ==
    ASSUME NEW p \in warming, ThumbArrives(p)
    PROVE  /\ thumbs' \subseteq thumbs \cup {p}
           /\ thumbs \subseteq thumbs' \/ Cardinality(thumbs') >= ImageBudget
<1>1. PICK held \in {thumbs, thumbs \cup {p}} :
        thumbs' = held \/ \E batch : thumbs' \in EnforceBudget(held, batch)
  BY DEF ThumbArrives
<1>2. /\ thumbs' \subseteq held
      /\ thumbs' = held \/ Cardinality(thumbs') >= ImageBudget
  BY <1>1, EvictionLeaves
<1> QED BY <1>1, <1>2

\* The ids of well-formed rows are posts.
LEMMA PostIdsType ==
    ASSUME NEW rows \in SUBSET (LocalPost \cup RemotePost)
    PROVE  PostIds(rows) \subseteq Posts
BY DEF PostIds, LocalPost, RemotePost

\* setLike leaves a post of the server a post.
LEMMA SetLikeType ==
    ASSUME NEW post \in ServerPost, NEW liked \in BOOLEAN, now \in 0 .. MaxNow
    PROVE  SetLike(post, liked) \in ServerPost
<1>1. CASE liked = post.liked
  BY <1>1 DEF SetLike
<1>2. CASE liked # post.liked
  <2> DEFINE count == IF liked THEN post.count + 1
                      ELSE IF post.count = 0 THEN 0 ELSE post.count - 1
  <2>1. count \in Nat
    BY DEF ServerPost
  <2>2. SetLike(post, liked) =
          [post EXCEPT !.liked = liked, !.at = now, !.count = count]
    BY <1>2 DEF SetLike
  <2> HIDE DEF count
  <2> QED BY <2>1, <2>2 DEF ServerPost
<1> QED BY <1>1, <1>2

-----------------------------------------------------------------------------
(* Types *)

LEMMA IdleRunType == IdleRun \in Run
BY RetryPolicyAssumption, InstanceAssumption DEF IdleRun, Run, LikeView, Cursor

\* What Proceed does to the runs and to the requests that have left.
LEMMA ProceedType ==
    ASSUME TypeOK, NEW r \in Runs, NEW todo \in SUBSET OutboxEntry, Proceed(r, todo)
    PROVE  run' \in [Runs -> Run] /\ requested' \subseteq Ids
<1>1. Fetching \in Run
  BY IdleRunType DEF Fetching, TypeOK, Run, PullSteps, IdleRun
<1>2. [run[r] EXCEPT !.pc = "wait", !.todo = todo] \in Run
  <2>1. run[r] \in Run
    BY DEF TypeOK
  <2> QED BY <2>1 DEF Run, PushSteps
<1>3. run' \in [Runs -> Run]
  <2>1. run' = [run EXCEPT ![r] = IF todo = {} THEN Fetching
                                    ELSE [run[r] EXCEPT !.pc = "wait", !.todo = todo]]
    BY DEF Proceed
  <2>2. run \in [Runs -> Run]
    BY DEF TypeOK
  <2> QED BY <1>1, <1>2, <2>1, <2>2
<1>4. requested' \subseteq Ids
  BY DEF Proceed, TypeOK, OutboxEntry, Earliest
<1> QED BY <1>3, <1>4

\* What an update of a few fields does to a run.
LEMMA RunUpdates ==
    ASSUME TypeOK, NEW r \in Runs,
           NEW pc \in {"idle", "push"} \cup PushSteps \cup PullSteps
    PROVE  /\ [run EXCEPT ![r].pc = pc] \in [Runs -> Run]
           /\ \A ack \in LikeView :
                [run EXCEPT ![r].pc = pc, ![r].ack = ack] \in [Runs -> Run]
           /\ [run EXCEPT ![r].pc = pc, ![r].dropped = {}] \in [Runs -> Run]
           /\ [run EXCEPT ![r] = IdleRun] \in [Runs -> Run]
<1>1. run \in [Runs -> Run]
  BY DEF TypeOK
<1> QED BY <1>1, IdleRunType DEF Run

\* Starting a run, or letting the call be dropped, keeps the types.
LEMMA SyncType ==
    ASSUME TypeOK, NEW connected, Sync(connected)
    PROVE  running' \subseteq Runs /\ run' \in [Runs -> Run] /\ hasSyncedOnce' \in BOOLEAN
<1>1. CASE UNCHANGED <<running, run>>
  BY <1>1 DEF Sync, EngineSync, TypeOK
<1>2. CASE \E r \in Runs : running' = {r} /\ run' = [run EXCEPT ![r].pc = "push"]
  <2>1. PICK r \in Runs : running' = {r} /\ run' = [run EXCEPT ![r].pc = "push"]
    BY <1>2
  <2>2. run' \in [Runs -> Run]
    BY <2>1, RunUpdates
  <2> QED BY <2>1, <2>2 DEF Sync, EngineSync, TypeOK
<1> QED BY <1>1, <1>2 DEF Sync, EngineSync

LEMMA EndRunType ==
    ASSUME TypeOK, NEW r \in Runs, NEW ok \in BOOLEAN, EndRun(r, ok)
    PROVE  running' \subseteq Runs /\ run' \in [Runs -> Run] /\ hasSyncedOnce' \in BOOLEAN
BY IdleRunType DEF EndRun, TypeOK

LEMMA FatedType ==
    ASSUME TypeOK, NEW gone, NEW end \in Fates
    PROVE  Fated(gone, end) \in [Ids -> Fates]
BY DEF Fated, TypeOK

\* The posts given up with a set of rows are posts.
LEMMA VoidedType ==
    ASSUME TypeOK, NEW rows \in SUBSET OutboxEntry
    PROVE  voided \cup {e.post : e \in rows} \subseteq Posts
BY DEF TypeOK, OutboxEntry

LEMMA MisorderedType ==
    ASSUME NEW todo \in SUBSET OutboxEntry, NEW entries
    PROVE  Misordered(todo, entries) \subseteq Posts
BY DEF Misordered, Earliest, OutboxEntry

LEMMA InitTypeOK == Init => TypeOK
<1> SUFFICES ASSUME Init PROVE TypeOK
  OBVIOUS
<1>1. run \in [Runs -> Run]
  BY IdleRunType DEF Init
<1>2. server \in [Posts -> ServerPost]
  BY InstanceAssumption DEF Init, ServerPost
<1>3. now \in 0 .. MaxNow /\ nextId \in 1 .. MaxTaps + 1
  BY InstanceAssumption, RetryPolicyAssumption DEF Init
<1>4. refusals \in [Ids -> 0 .. MaxAttempts] /\ fate \in [Ids -> Fates]
  BY RetryPolicyAssumption DEF Init, Fates
<1> QED BY <1>1, <1>2, <1>3, <1>4 DEF Init, TypeOK, Cursor

LEMMA PushTypeOK ==
    ASSUME TypeOK, NEW r \in Runs, PushStep(r)
    PROVE  TypeOK'
<1> USE DEF serverVars, storeVars, imageVars, memoryVars, historyVars
<1> DEFINE todo == run[r].todo
<1>0. run[r] \in Run /\ todo \in SUBSET OutboxEntry
  BY DEF TypeOK, Run
<1>1. CASE PlanPush(r)
  <2> DEFINE gone == Orphans(outbox, PostIds(posts))
             keep == outbox \ gone
             chosen == SelectSendable(keep)
  <2>1. /\ gone \in SUBSET OutboxEntry
        /\ keep \in SUBSET OutboxEntry
        /\ chosen \in SUBSET OutboxEntry
    BY DEF TypeOK, Orphans, SelectSendable
  <2>2. run' \in [Runs -> Run] /\ requested' \subseteq Ids
    BY <1>1, <2>1, ProceedType DEF PlanPush
  <2>3. fate' \in [Ids -> Fates]
    BY <1>1, FatedType DEF PlanPush, Fates
  <2>4. voided' \subseteq Posts
    BY <1>1, <2>1, VoidedType, MisorderedType DEF PlanPush
  <2>5. outbox' \subseteq OutboxEntry
    BY <1>1, <2>1 DEF PlanPush
  <2> QED BY <1>1, <2>2, <2>3, <2>4, <2>5 DEF PlanPush, TypeOK
<1>2. CASE AcceptLike(r)
  <2>1. PICK e \in Earliest(todo) :
          /\ server' = [server EXCEPT ![e.post] = SetLike(@, e.kind = "like")]
          /\ run' = [run EXCEPT ![r].pc = "acked",
                                ![r].ack = [liked |-> server'[e.post].liked,
                                            count |-> server'[e.post].count]]
          /\ arrived' = [arrived EXCEPT ![e.post] = @ \cup {e.id}]
    BY <1>2 DEF AcceptLike
  <2>2. e.post \in Posts /\ e.id \in Ids
    BY <1>0 DEF Earliest, OutboxEntry
  <2>3. SetLike(server[e.post], e.kind = "like") \in ServerPost
    BY <2>2, SetLikeType DEF TypeOK
  <2>4. server' \in [Posts -> ServerPost]
    BY <2>1, <2>3 DEF TypeOK
  <2>5. [liked |-> server'[e.post].liked, count |-> server'[e.post].count] \in LikeView
    BY <2>2, <2>4 DEF ServerPost, LikeView
  <2>6. run' \in [Runs -> Run]
    BY <2>1, <2>5, RunUpdates DEF PushSteps
  <2>7. arrived' \in [Posts -> SUBSET Ids]
    BY <2>1, <2>2 DEF TypeOK
  <2> QED BY <1>2, <2>4, <2>6, <2>7 DEF AcceptLike, TypeOK
<1>3. CASE RefuseLike(r)
  <2>1. PICK e \in Earliest(todo) :
          /\ run' = [run EXCEPT ![r].pc = "refused"]
          /\ refusals' = [refusals EXCEPT ![e.id] = LesserOf(@ + 1, MaxAttempts)]
    BY <1>3 DEF RefuseLike
  <2>2. run' \in [Runs -> Run]
    BY <2>1, RunUpdates DEF PushSteps
  <2>3. e.id \in Ids
    BY <1>0 DEF Earliest, OutboxEntry
  <2>4. \A n \in 0 .. MaxAttempts : LesserOf(n + 1, MaxAttempts) \in 0 .. MaxAttempts
    BY RetryPolicyAssumption DEF LesserOf
  <2>5. refusals' \in [Ids -> 0 .. MaxAttempts]
    BY <2>1, <2>3, <2>4 DEF TypeOK
  <2> QED BY <1>3, <2>2, <2>5 DEF RefuseLike, TypeOK
<1>4. CASE LikeUnreachable(r)
  <2>1. Fetching \in Run
    BY IdleRunType DEF Fetching, TypeOK, Run, PullSteps, IdleRun
  <2>2. run' \in [Runs -> Run]
    BY <1>4, <2>1 DEF LikeUnreachable, TypeOK
  <2> QED BY <1>4, <2>2 DEF LikeUnreachable, TypeOK
<1>5. CASE ApplyServerLike(r)
  <2>1. run' \in [Runs -> Run]
    BY <1>5, RunUpdates DEF ApplyServerLike, PushSteps
  <2>2. run[r].ack.liked \in BOOLEAN /\ run[r].ack.count \in Nat
    BY <1>0 DEF Run, LikeView
  <2>3. \A row \in posts :
          [row EXCEPT !.liked = run[r].ack.liked, !.count = run[r].ack.count] \in LocalPost
    BY <2>2 DEF TypeOK, LocalPost
  <2>4. posts' \subseteq LocalPost
    BY <1>5, <2>3 DEF ApplyServerLike, TypeOK
  <2> QED BY <1>5, <2>1, <2>4 DEF ApplyServerLike, TypeOK
<1>6. CASE DeleteSent(r)
  <2>1. PICK e \in Earliest(todo) :
          /\ outbox' = {x \in outbox : x.id # e.id}
          /\ fate' = [fate EXCEPT ![e.id] = IF @ = "queued" THEN "sent" ELSE @]
          /\ Proceed(r, todo \ {e})
          /\ voided' = voided \cup Misordered(todo \ {e}, outbox')
    BY <1>6 DEF DeleteSent
  <2>2. run' \in [Runs -> Run] /\ requested' \subseteq Ids
    BY <1>0, <2>1, ProceedType
  <2>3. fate' \in [Ids -> Fates]
    BY <2>1 DEF TypeOK, Fates
  <2>4. voided' \subseteq Posts
    BY <1>0, <2>1, MisorderedType DEF TypeOK
  <2> QED BY <1>6, <2>1, <2>2, <2>3, <2>4 DEF DeleteSent, TypeOK
<1>7. CASE RecordRefusal(r)
  <2>1. PICK e \in Earliest(todo) :
          /\ outbox' = {IF x.id = e.id THEN RecordFailure(e, run[r].elapsed) ELSE x :
                            x \in outbox}
          /\ Proceed(r, todo \ {e})
          /\ voided' = voided \cup {x.post : x \in {RecordFailure(e, run[r].elapsed)}
                                               \ Pending({RecordFailure(e, run[r].elapsed)})}
                              \cup Misordered(todo \ {e}, outbox')
    BY <1>7 DEF RecordRefusal
  <2>2. run[r].elapsed \in Nat /\ e \in OutboxEntry
    BY <1>0, RetryPolicyAssumption DEF Run, Earliest
  <2>3. RecordFailure(e, run[r].elapsed) \in OutboxEntry
    BY <2>2, RecordFailureType
  <2>4. run' \in [Runs -> Run] /\ requested' \subseteq Ids
    BY <1>0, <2>1, ProceedType
  <2>5. outbox' \subseteq OutboxEntry
    BY <2>1, <2>3 DEF TypeOK
  <2>6. voided' \subseteq Posts
    BY <1>0, <2>1, <2>3, VoidedType, MisorderedType
  <2> QED BY <1>7, <2>4, <2>5, <2>6 DEF RecordRefusal, TypeOK
<1> QED
  BY <1>1, <1>2, <1>3, <1>4, <1>5, <1>6, <1>7 DEF PushStep

LEMMA PullTypeOK ==
    ASSUME TypeOK, NEW r \in Runs, PullStep(r)
    PROVE  TypeOK'
<1> USE DEF serverVars, storeVars, imageVars, memoryVars, historyVars
<1>0. run[r] \in Run
  BY DEF TypeOK
<1>1. CASE AnswerDelta(r)
  <2>1. DeltaPosts(run[r].since) \subseteq RemotePost
    BY InstanceAssumption DEF DeltaPosts, RemotePost, TypeOK, ServerPost
  <2>2. DeltaDeleted(run[r].since) \subseteq Posts
    BY DEF DeltaDeleted
  <2>3. run' \in [Runs -> Run]
    <3> DEFINE pc == "merge"
               incoming == DeltaPosts(run[r].since)
               tombstoned == DeltaDeleted(run[r].since)
               answered == [run[r] EXCEPT !.pc = pc, !.incoming = incoming,
                                          !.tombstoned = tombstoned, !.next = now]
    <3>1. run' = [run EXCEPT ![r] = answered]
      BY <1>1 DEF AnswerDelta, TypeOK
    <3>2. pc \in PullSteps /\ incoming \in SUBSET RemotePost /\ tombstoned \in SUBSET Posts
      BY <2>1, <2>2 DEF PullSteps
    <3>3. now \in 0 .. MaxNow
      BY DEF TypeOK
    <3> HIDE DEF pc, incoming, tombstoned
    <3>4. answered \in Run
      BY <1>0, <3>2, <3>3 DEF Run
    <3> QED BY <3>1, <3>4 DEF TypeOK
  <2> QED BY <1>1, <2>3 DEF AnswerDelta, TypeOK
<1>2. CASE FetchFails(r)
  BY <1>2, EndRunType DEF FetchFails, TypeOK
<1>3. CASE Merge(r)
  <2> DEFINE merged == MergeDelta(posts, run[r].incoming, run[r].tombstoned)
             dropped == DroppedIds(posts, merged)
             pc == IF dropped = {} THEN "ensure" ELSE "drop"
             ids == PostIds(merged)
  <2>1. /\ run[r].incoming \in SUBSET RemotePost
        /\ run[r].next \in 0 .. MaxNow
        /\ posts \in SUBSET LocalPost
    BY <1>0 DEF TypeOK, Run
  <2>2. merged \subseteq LocalPost
    BY <2>1, MergeDeltaType
  <2>3. /\ ids \in SUBSET Posts
        /\ dropped \in SUBSET Posts
        /\ PostIds(run[r].incoming) \subseteq Posts
        /\ PostIds(posts) \subseteq Posts
    BY <2>1, <2>2, PostIdsType DEF DroppedIds
  <2>4. posts' \subseteq LocalPost
    BY <1>3, <2>1, <2>2 DEF Merge, Upsert
  <2>5. run' \in [Runs -> Run]
    <3>1. pc \in PullSteps
      BY DEF PullSteps
    <3>2. run' = [run EXCEPT ![r] = [IdleRun EXCEPT !.pc = pc, !.next = run[r].next,
                                                    !.merged = ids, !.dropped = dropped]]
      BY <1>3 DEF Merge
    <3> HIDE DEF pc, ids, dropped
    <3>3. [IdleRun EXCEPT !.pc = pc, !.next = run[r].next,
                          !.merged = ids, !.dropped = dropped] \in Run
      BY <2>1, <2>3, <3>1, IdleRunType DEF Run
    <3> QED BY <3>2, <3>3 DEF TypeOK
  <2>6. forgotten' \subseteq Posts
    BY <1>3, <2>3 DEF Merge, TypeOK
  <2> QED BY <1>3, <2>4, <2>5, <2>6 DEF Merge, TypeOK
<1>4. CASE DropImages(r)
  <2>1. run' \in [Runs -> Run]
    BY <1>4, RunUpdates DEF DropImages, PullSteps
  <2> QED BY <1>0, <1>4, <2>1 DEF DropImages, TypeOK, Run
<1>5. CASE DropOrphans(r)
  <2> DEFINE gone == Orphans(outbox, run[r].merged)
  <2>1. run' \in [Runs -> Run]
    BY <1>5, RunUpdates DEF DropOrphans, PullSteps
  <2>2. gone \in SUBSET OutboxEntry
    BY DEF Orphans, TypeOK
  <2>3. outbox' \subseteq OutboxEntry
    BY <1>5 DEF DropOrphans, TypeOK
  <2>4. fate' \in [Ids -> Fates]
    BY <1>5, FatedType DEF DropOrphans, Fates
  <2>5. voided' \subseteq Posts
    BY <1>5, <2>2, VoidedType DEF DropOrphans
  <2> QED BY <1>5, <2>1, <2>3, <2>4, <2>5 DEF DropOrphans, TypeOK
<1>6. CASE EnsureImages(r)
  <2>1. run' \in [Runs -> Run]
    BY <1>6, RunUpdates DEF EnsureImages, PullSteps
  <2>2. thumbs' \subseteq Posts
    BY <1>0, <1>6, EnsureLeaves DEF TypeOK, Run
  <2> QED BY <1>6, <2>1, <2>2 DEF EnsureImages, TypeOK
<1>7. CASE SaveCursor(r)
  <2>1. cursor' \in Cursor
    BY <1>0, <1>7 DEF SaveCursor, Run, Cursor
  <2> QED BY <1>7, <2>1, EndRunType DEF SaveCursor, TypeOK
<1> QED
  BY <1>1, <1>2, <1>3, <1>4, <1>5, <1>6, <1>7 DEF PullStep

LEMMA UserTypeOK ==
    ASSUME TypeOK, UserStep
    PROVE  TypeOK'
<1> USE DEF serverVars, storeVars, imageVars, memoryVars, historyVars
<1>1. CASE Launch
  <2>1. PostIds({row \in posts : IsExpired(row)}) \subseteq Posts
    BY PostIdsType DEF TypeOK
  <2> QED BY <1>1, <2>1, SyncType DEF Launch, PruneExpired, TypeOK
<1>2. CASE TriggerSync
  BY <1>2, SyncType DEF TriggerSync, TypeOK
<1>3. CASE ClearAll
  <2>1. fate' \in [Ids -> Fates]
    BY <1>3, FatedType DEF ClearAll, Fates
  <2>2. voided' \subseteq Posts
    BY <1>3, VoidedType DEF ClearAll, TypeOK
  <2>3. forgotten' \subseteq Posts
    BY <1>3, PostIdsType DEF ClearAll, TypeOK
  <2> QED BY <1>3, <2>1, <2>2, <2>3 DEF ClearAll, TypeOK, Cursor
<1>4. ASSUME NEW row \in posts, ToggleLike(row)
      PROVE  TypeOK'
  <2> DEFINE forPost == ForPost(outbox, row.id)
             kind    == NextLikeAction(DeriveLikeState(row, forPost))
             entry   == [id |-> nextId, post |-> row.id, kind |-> kind, attempts |-> 0,
                         since |-> 0, status |-> "pending"]
             plan    == PlanEnqueue(forPost, entry)
             lost    == {f \in plan.delete : f.attempts = 0 /\ f.id \in requested}
  <2>1. row.id \in Posts /\ nextId \in 1 .. MaxTaps + 1
    BY DEF TypeOK, LocalPost
  <2>2. kind \in OutboxKind
    BY DEF NextLikeAction, OutboxKind
  <2>3. nextId <= MaxTaps => entry \in OutboxEntry
    BY <2>1, <2>2, RetryPolicyAssumption DEF OutboxEntry, OutboxStatus, Ids
  <2>4. plan.insert \in {{}, {entry}}
    BY DEF PlanEnqueue
  <2>5. plan.delete \subseteq outbox
    BY DEF PlanEnqueue, Cancellable, Latest, Pending, ForPost
  <2>6. /\ nextId <= MaxTaps \/ plan.insert = {}
        /\ outbox' = (outbox \ plan.delete) \cup plan.insert
        /\ nextId' = IF plan.insert = {} THEN nextId ELSE nextId + 1
        /\ fate' = IF plan.insert = {} THEN Fated(plan.delete, "cancelled")
                   ELSE Fated(plan.insert, "queued")
        /\ intent' = [intent EXCEPT ![row.id] = (kind = "like")]
        /\ voided' = voided \cup {e.post : e \in lost}
        /\ Sync(online)
    BY <1>4 DEF ToggleLike
  <2> HIDE DEF plan, kind
  <2>7. outbox' \subseteq OutboxEntry
    BY <2>3, <2>4, <2>6 DEF TypeOK
  <2>8. nextId' \in 1 .. MaxTaps + 1
    BY <2>1, <2>6, RetryPolicyAssumption
  <2>9. fate' \in [Ids -> Fates]
    BY <2>6, FatedType DEF Fates
  <2>10. voided' \subseteq Posts
    BY <2>5, <2>6, VoidedType DEF TypeOK
  <2>11. intent' \in [Posts -> BOOLEAN]
    BY <2>6 DEF TypeOK
  <2> QED
    BY <1>4, <2>6, <2>7, <2>8, <2>9, <2>10, <2>11, SyncType DEF ToggleLike, TypeOK
<1>5. CASE ClearImages
  BY <1>5 DEF ClearImages, TypeOK
<1> QED BY <1>1, <1>2, <1>3, <1>4, <1>5 DEF UserStep, FeedScreen, DebugScreen

LEMMA ScreenTypeOK ==
    ASSUME TypeOK, ScreenStep
    PROVE  TypeOK'
<1> USE DEF serverVars, storeVars, imageVars, memoryVars, historyVars
<1>1. CASE WarmImages
  <2>1. FeedQuery \in SUBSET LocalPost
    BY DEF FeedQuery, Newest, VisiblePosts, TypeOK
  <2>2. Newest(VisiblePosts(FeedQuery), MaxPosts) \in SUBSET LocalPost
    BY <2>1 DEF Newest, VisiblePosts
  <2>3. ASSUME NEW i \in ComposeFeed(FeedQuery)
        PROVE  i.id \in Posts
    <3>1. PICK row \in Newest(VisiblePosts(FeedQuery), MaxPosts) : i.id = row.id
      BY DEF ComposeFeed
    <3> QED BY <2>2, <3>1 DEF LocalPost
  <2>4. Missing \subseteq Posts
    BY <2>3 DEF Missing, FeedView
  <2> QED BY <1>1, <2>4 DEF WarmImages, TypeOK
<1>2. ASSUME NEW p \in warming, ThumbArrives(p)
      PROVE  TypeOK'
  <2>1. thumbs' \subseteq Posts
    BY <1>2, ArrivalLeaves DEF TypeOK
  <2> QED BY <1>2, <2>1 DEF ThumbArrives, TypeOK
<1> QED BY <1>1, <1>2 DEF ScreenStep

LEMMA EnvironmentTypeOK ==
    ASSUME TypeOK, EnvironmentStep
    PROVE  TypeOK'
<1> USE DEF serverVars, storeVars, imageVars, memoryVars, historyVars
<1>1. CASE GoOffline
  BY <1>1 DEF GoOffline, TypeOK
<1>2. CASE GoOnline
  BY <1>2, SyncType DEF GoOnline, TypeOK
<1>3. CASE Crash
  BY <1>3, IdleRunType DEF Crash, TypeOK
<1>4. CASE Tick
  <2>1. now' \in 0 .. MaxNow
    BY <1>4, InstanceAssumption DEF Tick, TypeOK, LesserOf
  <2>2. \A row \in posts : [row EXCEPT !.age = Older(@, TTL + 1)] \in LocalPost
    <3> TAKE row \in posts
    <3>1. row \in LocalPost /\ row.age \in Nat /\ TTL + 1 \in Nat
      BY FeedAssumption DEF TypeOK, LocalPost
    <3> DEFINE age == Older(row.age, TTL + 1)
    <3>2. age \in 0 .. TTL + 1
      BY <3>1, OlderType
    <3> HIDE DEF age
    <3>3. [row EXCEPT !.age = age] \in LocalPost
      BY <3>1, <3>2 DEF LocalPost
    <3> QED BY <3>3 DEF age
  <2>3. posts' \subseteq LocalPost
    BY <1>4, <2>2 DEF Tick
  <2>4. \A e \in outbox : [e EXCEPT !.since = Older(@, MaxDelay)] \in OutboxEntry
    <3> TAKE e \in outbox
    <3>1. e \in OutboxEntry /\ e.since \in Nat /\ MaxDelay \in Nat
      BY RetryPolicyAssumption DEF TypeOK, OutboxEntry
    <3> DEFINE since == Older(e.since, MaxDelay)
    <3>2. since \in Nat
      BY <3>1, OlderType
    <3> HIDE DEF since
    <3>3. [e EXCEPT !.since = since] \in OutboxEntry
      BY <3>1, <3>2 DEF OutboxEntry
    <3> QED BY <3>3 DEF since
  <2>5. outbox' \subseteq OutboxEntry
    BY <1>4, <2>4 DEF Tick, TypeOK
  <2>6. \A r \in Runs : [run[r] EXCEPT !.elapsed = Older(@, MaxDelay)] \in Run
    <3> TAKE r \in Runs
    <3>1. run[r] \in Run /\ run[r].elapsed \in Nat /\ MaxDelay \in Nat
      BY RetryPolicyAssumption DEF TypeOK, Run
    <3> DEFINE elapsed == Older(run[r].elapsed, MaxDelay)
    <3>2. elapsed \in 0 .. MaxDelay
      BY <3>1, OlderType
    <3> HIDE DEF elapsed
    <3>3. [run[r] EXCEPT !.elapsed = elapsed] \in Run
      BY <3>1, <3>2 DEF Run
    <3> QED BY <3>3 DEF elapsed
  <2>7. run' \in [Runs -> Run]
    BY <1>4, <2>6 DEF Tick, TypeOK
  <2> QED BY <1>4, <2>1, <2>3, <2>5, <2>7 DEF Tick, TypeOK
<1>5. ASSUME NEW p \in Posts, DeletePost(p)
      PROVE  TypeOK'
  <2>1. server' \in [Posts -> ServerPost]
    BY <1>5 DEF DeletePost, TypeOK, ServerPost
  <2> QED BY <1>5, <2>1 DEF DeletePost, TypeOK
<1>6. ASSUME NEW p \in Posts, PublishPost(p)
      PROVE  TypeOK'
  <2>1. server' \in [Posts -> ServerPost]
    BY <1>6 DEF PublishPost, TypeOK, ServerPost
  <2> QED BY <1>6, <2>1 DEF PublishPost, TypeOK
<1> QED BY <1>1, <1>2, <1>3, <1>4, <1>5, <1>6 DEF EnvironmentStep, ServerControls

LEMMA StutterTypeOK ==
    ASSUME TypeOK, UNCHANGED vars
    PROVE  TypeOK'
BY DEF TypeOK, vars, serverVars, storeVars, imageVars, memoryVars, historyVars

\* Every variable keeps its type, whatever the actors do.
THEOREM TypeCorrect == Spec => []TypeOK
<1>1. TypeOK /\ [Next]_vars => TypeOK'
  BY PushTypeOK, PullTypeOK, UserTypeOK, ScreenTypeOK, EnvironmentTypeOK,
      StutterTypeOK DEF Next
<1> QED
  BY InitTypeOK, <1>1, PTL DEF Spec

-----------------------------------------------------------------------------
(* The lock *)

\* A step of a run is one of the run the lock names, and it keeps the lock or,
\* ending the run, lets go of it.
LEMMA RunStepKeepsLock ==
    ASSUME TypeOK, NEW r \in Runs, PushStep(r) \/ PullStep(r)
    PROVE  /\ run[r].pc # "idle"
           /\ \A s \in Runs \ {r} : run'[s] = run[s]
           /\ \/ running' = running
              \/ running' = {} /\ run'[r].pc = "idle"
<1> USE DEF memoryVars
<1>1. run \in [Runs -> Run]
  BY DEF TypeOK
<1>2. CASE PlanPush(r)
  BY <1>1, <1>2 DEF PlanPush, Proceed
<1>3. CASE AcceptLike(r)
  BY <1>1, <1>3 DEF AcceptLike
<1>4. CASE RefuseLike(r)
  BY <1>1, <1>4 DEF RefuseLike
<1>5. CASE LikeUnreachable(r)
  BY <1>1, <1>5 DEF LikeUnreachable
<1>6. CASE ApplyServerLike(r)
  BY <1>1, <1>6 DEF ApplyServerLike
<1>7. CASE DeleteSent(r)
  BY <1>1, <1>7 DEF DeleteSent, Proceed
<1>8. CASE RecordRefusal(r)
  BY <1>1, <1>8 DEF RecordRefusal, Proceed
<1>9. CASE AnswerDelta(r)
  BY <1>1, <1>9 DEF AnswerDelta
<1>10. CASE FetchFails(r)
  BY <1>1, <1>10 DEF FetchFails, EndRun, IdleRun
<1>11. CASE Merge(r)
  BY <1>1, <1>11 DEF Merge
<1>12. CASE DropImages(r)
  BY <1>1, <1>12 DEF DropImages
<1>13. CASE DropOrphans(r)
  BY <1>1, <1>13 DEF DropOrphans
<1>14. CASE EnsureImages(r)
  BY <1>1, <1>14 DEF EnsureImages
<1>15. CASE SaveCursor(r)
  BY <1>1, <1>15 DEF SaveCursor, EndRun, IdleRun
<1> QED
  BY <1>2, <1>3, <1>4, <1>5, <1>6, <1>7, <1>8, <1>9, <1>10, <1>11, <1>12, <1>13, <1>14,
     <1>15 DEF PushStep, PullStep

\* A run starts only while no run holds the lock.
LEMMA SyncKeepsLock ==
    ASSUME TypeOK, OneRun, NEW connected, Sync(connected)
    PROVE  OneRun'
BY DEF Sync, EngineSync, OneRun, TypeOK

\* The run under way is the one the lock names (ADR-012), for any number of
\* callers asking for a sync at once.
THEOREM OneRunAtATime == Spec => []OneRun
<1>1. Init => OneRun
  BY DEF Init, OneRun, IdleRun
<1>2. TypeOK /\ OneRun /\ [Next]_vars => OneRun'
  <2> SUFFICES ASSUME TypeOK, OneRun, [Next]_vars
               PROVE  OneRun'
    OBVIOUS
  <2>1. ASSUME NEW r \in Runs, PushStep(r) \/ PullStep(r)
        PROVE  OneRun'
    BY <2>1, RunStepKeepsLock DEF OneRun
  <2>2. CASE Launch
    BY <2>2, SyncKeepsLock DEF Launch, PruneExpired
  <2>3. CASE TriggerSync
    BY <2>3, SyncKeepsLock DEF TriggerSync
  <2>4. CASE ClearAll
    BY <2>4 DEF ClearAll, OneRun
  <2>5. ASSUME NEW row \in posts, ToggleLike(row)
        PROVE  OneRun'
    BY <2>5, SyncKeepsLock DEF ToggleLike
  <2>6. CASE GoOffline
    BY <2>6 DEF GoOffline, OneRun, memoryVars
  <2>7. CASE GoOnline
    BY <2>7, SyncKeepsLock DEF GoOnline
  <2>8. CASE Crash
    BY <2>8 DEF Crash, OneRun, IdleRun
  <2>9. CASE Tick
    BY <2>9 DEF Tick, OneRun, TypeOK, Run
  <2>10. ASSUME NEW p \in Posts, DeletePost(p) \/ PublishPost(p)
         PROVE  OneRun'
    BY <2>10 DEF DeletePost, PublishPost, OneRun, memoryVars
  <2>11. CASE ClearImages \/ ScreenStep
    BY <2>11 DEF ClearImages, ScreenStep, WarmImages, ThumbArrives, OneRun, memoryVars
  <2>12. CASE UNCHANGED vars
    BY <2>12 DEF vars, memoryVars, OneRun
  <2> QED
    BY <2>1, <2>2, <2>3, <2>4, <2>5, <2>6, <2>7, <2>8, <2>9, <2>10, <2>11, <2>12
    DEF Next, UserStep, FeedScreen, DebugScreen, EnvironmentStep, ServerControls
<1> QED
  BY <1>1, <1>2, TypeCorrect, PTL DEF Spec

-----------------------------------------------------------------------------
(* Images go after their posts *)

UniqueIds(rows) == \A a, b \in rows : a.id = b.id => a = b

\* What a run is about to delete the images of, no row has.
DropsAreGone(r) == run[r].pc = "drop" => run[r].dropped \cap PostIds(posts) = {}

PullInv ==
    /\ UniqueIds(posts)
    /\ \A r \in Runs : UniqueIds(run[r].incoming) /\ DropsAreGone(r)

\* A merge keeps one row per post.
LEMMA MergeDeltaUnique ==
    ASSUME NEW local \in SUBSET LocalPost, NEW incoming \in SUBSET RemotePost,
           NEW tombstoned, UniqueIds(local), UniqueIds(incoming)
    PROVE  UniqueIds(MergeDelta(local, incoming, tombstoned))
<1> DEFINE taken == {i \in incoming : /\ i.id \notin tombstoned
                                      /\ ~\E l \in local : Supersedes(l, i)}
           kept  == {l \in local : l.id \notin tombstoned /\ l.id \notin PostIds(taken)}
           older(l) == [l EXCEPT !.age = 0]
           all == {Cached(i) : i \in taken} \cup {older(l) : l \in kept}
<1>1. MergeDelta(local, incoming, tombstoned) \subseteq all
  BY DEF MergeDelta, Newest
<1>2. \A i \in taken : Cached(i).id = i.id
  BY DEF Cached
<1>3. \A l \in kept : older(l).id = l.id
  BY DEF LocalPost
<1>4. \A i \in taken, l \in kept : i.id # l.id
  BY DEF PostIds
<1>5. UniqueIds(taken) /\ UniqueIds(kept)
  BY DEF UniqueIds
<1> HIDE DEF taken, kept, older
<1>6. UniqueIds(all)
  <2> SUFFICES ASSUME NEW a \in all, NEW b \in all, a.id = b.id
               PROVE  a = b
    BY DEF UniqueIds
  <2>1. CASE (\E i \in taken : a = Cached(i)) /\ (\E i \in taken : b = Cached(i))
    BY <1>2, <1>5, <2>1 DEF UniqueIds
  <2>2. CASE (\E l \in kept : a = older(l)) /\ (\E l \in kept : b = older(l))
    BY <1>3, <1>5, <2>2 DEF UniqueIds
  <2> QED BY <1>2, <1>3, <1>4, <2>1, <2>2
<1> QED BY <1>1, <1>6 DEF UniqueIds

\* A delta names a post once.
LEMMA DeltaUnique ==
    ASSUME NEW c
    PROVE  UniqueIds(DeltaPosts(c))
BY DEF UniqueIds, DeltaPosts

\* Steps after which each row is a row of before, or a rewritten one.
LEMMA RowsKept ==
    ASSUME PullInv,
           UniqueIds(posts'), PostIds(posts') \subseteq PostIds(posts),
           \A s \in Runs : /\ run'[s].incoming \in {run[s].incoming, {}}
                           /\ run'[s].pc = "drop" => /\ run[s].pc = "drop"
                                                     /\ run'[s].dropped = run[s].dropped
    PROVE  PullInv'
<1>1. UniqueIds({})
  BY DEF UniqueIds
<1> QED BY <1>1 DEF PullInv, DropsAreGone, UniqueIds

\* A set of rows, each the image of one before, with its id.
LEMMA RewrittenRows ==
    ASSUME UniqueIds(posts), NEW f, DOMAIN f = posts,
           \A row \in posts : f[row].id = row.id,
           posts' = {f[row] : row \in posts}
    PROVE  UniqueIds(posts') /\ PostIds(posts') = PostIds(posts)
<1>1. UniqueIds(posts')
  BY DEF UniqueIds
<1>2. \A row \in posts : \E new \in posts' : new.id = row.id
  OBVIOUS
<1>3. \A new \in posts' : \E row \in posts : new.id = row.id
  OBVIOUS
<1>4. PostIds(posts') = PostIds(posts)
  BY <1>2, <1>3 DEF PostIds
<1> QED BY <1>1, <1>4

LEMMA RunKeepsPullInv ==
    ASSUME TypeOK, OneRun, PullInv, NEW r \in Runs, PushStep(r) \/ PullStep(r)
    PROVE  PullInv'
<1> USE DEF storeVars
<1>0. /\ run \in [Runs -> Run] /\ posts \in SUBSET LocalPost
      /\ UniqueIds(posts) /\ UniqueIds(run[r].incoming)
      /\ \A s \in Runs \ {r} : run'[s] = run[s]
  BY RunStepKeepsLock DEF TypeOK, PullInv
<1>1. CASE AnswerDelta(r)
  <2>1. /\ posts' = posts
        /\ run'[r].incoming = DeltaPosts(run[r].since) /\ run'[r].pc = "merge"
    BY <1>0, <1>1 DEF AnswerDelta, Run
  <2>2. UniqueIds(run'[r].incoming)
    BY <2>1, DeltaUnique
  <2>3. \A s \in Runs \ {r} : UniqueIds(run'[s].incoming) /\ DropsAreGone(s)'
    BY <1>0, <2>1 DEF PullInv, DropsAreGone
  <2> QED BY <1>0, <2>1, <2>2, <2>3 DEF PullInv, DropsAreGone, UniqueIds
<1>2. CASE Merge(r)
  <2> DEFINE merged  == MergeDelta(posts, run[r].incoming, run[r].tombstoned)
             dropped == DroppedIds(posts, merged)
  <2>1. /\ posts' = Upsert(posts, merged, dropped)
        /\ run'[r].incoming = {} /\ run'[r].dropped = dropped
        /\ run[r].pc = "merge"
    BY <1>0, <1>2 DEF Merge, IdleRun
  <2>2. UniqueIds(merged)
    BY <1>0, MergeDeltaUnique DEF Run
  <2> HIDE DEF merged
  <2>3. UniqueIds(posts') /\ dropped \cap PostIds(posts') = {}
    BY <1>0, <2>1, <2>2 DEF Upsert, UniqueIds, DroppedIds, PostIds
  <2>4. \A s \in Runs \ {r} : run[s].pc = "idle"
    BY <2>1 DEF OneRun
  <2> HIDE DEF dropped
  <2>5. \A s \in Runs \ {r} : UniqueIds(run'[s].incoming) /\ DropsAreGone(s)'
    BY <1>0, <2>4 DEF PullInv, DropsAreGone
  <2>6. UniqueIds(run'[r].incoming) /\ DropsAreGone(r)'
    BY <2>1, <2>3 DEF UniqueIds, DropsAreGone
  <2> QED BY <2>3, <2>5, <2>6 DEF PullInv
<1>3. CASE ApplyServerLike(r)
  <2>1. PICK e \in Earliest(run[r].todo) :
          posts' = {IF row.id = e.post
                    THEN [row EXCEPT !.liked = run[r].ack.liked, !.count = run[r].ack.count]
                    ELSE row : row \in posts}
    BY <1>3 DEF ApplyServerLike
  <2> DEFINE f == [row \in posts |->
                     IF row.id = e.post
                     THEN [row EXCEPT !.liked = run[r].ack.liked, !.count = run[r].ack.count]
                     ELSE row]
  <2>2. DOMAIN f = posts /\ posts' = {f[row] : row \in posts}
    BY <2>1
  <2>3. \A row \in posts : f[row].id = row.id
    BY <1>0 DEF LocalPost
  <2> HIDE DEF f
  <2>4. UniqueIds(posts') /\ PostIds(posts') = PostIds(posts)
    BY <1>0, <2>2, <2>3, RewrittenRows
  <2>5. run'[r].pc = "applied" /\ run'[r].incoming = run[r].incoming
    BY <1>0, <1>3 DEF ApplyServerLike, Run
  <2> QED BY <1>0, <2>4, <2>5, RowsKept
<1>4. CASE PlanPush(r) \/ DeleteSent(r) \/ RecordRefusal(r)
  <2>1. posts' = posts
    BY <1>4 DEF PlanPush, DeleteSent, RecordRefusal
  <2>2. \E todo : Proceed(r, todo)
    BY <1>4 DEF PlanPush, DeleteSent, RecordRefusal
  <2>3. run'[r].incoming \in {run[r].incoming, {}} /\ run'[r].pc # "drop"
    BY <1>0, <2>2 DEF Proceed, Fetching, IdleRun, Run
  <2> QED BY <1>0, <2>1, <2>3, RowsKept
<1>5. CASE AcceptLike(r) \/ RefuseLike(r) \/ LikeUnreachable(r)
  <2>1. posts' = posts
    BY <1>5 DEF AcceptLike, RefuseLike, LikeUnreachable
  <2>2. run'[r].incoming \in {run[r].incoming, {}} /\ run'[r].pc # "drop"
    BY <1>0, <1>5 DEF AcceptLike, RefuseLike, LikeUnreachable, Fetching, IdleRun, Run
  <2> QED BY <1>0, <2>1, <2>2, RowsKept
<1>6. CASE FetchFails(r) \/ SaveCursor(r)
  <2>1. posts' = posts
    BY <1>6 DEF FetchFails, SaveCursor
  <2>2. run'[r].incoming = {} /\ run'[r].pc # "drop"
    BY <1>0, <1>6 DEF FetchFails, SaveCursor, EndRun, IdleRun
  <2> QED BY <1>0, <2>1, <2>2, RowsKept
<1>7. CASE DropImages(r) \/ DropOrphans(r) \/ EnsureImages(r)
  <2>1. posts' = posts
    BY <1>7 DEF DropImages, DropOrphans, EnsureImages
  <2>2. run'[r].incoming = run[r].incoming /\ run'[r].pc # "drop"
    BY <1>0, <1>7 DEF DropImages, DropOrphans, EnsureImages, Run
  <2> QED BY <1>0, <2>1, <2>2, RowsKept
<1> QED
  BY <1>1, <1>2, <1>3, <1>4, <1>5, <1>6, <1>7 DEF PushStep, PullStep

\* The other steps: rows go or grow older, and runs start, or go with the
\* process.
LEMMA OthersKeepPullInv ==
    ASSUME TypeOK, PullInv, [Next]_vars,
           ~\E r \in Runs : PushStep(r) \/ PullStep(r)
    PROVE  PullInv'
<1> USE DEF storeVars, memoryVars
<1>0. run \in [Runs -> Run] /\ posts \in SUBSET LocalPost /\ UniqueIds(posts)
  BY DEF TypeOK, PullInv
<1>1. ASSUME NEW connected, Sync(connected)
      PROVE  \A s \in Runs : /\ run'[s].incoming = run[s].incoming
                             /\ run'[s].pc = "drop" => run[s].pc = "drop"
                             /\ run'[s].dropped = run[s].dropped
  BY <1>0, <1>1 DEF Sync, EngineSync, Run
<1>2. CASE Launch
  <2>1. posts' \subseteq posts
    BY <1>2 DEF Launch, PruneExpired
  <2> QED BY <1>0, <1>1, <1>2, <2>1, RowsKept DEF Launch, PruneExpired, UniqueIds, PostIds
<1>3. ASSUME TriggerSync \/ GoOnline \/ \E row \in posts : ToggleLike(row)
      PROVE  PullInv'
  BY <1>0, <1>1, <1>3, RowsKept DEF TriggerSync, GoOnline, ToggleLike
<1>4. CASE ClearAll
  BY <1>4, RowsKept DEF ClearAll, UniqueIds, PostIds
<1>5. CASE Crash
  BY <1>0, <1>5, RowsKept DEF Crash, IdleRun
<1>6. CASE Tick
  <2> DEFINE f == [row \in posts |-> [row EXCEPT !.age = Older(@, TTL + 1)]]
  <2>1. DOMAIN f = posts /\ posts' = {f[row] : row \in posts}
    BY <1>6 DEF Tick
  <2>2. \A row \in posts : f[row].id = row.id
    BY <1>0 DEF LocalPost
  <2> HIDE DEF f
  <2>3. UniqueIds(posts') /\ PostIds(posts') = PostIds(posts)
    BY <1>0, <2>1, <2>2, RewrittenRows
  <2>4. \A s \in Runs : /\ run'[s].incoming = run[s].incoming
                        /\ run'[s].pc = run[s].pc /\ run'[s].dropped = run[s].dropped
    BY <1>0, <1>6 DEF Tick, Run
  <2> QED BY <2>3, <2>4, RowsKept
<1>7. ASSUME \/ GoOffline \/ ClearImages \/ ScreenStep
             \/ \E p \in Posts : DeletePost(p) \/ PublishPost(p)
             \/ UNCHANGED vars
      PROVE  PullInv'
  <2>1. posts' = posts /\ run' = run
    BY <1>7 DEF GoOffline, ClearImages, ScreenStep, WarmImages, ThumbArrives,
                DeletePost, PublishPost, vars
  <2> QED BY <2>1 DEF PullInv, DropsAreGone
<1> QED
  BY <1>2, <1>3, <1>4, <1>5, <1>6, <1>7
      DEF Next, UserStep, FeedScreen, DebugScreen, EnvironmentStep, ServerControls

\* Which steps delete images.
LEMMA ImageDeletions ==
    ASSUME TypeOK, PullInv, [Next]_vars
    PROVE  \/ ClearImages
           \/ thumbs \ thumbs' \subseteq Posts \ PostIds(posts')
           \/ Cardinality(thumbs') >= ImageBudget
<1> USE DEF imageVars, storeVars
<1>0. thumbs \subseteq Posts
  BY DEF TypeOK
<1>1. ASSUME NEW r \in Runs, DropImages(r)
      PROVE  thumbs \ thumbs' \subseteq Posts \ PostIds(posts')
  BY <1>0, <1>1 DEF DropImages, PullInv, DropsAreGone
<1>2. CASE Launch
  BY <1>0, <1>2 DEF Launch, PruneExpired, PullInv, UniqueIds, PostIds
<1>3. CASE ClearAll
  BY <1>0, <1>3 DEF ClearAll, PostIds
<1>4. ASSUME NEW r \in Runs, PushStep(r)
      PROVE  thumbs' = thumbs
  BY <1>4 DEF PushStep, PlanPush, AcceptLike, RefuseLike, LikeUnreachable,
              ApplyServerLike, DeleteSent, RecordRefusal
<1>5. ASSUME NEW r \in Runs, PullStep(r)
      PROVE  \/ DropImages(r) \/ thumbs \subseteq thumbs'
             \/ Cardinality(thumbs') >= ImageBudget
  <2>1. CASE EnsureImages(r)
    BY <2>1, EnsureLeaves
  <2>2. CASE ~EnsureImages(r)
    BY <1>5, <2>2 DEF PullStep, AnswerDelta, FetchFails, Merge, DropOrphans, SaveCursor
  <2> QED BY <2>1, <2>2
<1>6. ASSUME NEW row \in posts, TriggerSync \/ ToggleLike(row)
      PROVE  thumbs' = thumbs
  BY <1>6 DEF TriggerSync, ToggleLike
<1>7. CASE ScreenStep
  <2>1. CASE WarmImages
    BY <2>1 DEF WarmImages
  <2> QED BY <1>7, <2>1, ArrivalLeaves DEF ScreenStep
<1>8. CASE EnvironmentStep
  BY <1>8
      DEF EnvironmentStep, ServerControls, GoOffline, GoOnline, Crash, Tick, DeletePost, PublishPost
<1>9. CASE TriggerSync \/ UNCHANGED vars
  BY <1>9 DEF TriggerSync, vars
<1> QED
  BY <1>1, <1>2, <1>3, <1>4, <1>5, <1>6, <1>7, <1>8, <1>9
      DEF Next, UserStep, FeedScreen, DebugScreen

LEMMA PullInvHolds == Spec => []PullInv
<1>1. Init => PullInv
  BY DEF Init, PullInv, UniqueIds, DropsAreGone, IdleRun
<1>2. TypeOK /\ OneRun /\ PullInv /\ [Next]_vars => PullInv'
  BY RunKeepsPullInv, OthersKeepPullInv
<1> QED
  BY <1>1, <1>2, TypeCorrect, OneRunAtATime, PTL DEF Spec

\* The image of a post that has its row goes only where the user clears the
\* images, or where the budget is left full (fileSystemImageCache.ts, ensure):
\* whatever is killed, cleared or expires between a merge and the deletion of
\* the files of what it dropped (syncEngine.ts, pull), and whatever the screen
\* has fetched meanwhile.
THEOREM ImagesGoForRoom == Spec => HeldImagesGoForRoom
<1>1. TypeOK /\ PullInv /\ [Next]_vars
        => [\/ ClearImages
            \/ thumbs \ thumbs' \subseteq Posts \ PostIds(posts')
            \/ Cardinality(thumbs') >= ImageBudget]_vars
  BY ImageDeletions
<1> QED
  BY <1>1, PullInvHolds, TypeCorrect, PTL DEF Spec, HeldImagesGoForRoom

-----------------------------------------------------------------------------
(* No image is left behind *)

AfterDrop == {"drop", "orphans", "ensure"}

\* A post with an image, or with one on its way, has a row, is a stray, or is
\* one whose images a run is about to delete; what a run is about to fetch
\* images of has a row.  A process that was never open holds nothing.
OrphanInv ==
    /\ \A p \in thumbs \cup warming :
         \/ p \in PostIds(posts) \cup strays
         \/ \E r \in Runs : run[r].pc = "drop" /\ p \in run[r].dropped
    /\ \A r \in Runs : run[r].pc \in AfterDrop => run[r].merged \subseteq PostIds(posts)
    /\ app = "closed" => /\ posts = {} /\ thumbs = {} /\ warming = {}
                         /\ \A r \in Runs : run[r].pc = "idle"

\* Steps that take no post away and begin no deletion.
LEMMA OrphansKept ==
    ASSUME OrphanInv,
           PostIds(posts) \subseteq PostIds(posts'), strays \subseteq strays',
           thumbs' \cup warming' \subseteq thumbs \cup warming \cup PostIds(posts),
           \A r \in Runs :
             /\ run[r].pc = "drop" => run'[r].pc = "drop" /\ run'[r].dropped = run[r].dropped
             /\ run'[r].pc \in AfterDrop => /\ run[r].pc \in AfterDrop
                                            /\ run'[r].merged = run[r].merged,
           app' = "closed" => /\ app = "closed" /\ posts' = posts /\ thumbs' = thumbs
                              /\ warming' = warming
                              /\ \A r \in Runs : run'[r].pc = run[r].pc
    PROVE  OrphanInv'
BY DEF OrphanInv

LEMMA RunKeepsOrphanInv ==
    ASSUME TypeOK, OneRun, PullInv, OrphanInv, NEW r \in Runs, PushStep(r) \/ PullStep(r)
    PROVE  OrphanInv'
<1> USE DEF storeVars, imageVars
<1>0. /\ run \in [Runs -> Run] /\ posts \in SUBSET LocalPost
      /\ \A s \in Runs \ {r} : run'[s] = run[s]
      /\ \A s \in Runs \ {r} : run[s].pc = "idle"
      /\ app = "open"
  BY RunStepKeepsLock DEF TypeOK, OneRun, OrphanInv
<1>1. app' = "open"
  BY <1>0 DEF PushStep, PlanPush, AcceptLike, RefuseLike, LikeUnreachable, ApplyServerLike,
              DeleteSent, RecordRefusal, PullStep, AnswerDelta, FetchFails, Merge,
              DropImages, DropOrphans, EnsureImages, SaveCursor
<1>2. CASE PushStep(r)
  <2>1. UNCHANGED <<thumbs, warming, strays>>
    BY <1>2 DEF PushStep, PlanPush, AcceptLike, RefuseLike, LikeUnreachable,
                ApplyServerLike, DeleteSent, RecordRefusal
  <2>2. PostIds(posts) \subseteq PostIds(posts')
    <3>1. CASE ApplyServerLike(r)
      <4>1. PICK e \in Earliest(run[r].todo) :
              posts' = {IF row.id = e.post
                        THEN [row EXCEPT !.liked = run[r].ack.liked,
                                         !.count = run[r].ack.count]
                        ELSE row : row \in posts}
        BY <3>1 DEF ApplyServerLike
      <4> DEFINE new(row) == IF row.id = e.post
                             THEN [row EXCEPT !.liked = run[r].ack.liked,
                                              !.count = run[r].ack.count]
                             ELSE row
      <4>2. \A row \in posts : new(row) \in posts' /\ new(row).id = row.id
        BY <1>0, <4>1 DEF LocalPost
      <4> HIDE DEF new
      <4> QED BY <4>2 DEF PostIds
    <3>2. CASE ~ApplyServerLike(r)
      BY <1>2, <3>2 DEF PushStep, PlanPush, AcceptLike, RefuseLike, LikeUnreachable,
                        DeleteSent, RecordRefusal
    <3> QED BY <3>1, <3>2
  <2>3. run[r].pc \notin AfterDrop /\ run'[r].pc \notin AfterDrop
    <3>1. CASE PlanPush(r) \/ DeleteSent(r) \/ RecordRefusal(r)
      <4>1. \E todo : Proceed(r, todo)
        BY <3>1 DEF PlanPush, DeleteSent, RecordRefusal
      <4>2. run'[r].pc \in {"fetch", "wait"}
        BY <1>0, <4>1 DEF Proceed, Fetching, IdleRun, Run
      <4>3. run[r].pc \in {"push", "applied", "refused"}
        BY <3>1 DEF PlanPush, DeleteSent, RecordRefusal
      <4> QED BY <4>2, <4>3 DEF AfterDrop
    <3>2. CASE AcceptLike(r)
      BY <1>0, <3>2 DEF AcceptLike, AfterDrop, Run
    <3>3. CASE RefuseLike(r)
      BY <1>0, <3>3 DEF RefuseLike, AfterDrop, Run
    <3>4. CASE LikeUnreachable(r)
      BY <1>0, <3>4 DEF LikeUnreachable, Fetching, IdleRun, AfterDrop, Run
    <3>5. CASE ApplyServerLike(r)
      BY <1>0, <3>5 DEF ApplyServerLike, AfterDrop, Run
    <3> QED BY <1>2, <3>1, <3>2, <3>3, <3>4, <3>5 DEF PushStep
  <2> QED BY <1>0, <1>1, <2>1, <2>2, <2>3, OrphansKept DEF AfterDrop
<1>3. CASE Merge(r)
  <2> DEFINE merged  == MergeDelta(posts, run[r].incoming, run[r].tombstoned)
             dropped == DroppedIds(posts, merged)
  <2>1. /\ posts' = Upsert(posts, merged, dropped)
        /\ run[r].pc = "merge"
        /\ run'[r].pc = IF dropped = {} THEN "ensure" ELSE "drop"
        /\ run'[r].merged = PostIds(merged) /\ run'[r].dropped = dropped
        /\ UNCHANGED <<thumbs, warming, strays>>
    BY <1>0, <1>3 DEF Merge, IdleRun
  <2> HIDE DEF merged
  <2>2. PostIds(merged) \subseteq PostIds(posts')
    BY <2>1 DEF Upsert, PostIds
  <2>3. PostIds(posts) \subseteq PostIds(posts') \cup dropped
    BY <2>2 DEF DroppedIds
  <2>4. \A p \in thumbs \cup warming : p \in PostIds(posts) \cup strays
    BY <1>0, <2>1 DEF OrphanInv
  <2> HIDE DEF dropped
  <2>5. \A p \in thumbs' \cup warming' :
          \/ p \in PostIds(posts') \cup strays'
          \/ run'[r].pc = "drop" /\ p \in run'[r].dropped
    BY <2>1, <2>3, <2>4
  <2> QED BY <1>0, <1>1, <2>1, <2>2, <2>5 DEF OrphanInv, AfterDrop
<1>4. CASE DropImages(r)
  <2>1. /\ run[r].pc = "drop" /\ run'[r].pc = "orphans" /\ run'[r].merged = run[r].merged
        /\ thumbs' = thumbs \ run[r].dropped
        /\ strays' = strays \cup (run[r].dropped \cap warming)
        /\ warming' = warming /\ posts' = posts
    BY <1>0, <1>4 DEF DropImages, Run
  <2>2. \A p \in thumbs' \cup warming' : p \in PostIds(posts') \cup strays'
    BY <1>0, <2>1 DEF OrphanInv
  <2> QED BY <1>0, <1>1, <2>1, <2>2 DEF OrphanInv, AfterDrop
<1>5. CASE EnsureImages(r)
  <2>1. thumbs' \subseteq thumbs \cup run[r].merged
    BY <1>5, EnsureLeaves
  <2>2. run[r].pc = "ensure" /\ run'[r].pc = "commit" /\ UNCHANGED <<posts, warming, strays>>
    BY <1>0, <1>5 DEF EnsureImages, Run
  <2>3. run[r].merged \subseteq PostIds(posts)
    BY <2>2 DEF OrphanInv, AfterDrop
  <2> QED BY <1>0, <1>1, <2>1, <2>2, <2>3, OrphansKept DEF AfterDrop
<1>6. CASE AnswerDelta(r) \/ FetchFails(r) \/ DropOrphans(r) \/ SaveCursor(r)
  <2>1. UNCHANGED <<posts, thumbs, warming, strays>>
    BY <1>6 DEF AnswerDelta, FetchFails, DropOrphans, SaveCursor
  <2>2. /\ run[r].pc # "drop"
        /\ run'[r].pc \in AfterDrop => /\ run[r].pc \in AfterDrop
                                       /\ run'[r].merged = run[r].merged
    BY <1>0, <1>6 DEF AfterDrop, AnswerDelta, FetchFails, DropOrphans, SaveCursor, EndRun,
                      IdleRun, Run
  <2> QED BY <1>0, <1>1, <2>1, <2>2, OrphansKept
<1> QED BY <1>2, <1>3, <1>4, <1>5, <1>6 DEF PullStep

\* What the screen asks images of is in the table.
LEMMA MissingIsHeld == Missing \subseteq PostIds(posts)
<1>1. \A rows : \A i \in ComposeFeed(rows) : \E row \in rows : i.id = row.id
  <2> TAKE rows
  <2>1. Newest(VisiblePosts(rows), MaxPosts) \subseteq rows
    BY DEF Newest, VisiblePosts
  <2> QED BY <2>1 DEF ComposeFeed
<1>2. FeedQuery \subseteq posts
  BY DEF FeedQuery, Newest, VisiblePosts
<1>3. \A p \in Missing : \E i \in ComposeFeed(FeedQuery) : p = i.id
  BY DEF Missing, FeedView
<1> QED BY <1>1, <1>2, <1>3 DEF PostIds

LEMMA OthersKeepOrphanInv ==
    ASSUME TypeOK, PullInv, OrphanInv, [Next]_vars,
           ~\E r \in Runs : PushStep(r) \/ PullStep(r),
           "crash" \notin Faults, "clear" \notin Faults
    PROVE  OrphanInv'
<1> USE DEF storeVars, imageVars, memoryVars
<1>0. run \in [Runs -> Run] /\ posts \in SUBSET LocalPost
  BY DEF TypeOK
<1>1. ASSUME NEW connected, Sync(connected)
      PROVE  \A s \in Runs : run'[s] = run[s] \/ (run[s].pc = "idle" /\ run'[s].pc = "push")
  BY <1>0, <1>1 DEF Sync, EngineSync, Run
<1>2. CASE Launch
  <2>1. posts = {} /\ posts' = {} /\ thumbs' = {} /\ warming' = {} /\ app' = "open"
    BY <1>2 DEF Launch, PruneExpired, OrphanInv
  <2>2. \A s \in Runs : run'[s].pc \notin AfterDrop
    BY <1>1, <1>2 DEF Launch, PruneExpired, OrphanInv, AfterDrop
  <2> QED BY <2>1, <2>2 DEF OrphanInv, AfterDrop
<1>3. CASE TriggerSync \/ GoOnline \/ \E row \in posts : ToggleLike(row)
  <2>1. UNCHANGED <<posts, thumbs, warming, strays, app>>
    BY <1>3 DEF TriggerSync, GoOnline, ToggleLike
  <2>2. \A s \in Runs : run'[s] = run[s] \/ (run[s].pc = "idle" /\ run'[s].pc = "push")
    BY <1>1, <1>3 DEF TriggerSync, GoOnline, ToggleLike
  <2>3. app = "closed" => run' = run
    BY <1>3 DEF TriggerSync, GoOnline, ToggleLike, Sync, EngineSync
  <2> QED BY <2>1, <2>2, <2>3, OrphansKept DEF AfterDrop
<1>4. CASE Tick
  <2> DEFINE older(row) == [row EXCEPT !.age = Older(@, TTL + 1)]
  <2>1. posts' = {older(row) : row \in posts}
    BY <1>4 DEF Tick
  <2>2. \A row \in posts : older(row).id = row.id
    BY <1>0 DEF LocalPost
  <2> HIDE DEF older
  <2>3. PostIds(posts) \subseteq PostIds(posts') /\ (posts = {} => posts' = {})
    BY <2>1, <2>2 DEF PostIds
  <2>4. UNCHANGED <<thumbs, warming, strays, app>>
    BY <1>4 DEF Tick
  <2>5. \A s \in Runs : /\ run'[s].pc = run[s].pc /\ run'[s].dropped = run[s].dropped
                        /\ run'[s].merged = run[s].merged
    BY <1>0, <1>4 DEF Tick, Run
  <2> QED BY <2>3, <2>4, <2>5, OrphansKept DEF OrphanInv
<1>5. CASE ScreenStep
  <2>1. UNCHANGED <<posts, strays, run, app>>
    BY <1>5 DEF ScreenStep, WarmImages, ThumbArrives
  <2>2. thumbs' \cup warming' \subseteq thumbs \cup warming \cup PostIds(posts)
    <3>1. CASE WarmImages
      BY <3>1, MissingIsHeld DEF WarmImages
    <3>2. ASSUME NEW p \in warming, ThumbArrives(p)
          PROVE  thumbs' \cup warming' \subseteq thumbs \cup warming
      <4>1. warming' \subseteq warming
        BY <3>2 DEF ThumbArrives
      <4> QED BY <3>2, <4>1, ArrivalLeaves
    <3> QED BY <1>5, <3>1, <3>2 DEF ScreenStep
  <2>3. app = "open"
    BY <1>5 DEF ScreenStep, WarmImages, ThumbArrives, OrphanInv, TypeOK
  <2> QED BY <2>1, <2>2, <2>3, OrphansKept
<1>6. CASE \/ GoOffline \/ UNCHANGED vars
           \/ \E p \in Posts : DeletePost(p) \/ PublishPost(p)
  <2>1. UNCHANGED <<posts, thumbs, warming, strays, app, run>>
    BY <1>6 DEF GoOffline, vars, DeletePost, PublishPost
  <2> QED BY <2>1, OrphansKept
<1>7. ~Crash /\ ~ClearAll /\ ~ClearImages
  BY DEF Crash, ClearAll, ClearImages
<1> QED
  BY <1>2, <1>3, <1>4, <1>5, <1>6, <1>7
      DEF Next, UserStep, FeedScreen, DebugScreen, EnvironmentStep, ServerControls

\* Where the process is never killed and nothing is cleared, no image is left
\* of a post without a row once a run is over (syncEngine.ts, pull), but for the
\* downloads of the screen that outlived their post.
THEOREM NoneLeftBehind ==
    ASSUME "crash" \notin Faults, "clear" \notin Faults
    PROVE  Spec => []NoOrphanThumbs
<1>1. Init => OrphanInv
  BY DEF Init, OrphanInv, IdleRun, AfterDrop
<1>2. TypeOK /\ OneRun /\ PullInv /\ OrphanInv /\ [Next]_vars => OrphanInv'
  BY RunKeepsOrphanInv, OthersKeepOrphanInv
<1>3. OneRun /\ OrphanInv => NoOrphanThumbs
  BY DEF OneRun, OrphanInv, NoOrphanThumbs
<1> QED
  BY <1>1, <1>2, <1>3, TypeCorrect, OneRunAtATime, PullInvHolds, PTL DEF Spec

-----------------------------------------------------------------------------
(* What the user sees of a post: its rows, the last of them first *)

\* The row that DeriveLikeState applies last.
LastRow(S) == CHOOSE e \in S : e \in Latest(S)

\* The recursion of DeriveLikeState at a set, and the function it defines.
ViewStep(v, g, S) == IF S = {} THEN v ELSE Overlay(LastRow(S), g[S \ {LastRow(S)}])
ViewSolves(v, g, S) == g = [T \in SUBSET S |-> ViewStep(v, g, T)]
ViewIter(v, S) == CHOOSE g : ViewSolves(v, g, S)

\* The like state of a post as a record of these two fields.
ViewOf(post) == [liked |-> post.liked, count |-> post.count]

LEMMA DeriveIsIter ==
    \A post, entries :
        DeriveLikeState(post, entries) = ViewIter(ViewOf(post), Pending(entries))[Pending(entries)]
BY DEF DeriveLikeState, MapThenFoldSet, ViewIter, ViewSolves, ViewStep, LastRow, ViewOf

\* Of finitely many rows one is the last, and one the first.
LEMMA FirstAndLastRow ==
    ASSUME NEW S \in SUBSET OutboxEntry, S # {}
    PROVE  Latest(S) # {} /\ Earliest(S) # {} /\ LastRow(S) \in S /\ LastRow(S) \in Latest(S)
<1>1. \A e \in S : e.id \in 1 .. MaxTaps /\ e.id \in Int
  BY DEF OutboxEntry, Ids
<1>2. Latest(S) # {}
  <2> DEFINE J == {MaxTaps - e.id : e \in S}
  <2>1. J # {} /\ J \in SUBSET Nat
    BY <1>1, RetryPolicyAssumption
  <2> HIDE DEF J
  <2>2. \E n \in J : \A m \in J : n <= m
    BY <2>1, SmallestNumber
  <2>3. PICK e \in S : \A f \in S : MaxTaps - e.id <= MaxTaps - f.id
    BY <2>2 DEF J
  <2>4. \A f \in S : f.id <= e.id
    BY <1>1, <2>3, RetryPolicyAssumption
  <2> QED BY <1>1, <2>4 DEF Latest
<1>3. Earliest(S) # {}
  <2> DEFINE J == {e.id : e \in S}
  <2>1. J # {} /\ J \in SUBSET Nat
    BY <1>1, RetryPolicyAssumption
  <2> HIDE DEF J
  <2>2. \E n \in J : \A m \in J : n <= m
    BY <2>1, SmallestNumber
  <2>3. PICK e \in S : \A f \in S : e.id <= f.id
    BY <2>2 DEF J
  <2> QED BY <2>3 DEF Earliest
<1>4. LastRow(S) \in S /\ LastRow(S) \in Latest(S)
  BY <1>2 DEF LastRow, Latest
<1> QED BY <1>2, <1>3, <1>4

\* Two solutions agree where both are defined.
LEMMA ViewSolutionsAgree ==
    ASSUME NEW v, NEW S \in SUBSET OutboxEntry, IsFiniteSet(S), NEW T, NEW g, NEW h,
           ViewSolves(v, g, S), ViewSolves(v, h, T)
    PROVE  \A s \in (SUBSET S) \cap (SUBSET T) : g[s] = h[s]
<1> DEFINE Bad == {s \in (SUBSET S) \cap (SUBSET T) : g[s] # h[s]}
<1> SUFFICES ASSUME Bad # {} PROVE FALSE
  OBVIOUS
<1>0. Bad \in SUBSET (SUBSET S)
  OBVIOUS
<1>1. PICK s \in Bad : \A r \in Bad : r \subseteq s => r = s
  <2> HIDE DEF Bad
  <2> QED BY <1>0, SmallestSubset
<1>2. g[s] = ViewStep(v, g, s) /\ h[s] = ViewStep(v, h, s)
  BY DEF ViewSolves
<1>3. CASE s = {}
  BY <1>2, <1>3 DEF ViewStep
<1>4. CASE s # {}
  <2> DEFINE r == s \ {LastRow(s)}
  <2>1. r \in (SUBSET S) \cap (SUBSET T) /\ r \subseteq s /\ r # s
    BY <1>4, FirstAndLastRow
  <2>2. g[r] = h[r]
    BY <2>1, <1>1
  <2> QED BY <1>2, <1>4, <2>2 DEF ViewStep
<1> QED BY <1>3, <1>4

\* There is such a function.
LEMMA ViewIterSolves ==
    ASSUME NEW v, NEW S \in SUBSET OutboxEntry, IsFiniteSet(S)
    PROVE  ViewSolves(v, ViewIter(v, S), S)
<1> DEFINE Bad == {T \in SUBSET S : ~ ViewSolves(v, ViewIter(v, T), T)}
<1> SUFFICES ASSUME Bad # {} PROVE FALSE
  OBVIOUS
<1>0. Bad \in SUBSET (SUBSET S)
  OBVIOUS
<1>1. PICK T \in Bad : \A U \in Bad : U \subseteq T => U = T
  <2> HIDE DEF Bad
  <2> QED BY <1>0, SmallestSubset
<1>2. \A U \in SUBSET T : U # T => /\ ViewSolves(v, ViewIter(v, U), U)
                                   /\ IsFiniteSet(U) /\ U \in SUBSET OutboxEntry
  BY <1>1, FS_Subset
<1> DEFINE h == [s \in SUBSET T |-> IF s = {} THEN v
                   ELSE Overlay(LastRow(s), ViewIter(v, s \ {LastRow(s)})[s \ {LastRow(s)}])]
<1>3. ASSUME NEW s \in SUBSET T PROVE h[s] = ViewStep(v, h, s)
  <2>1. CASE s = {}
    BY <2>1 DEF ViewStep
  <2>2. CASE s # {}
    <3> DEFINE u == s \ {LastRow(s)}
    <3>1. u \in SUBSET T /\ u # T
      BY <2>2, FirstAndLastRow
    <3> HIDE DEF u
    <3>2. ViewSolves(v, ViewIter(v, u), u) /\ IsFiniteSet(u) /\ u \in SUBSET OutboxEntry
      BY <3>1, <1>2
    <3>3. ViewIter(v, u)[u] = ViewStep(v, ViewIter(v, u), u)
      BY <3>2 DEF ViewSolves
    <3>4. h[u] = ViewIter(v, u)[u]
      <4>1. CASE u = {}
        BY <3>1, <3>3, <4>1 DEF ViewStep
      <4>2. CASE u # {}
        <5> DEFINE w == u \ {LastRow(u)}
        <5>0. LastRow(u) \in u
          BY <3>2, <4>2, FirstAndLastRow
        <5>1. w \in SUBSET T /\ w # T /\ w \in SUBSET u
          BY <3>1, <5>0
        <5> HIDE DEF w
        <5>2. ViewSolves(v, ViewIter(v, w), w)
          BY <5>1, <1>2
        <5>3. ViewIter(v, u)[w] = ViewIter(v, w)[w]
          BY <5>1, <5>2, <3>2, ViewSolutionsAgree
        <5>4. h[u] = Overlay(LastRow(u), ViewIter(v, w)[w])
          BY <3>1, <4>2 DEF w
        <5> QED BY <3>3, <4>2, <5>3, <5>4 DEF ViewStep, w
      <4> QED BY <4>1, <4>2
    <3>5. h[s] = Overlay(LastRow(s), ViewIter(v, u)[u])
      BY <2>2 DEF u
    <3> QED BY <3>4, <3>5, <2>2 DEF ViewStep, u
  <2> QED BY <2>1, <2>2
<1>4. h = [s \in SUBSET T |-> h[s]]
  OBVIOUS
<1> HIDE DEF h
<1>5. ViewSolves(v, h, T)
  BY <1>3, <1>4 DEF ViewSolves
<1>6. ViewSolves(v, ViewIter(v, T), T)
  BY <1>5 DEF ViewIter
<1> QED BY <1>1, <1>6

\* Whether a row asks for a like.
Likes(e) == e.kind = "like"

\* What a row does to the state it is laid over.
LEMMA OverlayLikes ==
    ASSUME NEW e \in OutboxEntry, NEW view, view.liked \in BOOLEAN
    PROVE  Overlay(e, view).liked = Likes(e)
BY DEF Overlay, Likes, OutboxEntry, OutboxKind

\* The state shown is the server's when nothing is pending, and otherwise what
\* the last pending row asks for, whatever the others do.
THEOREM LastRowShows ==
    ASSUME NEW post, post.liked \in BOOLEAN, NEW entries \in SUBSET OutboxEntry,
           IsFiniteSet(Pending(entries))
    PROVE  /\ Pending(entries) = {} => DeriveLikeState(post, entries).liked = post.liked
           /\ Pending(entries) # {} =>
                DeriveLikeState(post, entries).liked = Likes(LastRow(Pending(entries)))
<1> DEFINE v == ViewOf(post)
           P == Pending(entries)
           g == ViewIter(v, P)
           Bad == {S \in SUBSET P : g[S].liked \notin BOOLEAN}
<1>0. P \in SUBSET OutboxEntry /\ v.liked = post.liked
  BY DEF Pending, ViewOf
<1>1. ViewSolves(v, g, P)
  <2> HIDE DEF P, v
  <2> QED BY <1>0, ViewIterSolves DEF P
<1> HIDE DEF g, v
<1>2. \A S \in SUBSET P : g[S] = ViewStep(v, g, S)
  BY <1>1 DEF ViewSolves
<1>3. Bad = {}
  <2> SUFFICES ASSUME Bad # {} PROVE FALSE
    OBVIOUS
  <2>1. Bad \in SUBSET (SUBSET P) /\ IsFiniteSet(P)
    OBVIOUS
  <2>2. PICK S \in Bad : \A R \in Bad : R \subseteq S => R = S
    <3> HIDE DEF Bad, P
    <3> QED BY <2>1, SmallestSubset
  <2> HIDE DEF P
  <2>3. S # {}
    BY <1>0, <1>2 DEF ViewStep
  <2>4. LastRow(S) \in S
    BY <1>0, <2>3, FirstAndLastRow
  <2>5. S \ {LastRow(S)} \in SUBSET P /\ S \ {LastRow(S)} \notin Bad
    BY <2>2, <2>4
  <2>6. g[S \ {LastRow(S)}].liked \in BOOLEAN
    BY <2>5
  <2>7. LastRow(S) \in OutboxEntry
    BY <1>0, <2>4
  <2>8. Overlay(LastRow(S), g[S \ {LastRow(S)}]).liked = Likes(LastRow(S))
    BY <2>6, <2>7, OverlayLikes
  <2>9. g[S].liked = Likes(LastRow(S))
    BY <1>2, <2>3, <2>8 DEF ViewStep
  <2> QED BY <2>9 DEF Likes
<1>4. DeriveLikeState(post, entries) = g[P]
  BY DeriveIsIter DEF g, v
<1>5. g[P] = ViewStep(v, g, P)
  BY <1>2
<1>6. CASE P = {}
  BY <1>0, <1>4, <1>5, <1>6 DEF ViewStep
<1>7. CASE P # {}
  <2> HIDE DEF P
  <2>1. LastRow(P) \in P /\ LastRow(P) \in OutboxEntry
    BY <1>0, <1>7, FirstAndLastRow
  <2>2. P \ {LastRow(P)} \in SUBSET P
    OBVIOUS
  <2>3. g[P \ {LastRow(P)}].liked \in BOOLEAN
    BY <1>3, <2>2
  <2>4. Overlay(LastRow(P), g[P \ {LastRow(P)}]).liked = Likes(LastRow(P))
    BY <2>1, <2>3, OverlayLikes
  <2>5. g[P].liked = Likes(LastRow(P))
    BY <1>5, <1>7, <2>4 DEF ViewStep
  <2> QED BY <1>4, <1>7, <2>5 DEF P
<1> QED BY <1>6, <1>7

-----------------------------------------------------------------------------
(* What is pending for one post *)

PendingOf(rows, p) == Pending(ForPost(rows, p))

\* The rows pending for a post alternate, and all but the last have been
\* refused before: that is why taking back one row takes back one wish.
Alternate(rows) ==
    \A e, f \in rows : e.id < f.id =>
        /\ e.attempts > 0
        /\ (\A g \in rows : g.id <= e.id \/ f.id <= g.id) => Likes(e) # Likes(f)

\* The last row asks for what the user wants.
EndsIn(rows, wish) == \A e \in Latest(rows) : Likes(e) = wish

\* With nothing pending, a copy of the post has what the user wants; while the
\* first row has yet to be asked for, it has the opposite of that row.
StartsFrom(rows, wish, asked, liked) ==
    /\ rows = {} => liked = wish
    /\ \A e \in Earliest(rows) : e.id \notin asked => liked # Likes(e)

\* Rows that differ in their age and in how often they were refused only.
SameWrites(rows, others) ==
    /\ \A f \in others : \E e \in rows :
          e.id = f.id /\ e.kind = f.kind /\ (e.attempts > 0 => f.attempts > 0)
    /\ \A e \in rows : \E f \in others : e.id = f.id /\ e.kind = f.kind

LEMMA SameWritesKeep ==
    ASSUME NEW R \in SUBSET OutboxEntry, NEW Q \in SUBSET OutboxEntry, SameWrites(R, Q),
           NEW wish, NEW asked, NEW more, asked \subseteq more
    PROVE  /\ Alternate(R) => Alternate(Q)
           /\ EndsIn(R, wish) => EndsIn(Q, wish)
           /\ \A liked : StartsFrom(R, wish, asked, liked) => StartsFrom(Q, wish, more, liked)
           /\ \A x \in Earliest(R) : \E y \in Earliest(Q) : y.id = x.id
<1>1. Alternate(R) => Alternate(Q)
  <2> SUFFICES ASSUME Alternate(R), NEW e \in Q, NEW f \in Q, e.id < f.id
               PROVE  /\ e.attempts > 0
                      /\ (\A g \in Q : g.id <= e.id \/ f.id <= g.id) => Likes(e) # Likes(f)
    BY DEF Alternate
  <2>1. PICK e0 \in R : e0.id = e.id /\ e0.kind = e.kind /\ (e0.attempts > 0 => e.attempts > 0)
    BY DEF SameWrites
  <2>2. PICK f0 \in R : f0.id = f.id /\ f0.kind = f.kind
    BY DEF SameWrites
  <2>3. (\A g \in Q : g.id <= e.id \/ f.id <= g.id) => \A g \in R : g.id <= e.id \/ f.id <= g.id
    BY DEF SameWrites
  <2> QED BY <2>1, <2>2, <2>3 DEF Alternate, Likes
<1>2. \A f \in Q : f \in Latest(Q) => \E e \in Latest(R) : e.kind = f.kind
  BY DEF SameWrites, Latest
<1>3. EndsIn(R, wish) => EndsIn(Q, wish)
  BY <1>2 DEF EndsIn, Likes, Latest
<1>4. \A f \in Q : f \in Earliest(Q) => \E e \in Earliest(R) : e.kind = f.kind /\ e.id = f.id
  BY DEF SameWrites, Earliest
<1>5. R = {} <=> Q = {}
  BY DEF SameWrites
<1>6. \A liked : StartsFrom(R, wish, asked, liked) => StartsFrom(Q, wish, more, liked)
  <2> SUFFICES ASSUME NEW liked, StartsFrom(R, wish, asked, liked)
               PROVE  StartsFrom(Q, wish, more, liked)
    OBVIOUS
  <2>1. ASSUME NEW f \in Earliest(Q), f.id \notin more PROVE liked # Likes(f)
    <3>1. PICK e \in Earliest(R) : e.kind = f.kind /\ e.id = f.id
      BY <1>4 DEF Earliest
    <3> QED BY <2>1, <3>1 DEF StartsFrom, Likes
  <2> QED BY <1>5, <2>1 DEF StartsFrom
<1>7. \A x \in Earliest(R) : \E y \in Earliest(Q) : y.id = x.id
  BY DEF SameWrites, Earliest
<1> QED BY <1>1, <1>3, <1>6, <1>7

\* The first row is carried out: the copy has what it asked for.
LEMMA FirstTaken ==
    ASSUME NEW R \in SUBSET OutboxEntry, UniqueIds(R), NEW e \in Earliest(R),
           NEW wish, NEW asked, Alternate(R), EndsIn(R, wish)
    PROVE  /\ Alternate(R \ {e})
           /\ EndsIn(R \ {e}, wish)
           /\ StartsFrom(R \ {e}, wish, asked, Likes(e))
<1> DEFINE Q == R \ {e}
<1>1. e \in R /\ \A f \in Q : e.id < f.id /\ f.id \in Int
  <2>1. e \in R /\ \A f \in R : e.id <= f.id
    BY DEF Earliest
  <2>2. \A f \in R : f.id \in Int
    BY DEF OutboxEntry, Ids
  <2>3. \A f \in Q : e.id # f.id
    BY <2>1 DEF UniqueIds
  <2> QED BY <2>1, <2>2, <2>3
<1>2. e.id \in Int
  BY <1>1 DEF OutboxEntry, Ids
<1> HIDE DEF Q
<1>0. R = Q \cup {e} /\ e \notin Q
  BY <1>1 DEF Q
<1>3. Alternate(Q)
  <2> SUFFICES ASSUME NEW a \in Q, NEW b \in Q, a.id < b.id
               PROVE  /\ a.attempts > 0
                      /\ (\A g \in Q : g.id <= a.id \/ b.id <= g.id) => Likes(a) # Likes(b)
    BY DEF Alternate
  <2>1. e.id <= a.id
    BY <1>1, <1>2
  <2> QED BY <1>0, <2>1 DEF Alternate
<1>4. EndsIn(Q, wish)
  <2>1. \A f \in Latest(Q) : f \in Latest(R)
    BY <1>0, <1>1, <1>2 DEF Latest
  <2> QED BY <2>1 DEF EndsIn
<1>5. Q = {} => Likes(e) = wish
  <2>1. Q = {} => e \in Latest(R)
    BY <1>0, <1>2 DEF Latest
  <2> QED BY <2>1 DEF EndsIn
<1>6. \A f \in Earliest(Q) : Likes(e) # Likes(f)
  <2> TAKE f \in Earliest(Q)
  <2>1. f \in Q /\ \A g \in Q : f.id <= g.id
    BY DEF Earliest
  <2>2. \A g \in R : g.id <= e.id \/ f.id <= g.id
    BY <1>0, <1>2, <2>1
  <2> QED BY <1>0, <1>1, <2>1, <2>2 DEF Alternate
<1> QED BY <1>3, <1>4, <1>5, <1>6 DEF StartsFrom, Q

\* The last row is taken back before it was asked for, and with it the wish.
LEMMA LastTakenBack ==
    ASSUME NEW R \in SUBSET OutboxEntry, UniqueIds(R), NEW l \in Latest(R),
           NEW wish \in BOOLEAN, NEW asked, l.id \notin asked, Alternate(R), EndsIn(R, wish)
    PROVE  /\ Alternate(R \ {l})
           /\ EndsIn(R \ {l}, ~wish)
           /\ \A liked \in BOOLEAN : StartsFrom(R, wish, asked, liked)
                                       => StartsFrom(R \ {l}, ~wish, asked, liked)
<1> DEFINE Q == R \ {l}
<1>1. l \in R /\ \A f \in Q : f.id < l.id /\ f.id \in Int
  <2>1. l \in R /\ \A f \in R : l.id >= f.id
    BY DEF Latest
  <2>2. \A f \in R : f.id \in Int
    BY DEF OutboxEntry, Ids
  <2>3. \A f \in Q : l.id # f.id
    BY <2>1 DEF UniqueIds
  <2> QED BY <2>1, <2>2, <2>3
<1>2. l.id \in Int /\ Likes(l) = wish /\ \A f : Likes(f) \in BOOLEAN
  BY <1>1 DEF OutboxEntry, Ids, EndsIn, Likes
<1> HIDE DEF Q
<1>0. R = Q \cup {l} /\ l \notin Q
  BY <1>1 DEF Q
<1>3. Alternate(Q)
  <2> SUFFICES ASSUME NEW a \in Q, NEW b \in Q, a.id < b.id
               PROVE  /\ a.attempts > 0
                      /\ (\A g \in Q : g.id <= a.id \/ b.id <= g.id) => Likes(a) # Likes(b)
    BY DEF Alternate
  <2>1. b.id <= l.id
    BY <1>1, <1>2
  <2> QED BY <1>0, <2>1 DEF Alternate
<1>4. EndsIn(Q, ~wish)
  <2> SUFFICES ASSUME NEW f \in Latest(Q) PROVE Likes(f) = ~wish
    BY DEF EndsIn
  <2>1. f \in Q /\ \A g \in Q : f.id >= g.id
    BY DEF Latest
  <2>2. \A g \in R : g.id <= f.id \/ l.id <= g.id
    BY <1>0, <1>1, <1>2, <2>1
  <2>3. Likes(f) # Likes(l)
    BY <1>0, <1>1, <2>1, <2>2 DEF Alternate
  <2> QED BY <1>2, <2>3
<1>5. ASSUME NEW liked \in BOOLEAN, StartsFrom(R, wish, asked, liked)
      PROVE  StartsFrom(Q, ~wish, asked, liked)
  <2>1. CASE Q = {}
    <3>1. l \in Earliest(R)
      BY <1>0, <1>2, <2>1 DEF Earliest
    <3>2. liked # Likes(l)
      BY <1>5, <3>1 DEF StartsFrom
    <3> QED BY <1>2, <2>1, <3>2 DEF StartsFrom, Earliest
  <2>2. CASE Q # {}
    <3>1. \A f \in Earliest(Q) : f \in Earliest(R)
      BY <1>0, <1>1, <1>2 DEF Earliest
    <3> QED BY <1>5, <2>2, <3>1 DEF StartsFrom
  <2> QED BY <2>1, <2>2
<1> QED BY <1>3, <1>4, <1>5 DEF Q

\* A row is added after the others, for the opposite of what was wanted so far.
LEMMA LastAdded ==
    ASSUME NEW R \in SUBSET OutboxEntry, NEW n \in OutboxEntry, \A e \in R : e.id < n.id,
           NEW wish \in BOOLEAN, Likes(n) = ~wish, \A e \in Latest(R) : e.attempts > 0,
           NEW asked, Alternate(R), EndsIn(R, wish)
    PROVE  /\ Alternate(R \cup {n})
           /\ EndsIn(R \cup {n}, ~wish)
           /\ \A liked \in BOOLEAN : StartsFrom(R, wish, asked, liked)
                                       => StartsFrom(R \cup {n}, ~wish, asked, liked)
           /\ \A x \in Earliest(R) : x \in Earliest(R \cup {n})
<1> DEFINE Q == R \cup {n}
<1>0. n.id \in Int /\ \A e \in R : e.id \in Int /\ e.id < n.id
  BY DEF OutboxEntry, Ids
<1>1. \A e \in R : e.attempts > 0
  <2> TAKE e \in R
  <2>1. CASE e \in Latest(R)
    BY <2>1
  <2>2. CASE e \notin Latest(R)
    <3>1. PICK f \in R : ~(e.id >= f.id)
      BY <2>2 DEF Latest
    <3>2. e.id < f.id
      BY <1>0, <3>1
    <3> QED BY <3>2 DEF Alternate
  <2> QED BY <2>1, <2>2
<1>2. Alternate(Q)
  <2> SUFFICES ASSUME NEW a \in Q, NEW b \in Q, a.id < b.id
               PROVE  /\ a.attempts > 0
                      /\ (\A g \in Q : g.id <= a.id \/ b.id <= g.id) => Likes(a) # Likes(b)
    BY DEF Alternate
  <2>1. a \in R
    BY <1>0
  <2>2. CASE b \in R
    BY <2>1, <2>2 DEF Alternate
  <2>3. CASE b = n
    <3>1. ASSUME \A g \in Q : g.id <= a.id \/ b.id <= g.id PROVE a \in Latest(R)
      BY <1>0, <2>1, <2>3, <3>1 DEF Latest
    <3> QED BY <1>1, <2>1, <2>3, <3>1 DEF EndsIn
  <2> QED BY <2>2, <2>3
<1>3. EndsIn(Q, ~wish)
  <2>1. \A f \in Latest(Q) : f = n
    BY <1>0 DEF Latest
  <2> QED BY <2>1 DEF EndsIn
<1>4. ASSUME NEW liked \in BOOLEAN, StartsFrom(R, wish, asked, liked)
      PROVE  StartsFrom(Q, ~wish, asked, liked)
  <2>1. CASE R = {}
    <3>1. liked = wish
      BY <1>4, <2>1 DEF StartsFrom
    <3> QED BY <2>1, <3>1 DEF StartsFrom, Earliest
  <2>2. CASE R # {}
    <3>1. \A f \in Earliest(Q) : f \in Earliest(R)
      BY <1>0, <2>2 DEF Earliest
    <3> QED BY <1>4, <2>2, <3>1 DEF StartsFrom
  <2> QED BY <2>1, <2>2
<1>5. \A x \in Earliest(R) : x \in Earliest(Q)
  BY <1>0 DEF Earliest
<1> QED BY <1>2, <1>3, <1>4, <1>5 DEF Q

=============================================================================
