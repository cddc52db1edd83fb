------------------------- MODULE OfflineWriteProofs -------------------------
(***************************************************************************)
(* Theorems about the writes of the offline feed and its cursor: a like is *)
(* counted once, only the server's refusals spend the attempts of a write, *)
(* no write is lost, what is shown and what reaches the server is what the *)
(* user asked for, nothing is behind the cursor, and a sync ends with the  *)
(* newest posts.                                                           *)
(***************************************************************************)
EXTENDS OfflineFeedProofs

-----------------------------------------------------------------------------
(* A like is counted once *)

\* The server's posts change by AcceptLike, DeletePost and PublishPost alone.
LEMMA ServerChanges ==
    ASSUME [Next]_vars
    PROVE  \/ server' = server
           \/ \E r \in Runs : AcceptLike(r)
           \/ \E p \in Posts : DeletePost(p) \/ PublishPost(p)
<1> USE DEF serverVars
<1>1. ASSUME NEW r \in Runs, PushStep(r)
      PROVE  server' = server \/ AcceptLike(r)
  BY <1>1 DEF PushStep, PlanPush, RefuseLike, LikeUnreachable, ApplyServerLike,
              DeleteSent, RecordRefusal
<1>2. ASSUME NEW r \in Runs, PullStep(r)
      PROVE  server' = server
  BY <1>2 DEF PullStep, AnswerDelta, FetchFails, Merge, DropImages, DropOrphans,
              EnsureImages, SaveCursor
<1>3. CASE UserStep
  BY <1>3
      DEF UserStep, FeedScreen, DebugScreen, Launch, PruneExpired, TriggerSync, ClearAll,
          ClearImages, ToggleLike
<1>4. CASE GoOffline \/ GoOnline \/ Crash \/ Tick
  BY <1>4 DEF GoOffline, GoOnline, Crash, Tick
<1>5. CASE ScreenStep
  BY <1>5 DEF ScreenStep, WarmImages, ThumbArrives
<1>6. CASE UNCHANGED vars
  BY <1>6 DEF vars
<1> QED
  BY <1>1, <1>2, <1>3, <1>4, <1>5, <1>6 DEF Next, EnvironmentStep, ServerControls

\* However often requests are repeated, after lost answers, crashes or
\* outages, the server counts the user's like of a post once (ADR-005).
THEOREM CountedOnce == Spec => []LikeCountedOnce
<1>1. Init => LikeCountedOnce
  BY DEF Init, LikeCountedOnce
<1>2. TypeOK /\ LikeCountedOnce /\ [Next]_vars => LikeCountedOnce'
  <2> SUFFICES ASSUME TypeOK, LikeCountedOnce, [Next]_vars
               PROVE  LikeCountedOnce'
    OBVIOUS
  <2>1. CASE server' = server
    BY <2>1 DEF LikeCountedOnce
  <2>2. ASSUME NEW r \in Runs, AcceptLike(r)
        PROVE  LikeCountedOnce'
    <3>1. PICK e \in Earliest(run[r].todo) :
            server' = [server EXCEPT ![e.post] = SetLike(@, e.kind = "like")]
      BY <2>2 DEF AcceptLike
    <3>2. \A post \in ServerPost, liked \in BOOLEAN :
            post.count = (IF post.liked THEN 1 ELSE 0)
              => SetLike(post, liked).count = IF SetLike(post, liked).liked THEN 1 ELSE 0
      BY DEF SetLike, ServerPost
    <3> QED BY <3>1, <3>2 DEF LikeCountedOnce, TypeOK
  <2>3. ASSUME NEW p \in Posts, DeletePost(p) \/ PublishPost(p)
        PROVE  LikeCountedOnce'
    BY <2>3 DEF DeletePost, PublishPost, LikeCountedOnce, TypeOK, ServerPost
  <2> QED BY <2>1, <2>2, <2>3, ServerChanges
<1> QED
  BY <1>1, <1>2, TypeCorrect, PTL DEF Spec

-----------------------------------------------------------------------------
(* Only refusals spend attempts *)

\* A row of the table, or the copy of it a push works on, has no more attempts
\* than the server refused it, and is pending only below the limit.
Spent(e) ==
    /\ e.attempts <= refusals[e.id]
    /\ e.status = "pending" => e.attempts < MaxAttempts
    /\ e.status = "dead" => refusals[e.id] >= MaxAttempts

\* The copies need their part: they are what a refusal is recorded from, and a
\* refusal answered but not yet recorded is one more than the copy shows.
CopySpent(r) ==
    /\ \A e \in run[r].todo : Spent(e) /\ e.status = "pending"
    /\ run[r].pc = "refused" =>
         \A e \in Earliest(run[r].todo) : e.attempts < refusals[e.id]

AttemptsInv ==
    /\ \A e \in outbox : Spent(e)
    /\ \A r \in Runs : CopySpent(r)

\* A run that gives up its copies has nothing left to show.
LEMMA EmptyCopySpent ==
    ASSUME NEW r \in Runs, run'[r].todo = {}
    PROVE  CopySpent(r)'
BY DEF CopySpent, Earliest

\* Proceed hands on some of the copies, refusals unchanged.
LEMMA ProceedSpent ==
    ASSUME TypeOK, NEW r \in Runs, NEW todo \in SUBSET OutboxEntry, Proceed(r, todo),
           \A e \in todo : Spent(e) /\ e.status = "pending",
           refusals' = refusals,
           \A s \in Runs : CopySpent(s)
    PROVE  \A s \in Runs : CopySpent(s)'
<1> SUFFICES ASSUME NEW s \in Runs PROVE CopySpent(s)'
  OBVIOUS
<1>1. run \in [Runs -> Run]
  BY DEF TypeOK
<1>2. CASE s # r
  <2>1. run'[s] = run[s]
    BY <1>1, <1>2 DEF Proceed
  <2> QED BY <2>1 DEF CopySpent, Spent
<1>3. CASE s = r /\ todo = {}
  <2>1. run'[r].todo = {}
    BY <1>1, <1>3 DEF Proceed, Fetching, IdleRun
  <2> QED BY <1>3, <2>1, EmptyCopySpent
<1>4. CASE s = r /\ todo # {}
  <2>1. run'[r].todo = todo /\ run'[r].pc = "wait"
    BY <1>1, <1>4 DEF Proceed, Run
  <2> QED BY <1>4, <2>1 DEF CopySpent, Spent
<1> QED BY <1>2, <1>3, <1>4

\* Every other step of a run keeps its copies, without a refusal, or drops them.
LEMMA CopiesKept ==
    ASSUME TypeOK, NEW r \in Runs,
           refusals' = refusals,
           \A s \in Runs : CopySpent(s),
           \A s \in Runs \ {r} : run'[s] = run[s],
           \/ run'[r].todo = {}
           \/ run'[r].todo = run[r].todo /\ run'[r].pc # "refused"
    PROVE  \A s \in Runs : CopySpent(s)'
<1> SUFFICES ASSUME NEW s \in Runs PROVE CopySpent(s)'
  OBVIOUS
<1>1. CASE s # r
  BY <1>1 DEF CopySpent, Spent
<1>2. CASE s = r /\ run'[r].todo = {}
  BY <1>2, EmptyCopySpent
<1>3. CASE s = r /\ run'[r].todo = run[r].todo /\ run'[r].pc # "refused"
  BY <1>3 DEF CopySpent, Spent
<1> QED BY <1>1, <1>2, <1>3

LEMMA PushSpends ==
    ASSUME TypeOK, AttemptsInv, NEW r \in Runs, PushStep(r)
    PROVE  AttemptsInv'
<1> USE DEF serverVars, storeVars, memoryVars, historyVars
<1> DEFINE todo == run[r].todo
<1>0. /\ run \in [Runs -> Run]
      /\ run[r] \in Run
      /\ todo \in SUBSET OutboxEntry
      /\ \A e \in todo : Spent(e) /\ e.status = "pending"
      /\ \A s \in Runs : CopySpent(s)
  BY DEF TypeOK, Run, AttemptsInv, CopySpent
<1>1. CASE PlanPush(r)
  <2> DEFINE keep == outbox \ Orphans(outbox, PostIds(posts))
             chosen == SelectSendable(keep)
  <2>1. outbox' = keep /\ refusals' = refusals /\ Proceed(r, chosen)
    BY <1>1 DEF PlanPush
  <2>2. chosen \in SUBSET OutboxEntry
    BY DEF SelectSendable, TypeOK
  <2>3. \A e \in chosen : Spent(e) /\ e.status = "pending"
    BY DEF SelectSendable, IsReadyToSend, AttemptsInv
  <2> HIDE DEF chosen
  <2>4. \A s \in Runs : CopySpent(s)'
    BY <1>0, <2>1, <2>2, <2>3, ProceedSpent
  <2> QED BY <2>1, <2>4 DEF AttemptsInv, Spent
<1>2. CASE AcceptLike(r)
  <2>1. run'[r].todo = todo /\ run'[r].pc # "refused"
    BY <1>0, <1>2 DEF AcceptLike, Run
  <2>2. \A s \in Runs : CopySpent(s)'
    BY <1>0, <1>2, <2>1, CopiesKept, RunStepKeepsLock DEF AcceptLike, PushStep
  <2> QED BY <1>2, <2>2 DEF AcceptLike, AttemptsInv, Spent
<1>3. CASE RefuseLike(r)
  <2>1. PICK e \in Earliest(todo) :
          /\ run' = [run EXCEPT ![r].pc = "refused"]
          /\ refusals' = [refusals EXCEPT ![e.id] = LesserOf(@ + 1, MaxAttempts)]
    BY <1>3 DEF RefuseLike
  <2>2. e \in todo /\ e.id \in Ids /\ refusals[e.id] \in 0 .. MaxAttempts
    BY <1>0 DEF Earliest, OutboxEntry, TypeOK
  <2>3. /\ refusals[e.id] <= refusals'[e.id]
        /\ refusals[e.id] < MaxAttempts => refusals'[e.id] = refusals[e.id] + 1
        /\ refusals[e.id] >= MaxAttempts => refusals'[e.id] = MaxAttempts
    BY <2>1, <2>2, RetryPolicyAssumption DEF LesserOf, TypeOK
  <2>4. \A f \in OutboxEntry : Spent(f) => Spent(f)'
    <3> TAKE f \in OutboxEntry
    <3>1. f.id \in Ids /\ refusals[f.id] \in 0 .. MaxAttempts /\ f.attempts \in Nat
      BY DEF OutboxEntry, TypeOK
    <3>2. CASE f.id = e.id
      BY <2>3, <3>1, <3>2, RetryPolicyAssumption DEF Spent
    <3>3. CASE f.id # e.id
      BY <2>1, <3>1, <3>3 DEF Spent, TypeOK
    <3> QED BY <3>2, <3>3
  <2>5. \A f \in Earliest(todo) : f.attempts < refusals'[f.id]
    <3> TAKE f \in Earliest(todo)
    <3>1. f \in todo /\ f \in OutboxEntry /\ f.id <= e.id /\ e.id <= f.id
      BY <1>0, <2>2 DEF Earliest
    <3>2. f.id = e.id
      BY <2>2, <3>1 DEF OutboxEntry, Ids
    <3>3. f.attempts <= refusals[f.id] /\ f.attempts < MaxAttempts /\ f.attempts \in Nat
      BY <1>0, <3>1 DEF Spent, OutboxEntry
    <3> QED BY <2>2, <2>3, <3>2, <3>3, RetryPolicyAssumption
  <2>6. run'[r].todo = todo /\ \A s \in Runs \ {r} : run'[s] = run[s]
    BY <1>0, <2>1 DEF Run
  <2>7. \A s \in Runs : CopySpent(s)'
    <3> TAKE s \in Runs
    <3>1. run[s].todo \in SUBSET OutboxEntry
      BY <1>0 DEF Run
    <3>2. CASE s = r
      BY <1>0, <2>4, <2>5, <2>6, <3>2 DEF CopySpent
    <3>3. CASE s # r
      <4>1. run'[s] = run[s] /\ CopySpent(s)
        BY <1>0, <2>6, <3>3
      <4>2. \A f \in Ids : refusals[f] <= refusals'[f]
        BY <2>1, <2>2, <2>3 DEF TypeOK
      <4>3. \A f \in Earliest(run[s].todo) : f.attempts < refusals[f.id] =>
                                              f.attempts < refusals'[f.id]
        <5> TAKE f \in Earliest(run[s].todo)
        <5>1. f.id \in Ids /\ f.attempts \in Nat
          BY <3>1 DEF Earliest, OutboxEntry
        <5>2. refusals[f.id] \in Int /\ refusals'[f.id] \in Int
          BY <2>1, <2>2, <5>1, RetryPolicyAssumption DEF TypeOK, LesserOf
        <5> QED BY <4>2, <5>1, <5>2
      <4> QED BY <2>4, <3>1, <4>1, <4>3 DEF CopySpent
    <3> QED BY <3>2, <3>3
  <2> QED BY <1>3, <2>4, <2>7 DEF RefuseLike, AttemptsInv, TypeOK
<1>4. CASE LikeUnreachable(r)
  <2>1. run'[r].todo = {}
    BY <1>0, <1>4 DEF LikeUnreachable, Fetching, IdleRun
  <2>2. \A s \in Runs : CopySpent(s)'
    BY <1>0, <1>4, <2>1, CopiesKept, RunStepKeepsLock DEF LikeUnreachable, PushStep
  <2> QED BY <1>4, <2>2 DEF LikeUnreachable, AttemptsInv, Spent
<1>5. CASE ApplyServerLike(r)
  <2>1. run'[r].todo = todo /\ run'[r].pc # "refused"
    BY <1>0, <1>5 DEF ApplyServerLike, Run
  <2>2. \A s \in Runs : CopySpent(s)'
    BY <1>0, <1>5, <2>1, CopiesKept, RunStepKeepsLock DEF ApplyServerLike, PushStep
  <2> QED BY <1>5, <2>2 DEF ApplyServerLike, AttemptsInv, Spent
<1>6. CASE DeleteSent(r)
  <2>1. PICK e \in Earliest(todo) :
          outbox' = {x \in outbox : x.id # e.id} /\ Proceed(r, todo \ {e})
    BY <1>6 DEF DeleteSent
  <2>2. \A s \in Runs : CopySpent(s)'
    BY <1>0, <1>6, <2>1, ProceedSpent DEF DeleteSent
  <2> QED BY <1>6, <2>1, <2>2 DEF DeleteSent, AttemptsInv, Spent
<1>7. CASE RecordRefusal(r)
  <2>1. PICK e \in Earliest(todo) :
          /\ outbox' = {IF x.id = e.id THEN RecordFailure(e, run[r].elapsed) ELSE x :
                            x \in outbox}
          /\ Proceed(r, todo \ {e})
    BY <1>7 DEF RecordRefusal
  <2>2. /\ e \in OutboxEntry /\ Spent(e)
        /\ run[r].pc = "refused" /\ refusals' = refusals
        /\ refusals[e.id] \in 0 .. MaxAttempts
    BY <1>0, <1>7 DEF RecordRefusal, Earliest, OutboxEntry, TypeOK
  <2>3. e.attempts < refusals[e.id]
    BY <1>0, <2>2 DEF CopySpent
  <2>4. Spent(RecordFailure(e, run[r].elapsed))
    <3> DEFINE failed == RecordFailure(e, run[r].elapsed)
    <3>1. run[r].elapsed \in Nat
      BY <1>0, RetryPolicyAssumption DEF Run
    <3>2. failed.id = e.id
      BY <2>2, <3>1, RecordFailureType
    <3>3. /\ failed.attempts = e.attempts + 1
          /\ failed.status = IF e.attempts + 1 >= MaxAttempts THEN "dead" ELSE "pending"
      BY <2>2 DEF RecordFailure, OutboxEntry
    <3>4. e.attempts \in Nat
      BY <2>2 DEF OutboxEntry
    <3> HIDE DEF failed
    <3>5. Spent(failed)
      BY <2>2, <2>3, <3>2, <3>3, <3>4, RetryPolicyAssumption DEF Spent
    <3> QED BY <3>5 DEF failed
  <2>5. \A s \in Runs : CopySpent(s)'
    BY <1>0, <2>1, <2>2, ProceedSpent
  <2> QED BY <2>1, <2>2, <2>4, <2>5 DEF AttemptsInv, Spent
<1> QED
  BY <1>1, <1>2, <1>3, <1>4, <1>5, <1>6, <1>7 DEF PushStep

LEMMA PullSpends ==
    ASSUME TypeOK, AttemptsInv, NEW r \in Runs, PullStep(r)
    PROVE  AttemptsInv'
<1> USE DEF storeVars, historyVars
<1>0. /\ run \in [Runs -> Run]
      /\ \A s \in Runs : CopySpent(s)
  BY DEF TypeOK, AttemptsInv
<1>1. refusals' = refusals /\ outbox' \subseteq outbox
  BY DEF PullStep, AnswerDelta, FetchFails, Merge, DropImages, DropOrphans,
         EnsureImages, SaveCursor
<1>2. \/ run'[r].todo = {}
      \/ run'[r].todo = run[r].todo /\ run'[r].pc # "refused"
  <2>1. CASE AnswerDelta(r)
    BY <1>0, <2>1 DEF AnswerDelta, Run
  <2>2. CASE FetchFails(r)
    BY <1>0, <2>2 DEF FetchFails, EndRun, IdleRun
  <2>3. CASE Merge(r)
    BY <1>0, <2>3 DEF Merge, IdleRun
  <2>4. CASE DropImages(r)
    BY <1>0, <2>4 DEF DropImages, Run
  <2>5. CASE DropOrphans(r)
    BY <1>0, <2>5 DEF DropOrphans, Run
  <2>6. CASE EnsureImages(r)
    BY <1>0, <2>6 DEF EnsureImages, Run
  <2>7. CASE SaveCursor(r)
    BY <1>0, <2>7 DEF SaveCursor, EndRun, IdleRun
  <2> QED BY <2>1, <2>2, <2>3, <2>4, <2>5, <2>6, <2>7 DEF PullStep
<1>3. \A s \in Runs : CopySpent(s)'
  BY <1>0, <1>1, <1>2, CopiesKept, RunStepKeepsLock
<1> QED BY <1>1, <1>3 DEF AttemptsInv, Spent

\* A tap deletes rows of the table, or adds the one row nextId names.
LEMMA ToggleRows ==
    ASSUME TypeOK, NEW row \in posts, ToggleLike(row)
    PROVE  \A x \in outbox' \ outbox :
             /\ x.id = nextId /\ x.id \in Ids
             /\ x.attempts = 0 /\ x.status = "pending"
<1> DEFINE forPost == ForPost(outbox, row.id)
           kind    == NextLikeAction(DeriveLikeState(row, forPost))
           entry   == [id |-> nextId, post |-> row.id, kind |-> kind, attempts |-> 0,
                       since |-> 0, status |-> "pending"]
           plan    == PlanEnqueue(forPost, entry)
<1>1. /\ outbox' = (outbox \ plan.delete) \cup plan.insert
      /\ nextId <= MaxTaps \/ plan.insert = {}
  BY DEF ToggleLike
<1>2. plan.insert \in {{}, {entry}}
  BY DEF PlanEnqueue
<1>3. /\ entry.id = nextId
      /\ entry.attempts = 0 /\ entry.status = "pending"
  OBVIOUS
<1> HIDE DEF plan, entry
<1>4. nextId \in 1 .. MaxTaps + 1
  BY DEF TypeOK
<1> QED BY <1>1, <1>2, <1>3, <1>4, RetryPolicyAssumption DEF Ids

\* A call for a sync leaves every run with the copies it had.
LEMMA SyncSpends ==
    ASSUME TypeOK, \A s \in Runs : CopySpent(s), refusals' = refusals,
           NEW connected, Sync(connected)
    PROVE  \A s \in Runs : CopySpent(s)'
<1>1. \A s \in Runs : /\ run'[s].todo = run[s].todo
                      /\ run'[s].pc = "refused" => run[s].pc = "refused"
  BY DEF Sync, EngineSync, TypeOK, Run
<1> QED BY <1>1 DEF CopySpent, Spent

\* A write is spent by error answers of the server alone, and never given up
\* before MaxAttempts of them (ADR-005), across outages, lost answers, crashes
\* and pushes that work on stale copies of the outbox.
THEOREM RefusalsSpend == Spec => []OnlyRefusalsSpendAttempts
<1> USE DEF serverVars, storeVars, memoryVars, historyVars
<1>1. Init => AttemptsInv
  BY DEF Init, AttemptsInv, CopySpent, IdleRun
<1>2. TypeOK /\ AttemptsInv /\ [Next]_vars => AttemptsInv'
  <2> SUFFICES ASSUME TypeOK, AttemptsInv, [Next]_vars
               PROVE  AttemptsInv'
    OBVIOUS
  <2>0. /\ \A s \in Runs : CopySpent(s)
        /\ \A e \in outbox : Spent(e)
    BY DEF AttemptsInv
  <2>1. ASSUME NEW r \in Runs, PushStep(r) \/ PullStep(r)
        PROVE  AttemptsInv'
    BY <2>1, PushSpends, PullSpends
  <2>2. CASE Launch
    BY <2>0, <2>2, SyncSpends DEF Launch, PruneExpired, AttemptsInv, Spent
  <2>3. CASE TriggerSync
    BY <2>0, <2>3, SyncSpends DEF TriggerSync, AttemptsInv, Spent
  <2>4. CASE ClearAll
    BY <2>0, <2>4 DEF ClearAll, AttemptsInv, CopySpent, Spent
  <2>5. ASSUME NEW row \in posts, ToggleLike(row)
        PROVE  AttemptsInv'
    <3>1. \A x \in outbox' \ outbox :
            x.attempts = 0 /\ x.status = "pending" /\ x.id \in Ids
      BY <2>5, ToggleRows
    <3>2. \A x \in outbox' \ outbox : Spent(x)
      BY <3>1, RetryPolicyAssumption DEF Spent, TypeOK
    <3>3. \A s \in Runs : CopySpent(s)'
      BY <2>0, <2>5, SyncSpends DEF ToggleLike
    <3> QED BY <2>0, <2>5, <3>2, <3>3 DEF ToggleLike, AttemptsInv, Spent
  <2>6. CASE GoOffline
    BY <2>0, <2>6 DEF GoOffline, AttemptsInv, CopySpent, Spent
  <2>7. CASE GoOnline
    BY <2>0, <2>7, SyncSpends DEF GoOnline, AttemptsInv, Spent
  <2>8. CASE Crash
    BY <2>0, <2>8 DEF Crash, AttemptsInv, CopySpent, Spent, IdleRun
  <2>9. CASE Tick
    <3>1. \A e \in outbox' : Spent(e)
      BY <2>0, <2>9 DEF Tick, Spent, TypeOK, OutboxEntry
    <3>2. \A s \in Runs : run'[s].todo = run[s].todo /\ run'[s].pc = run[s].pc
      BY <2>9 DEF Tick, TypeOK, Run
    <3> QED BY <2>0, <2>9, <3>1, <3>2 DEF Tick, AttemptsInv, CopySpent, Spent
  <2>10. ASSUME NEW p \in Posts, DeletePost(p) \/ PublishPost(p)
         PROVE  AttemptsInv'
    BY <2>0, <2>10 DEF DeletePost, PublishPost, AttemptsInv, CopySpent, Spent
  <2>11. CASE ClearImages \/ ScreenStep
    BY <2>0, <2>11 DEF ClearImages, ScreenStep, WarmImages, ThumbArrives,
                       AttemptsInv, CopySpent, Spent
  <2>12. CASE UNCHANGED vars
    BY <2>0, <2>12 DEF vars, AttemptsInv, CopySpent, Spent
  <2> QED
    BY <2>1, <2>2, <2>3, <2>4, <2>5, <2>6, <2>7, <2>8, <2>9, <2>10, <2>11, <2>12
    DEF Next, UserStep, FeedScreen, DebugScreen, EnvironmentStep, ServerControls
<1>3. AttemptsInv => OnlyRefusalsSpendAttempts
  BY DEF AttemptsInv, Spent, OnlyRefusalsSpendAttempts
<1> QED
  BY <1>1, <1>2, <1>3, TypeCorrect, PTL DEF Spec

-----------------------------------------------------------------------------
(* No write is lost *)

\* The rows of the table and what is on record of them agree.
RowsInv ==
    /\ \A e, f \in outbox : e.id = f.id => e = f
    /\ \A e \in outbox : e.id < nextId
    /\ \A i \in Ids : (fate[i] = "queued") <=> (\E e \in outbox : e.id = i)
    /\ \A i \in Ids : fate[i] = "sent" => \E p \in Posts : i \in arrived[p]

\* A run with an acknowledgement in hand has it of a write that has arrived.
CopyArrived(r) ==
    run[r].pc \in {"acked", "applied"} =>
        \A e \in Earliest(run[r].todo) : \E p \in Posts : e.id \in arrived[p]

WriteInv == RowsInv /\ \A r \in Runs : CopyArrived(r)

\* Rows taken from the table for another reason than that they were sent.
LEMMA RowsGone ==
    ASSUME TypeOK, RowsInv,
           NEW gone \in SUBSET outbox, NEW end \in Fates \ {"queued", "sent"},
           outbox' = outbox \ gone, fate' = Fated(gone, end),
           arrived' = arrived, nextId' = nextId
    PROVE  RowsInv'
<1>1. \A i \in Ids : fate'[i] = IF \E e \in gone : e.id = i THEN end ELSE fate[i]
  BY DEF Fated
<1>2. \A i \in Ids : (fate'[i] = "queued") <=> (\E e \in outbox' : e.id = i)
  <2> TAKE i \in Ids
  <2>1. CASE \E e \in gone : e.id = i
    BY <1>1, <2>1 DEF RowsInv
  <2>2. CASE ~\E e \in gone : e.id = i
    BY <1>1, <2>2 DEF RowsInv
  <2> QED BY <2>1, <2>2
<1>3. \A i \in Ids : fate'[i] = "sent" => \E p \in Posts : i \in arrived'[p]
  BY <1>1 DEF RowsInv
<1> QED BY <1>2, <1>3 DEF RowsInv

LEMMA RowsStay ==
    ASSUME RowsInv, outbox' = outbox, fate' = fate, arrived' = arrived, nextId' = nextId
    PROVE  RowsInv'
BY DEF RowsInv

\* A run that has no new acknowledgement keeps the one it had, if any.
LEMMA CopiesStay ==
    ASSUME \A s \in Runs : CopyArrived(s), arrived' = arrived,
           \A s \in Runs : \/ run'[s].pc \notin {"acked", "applied"}
                           \/ /\ run'[s].todo = run[s].todo
                              /\ run[s].pc \in {"acked", "applied"}
    PROVE  \A s \in Runs : CopyArrived(s)'
BY DEF CopyArrived

LEMMA ProceedArrived ==
    ASSUME TypeOK, NEW r \in Runs, NEW todo, Proceed(r, todo), arrived' = arrived,
           \A s \in Runs : CopyArrived(s)
    PROVE  \A s \in Runs : CopyArrived(s)'
<1>1. run \in [Runs -> Run]
  BY DEF TypeOK
<1>2. \A s \in Runs \ {r} : run'[s] = run[s]
  BY <1>1 DEF Proceed
<1>3. run'[r].pc \in {"fetch", "wait"}
  BY <1>1 DEF Proceed, Fetching, IdleRun, Run
<1> QED BY <1>2, <1>3, CopiesStay

LEMMA SyncArrived ==
    ASSUME TypeOK, \A s \in Runs : CopyArrived(s), arrived' = arrived,
           NEW connected, Sync(connected)
    PROVE  \A s \in Runs : CopyArrived(s)'
<1>1. \A s \in Runs : run'[s] = run[s] \/ run'[s].pc = "push"
  BY DEF Sync, EngineSync, TypeOK, Run
<1> QED BY <1>1, CopiesStay

LEMMA PushLosesNothing ==
    ASSUME TypeOK, WriteInv, NEW r \in Runs, PushStep(r)
    PROVE  WriteInv'
<1> USE DEF storeVars, historyVars
<1> DEFINE todo == run[r].todo
<1>0. /\ run \in [Runs -> Run]
      /\ todo \in SUBSET OutboxEntry
      /\ \A s \in Runs : CopyArrived(s)
      /\ RowsInv
  BY DEF TypeOK, Run, WriteInv
<1>1. CASE PlanPush(r)
  <2> DEFINE gone == Orphans(outbox, PostIds(posts))
  <2>1. /\ outbox' = outbox \ gone /\ fate' = Fated(gone, "orphaned")
        /\ arrived' = arrived /\ nextId' = nextId
        /\ Proceed(r, SelectSendable(outbox \ gone))
    BY <1>1 DEF PlanPush
  <2>2. gone \in SUBSET outbox /\ "orphaned" \in Fates \ {"queued", "sent"}
    BY DEF Orphans, Fates
  <2> HIDE DEF gone
  <2>3. RowsInv'
    BY <1>0, <2>1, <2>2, RowsGone
  <2> QED BY <1>0, <2>1, <2>3, ProceedArrived DEF WriteInv
<1>2. CASE AcceptLike(r)
  <2>1. PICK e \in Earliest(todo) :
          /\ run[r].pc = "wait"
          /\ run' = [run EXCEPT ![r].pc = "acked",
                                ![r].ack = [liked |-> server'[e.post].liked,
                                            count |-> server'[e.post].count]]
          /\ arrived' = [arrived EXCEPT ![e.post] = @ \cup {e.id}]
          /\ outbox' = outbox /\ fate' = fate /\ nextId' = nextId
    BY <1>2 DEF AcceptLike
  <2>2. e \in todo /\ e.post \in Posts
    BY <1>0 DEF Earliest, OutboxEntry
  <2>3. (\A p \in Posts : arrived[p] \subseteq arrived'[p]) /\ e.id \in arrived'[e.post]
    BY <2>1, <2>2 DEF TypeOK
  <2>4. RowsInv'
    BY <1>0, <2>1, <2>3 DEF RowsInv
  <2>5. \A f \in Earliest(todo) : f.id = e.id
    BY <1>0, <2>1 DEF Earliest, OutboxEntry, Ids
  <2>6. run'[r].todo = todo /\ \A s \in Runs \ {r} : run'[s] = run[s]
    BY <1>0, <2>1 DEF Run
  <2>7. CopyArrived(r)'
    BY <2>2, <2>3, <2>5, <2>6 DEF CopyArrived
  <2>8. \A s \in Runs \ {r} : CopyArrived(s)'
    BY <1>0, <2>3, <2>6 DEF CopyArrived
  <2> QED BY <2>4, <2>7, <2>8 DEF WriteInv
<1>3. CASE RefuseLike(r) \/ LikeUnreachable(r) \/ ApplyServerLike(r)
  <2>1. outbox' = outbox /\ fate' = fate /\ arrived' = arrived /\ nextId' = nextId
    BY <1>3 DEF RefuseLike, LikeUnreachable, ApplyServerLike
  <2>2. \A s \in Runs \ {r} : run'[s] = run[s]
    BY <1>3, RunStepKeepsLock DEF PushStep
  <2>3. \/ run'[r].pc \notin {"acked", "applied"}
        \/ run'[r].todo = todo /\ run[r].pc = "acked"
    <3>1. CASE RefuseLike(r)
      BY <1>0, <3>1 DEF RefuseLike, Run
    <3>2. CASE LikeUnreachable(r)
      BY <1>0, <3>2 DEF LikeUnreachable, Fetching, IdleRun
    <3>3. CASE ApplyServerLike(r)
      BY <1>0, <3>3 DEF ApplyServerLike, Run
    <3> QED BY <1>3, <3>1, <3>2, <3>3
  <2>4. \A s \in Runs : CopyArrived(s)'
    BY <1>0, <2>1, <2>2, <2>3, CopiesStay
  <2> QED BY <1>0, <2>1, <2>4, RowsStay DEF WriteInv
<1>4. CASE DeleteSent(r)
  <2>1. PICK e \in Earliest(todo) :
          /\ run[r].pc = "applied"
          /\ outbox' = {x \in outbox : x.id # e.id}
          /\ fate' = [fate EXCEPT ![e.id] = IF @ = "queued" THEN "sent" ELSE @]
          /\ Proceed(r, todo \ {e})
          /\ arrived' = arrived /\ nextId' = nextId
    BY <1>4 DEF DeleteSent
  <2>2. PICK p \in Posts : e.id \in arrived[p]
    BY <1>0, <2>1 DEF CopyArrived
  <2>3. /\ \A i \in Ids \ {e.id} : fate'[i] = fate[i]
        /\ fate'[e.id] # "queued" /\ fate'[e.id] \in {"sent", fate[e.id]}
    <3>1. e.id \in Ids
      BY <1>0, <2>1 DEF Earliest, OutboxEntry
    <3> QED BY <2>1, <3>1 DEF TypeOK
  <2>4. RowsInv'
    <3>1. \A i \in Ids : (fate'[i] = "queued") <=> (\E x \in outbox' : x.id = i)
      BY <1>0, <2>1, <2>3 DEF RowsInv
    <3>2. \A i \in Ids : fate'[i] = "sent" => \E q \in Posts : i \in arrived'[q]
      BY <1>0, <2>1, <2>2, <2>3 DEF RowsInv
    <3> QED BY <1>0, <2>1, <3>1, <3>2 DEF RowsInv
  <2> QED BY <1>0, <2>1, <2>4, ProceedArrived DEF WriteInv
<1>5. CASE RecordRefusal(r)
  <2>1. PICK e \in Earliest(todo) :
          /\ outbox' = {IF x.id = e.id THEN RecordFailure(e, run[r].elapsed) ELSE x :
                            x \in outbox}
          /\ Proceed(r, todo \ {e})
          /\ fate' = fate /\ arrived' = arrived /\ nextId' = nextId
    BY <1>5 DEF RecordRefusal
  <2>2. RecordFailure(e, run[r].elapsed).id = e.id
    BY <1>0, <2>1 DEF RecordFailure, Earliest, OutboxEntry
  <2> DEFINE failed == RecordFailure(e, run[r].elapsed)
  <2> HIDE DEF failed
  <2>3. outbox' = {IF x.id = e.id THEN failed ELSE x : x \in outbox} /\ failed.id = e.id
    BY <2>1, <2>2 DEF failed
  <2>4. /\ \A y \in outbox' : \E x \in outbox : y = (IF x.id = e.id THEN failed ELSE x)
        /\ \A x \in outbox : \E y \in outbox' : y.id = x.id
    BY <2>3
  <2>5. RowsInv'
    <3>1. \A y, z \in outbox' : y.id = z.id => y = z
      BY <1>0, <2>3, <2>4 DEF RowsInv
    <3>2. \A y \in outbox' : y.id < nextId'
      BY <1>0, <2>1, <2>3, <2>4 DEF RowsInv
    <3>3. \A i \in Ids : (\E x \in outbox : x.id = i) <=> (\E y \in outbox' : y.id = i)
      BY <2>3, <2>4
    <3> QED BY <1>0, <2>1, <3>1, <3>2, <3>3 DEF RowsInv
  <2> QED BY <1>0, <2>1, <2>5, ProceedArrived DEF WriteInv
<1> QED
  BY <1>1, <1>2, <1>3, <1>4, <1>5 DEF PushStep

LEMMA PullLosesNothing ==
    ASSUME TypeOK, WriteInv, NEW r \in Runs, PullStep(r)
    PROVE  WriteInv'
<1> USE DEF storeVars, historyVars
<1>0. run \in [Runs -> Run] /\ RowsInv /\ \A s \in Runs : CopyArrived(s)
  BY DEF TypeOK, WriteInv
<1>1. arrived' = arrived /\ nextId' = nextId
  BY DEF PullStep, AnswerDelta, FetchFails, Merge, DropImages, DropOrphans,
         EnsureImages, SaveCursor
<1>2. \/ outbox' = outbox /\ fate' = fate
      \/ DropOrphans(r)
  BY DEF PullStep, AnswerDelta, FetchFails, Merge, DropImages, EnsureImages, SaveCursor
<1>3. RowsInv'
  <2>1. CASE outbox' = outbox /\ fate' = fate
    BY <1>0, <1>1, <2>1, RowsStay
  <2>2. CASE DropOrphans(r)
    <3> DEFINE gone == Orphans(outbox, run[r].merged)
    <3>1. outbox' = outbox \ gone /\ fate' = Fated(gone, "orphaned")
      BY <2>2 DEF DropOrphans
    <3>2. gone \in SUBSET outbox /\ "orphaned" \in Fates \ {"queued", "sent"}
      BY DEF Orphans, Fates
    <3> HIDE DEF gone
    <3> QED BY <1>0, <1>1, <3>1, <3>2, RowsGone
  <2> QED BY <1>2, <2>1, <2>2
<1>4. run'[r].pc \notin {"acked", "applied"}
  <2>1. CASE AnswerDelta(r)
    BY <1>0, <2>1 DEF AnswerDelta, Run
  <2>2. CASE FetchFails(r) \/ SaveCursor(r)
    BY <1>0, <2>2 DEF FetchFails, SaveCursor, EndRun, IdleRun
  <2>3. CASE Merge(r)
    BY <1>0, <2>3 DEF Merge, IdleRun
  <2>4. CASE DropImages(r) \/ DropOrphans(r) \/ EnsureImages(r)
    BY <1>0, <2>4 DEF DropImages, DropOrphans, EnsureImages, Run
  <2> QED BY <2>1, <2>2, <2>3, <2>4 DEF PullStep
<1>5. \A s \in Runs : CopyArrived(s)'
  BY <1>0, <1>1, <1>4, CopiesStay, RunStepKeepsLock
<1> QED BY <1>3, <1>5 DEF WriteInv

\* A tap takes back a row, or queues one whose number is new.
LEMMA ToggleLosesNothing ==
    ASSUME TypeOK, WriteInv, NEW row \in posts, ToggleLike(row)
    PROVE  WriteInv'
<1> USE DEF historyVars
<1> DEFINE forPost == ForPost(outbox, row.id)
           kind    == NextLikeAction(DeriveLikeState(row, forPost))
           entry   == [id |-> nextId, post |-> row.id, kind |-> kind, attempts |-> 0,
                       since |-> 0, status |-> "pending"]
           plan    == PlanEnqueue(forPost, entry)
<1>0. RowsInv /\ \A s \in Runs : CopyArrived(s)
  BY DEF WriteInv
<1>1. /\ nextId <= MaxTaps \/ plan.insert = {}
      /\ outbox' = (outbox \ plan.delete) \cup plan.insert
      /\ nextId' = IF plan.insert = {} THEN nextId ELSE nextId + 1
      /\ fate' = IF plan.insert = {} THEN Fated(plan.delete, "cancelled")
                 ELSE Fated(plan.insert, "queued")
      /\ arrived' = arrived
      /\ Sync(online)
  BY DEF ToggleLike
<1>2. /\ plan.delete \in SUBSET outbox
      /\ plan.insert = {} \/ (plan.insert = {entry} /\ plan.delete = {})
  BY DEF PlanEnqueue, Latest, Cancellable, Pending, ForPost
<1>3. entry.id = nextId
  OBVIOUS
<1> HIDE DEF plan, entry
<1>4. RowsInv'
  <2>1. CASE plan.insert = {}
    BY <1>0, <1>1, <1>2, <2>1, RowsGone DEF Fates
  <2>2. CASE plan.insert = {entry} /\ plan.delete = {}
    <3>1. /\ nextId \in Ids /\ nextId' = nextId + 1
          /\ outbox' = outbox \cup {entry}
      BY <1>1, <2>2, RetryPolicyAssumption DEF TypeOK, Ids
    <3>2. \A i \in Ids : fate'[i] = IF i = nextId THEN "queued" ELSE fate[i]
      BY <1>1, <1>3, <2>2 DEF Fated
    <3>3. \A e \in outbox : e.id \in Ids /\ e.id < nextId
      BY <1>0 DEF RowsInv, TypeOK, OutboxEntry
    <3>4. \A e, f \in outbox' : e.id = f.id => e = f
      BY <1>0, <1>3, <3>1, <3>3 DEF RowsInv, Ids
    <3>5. \A e \in outbox' : e.id < nextId'
      BY <1>3, <3>1, <3>3 DEF Ids
    <3>6. \A i \in Ids : (fate'[i] = "queued") <=> (\E e \in outbox' : e.id = i)
      BY <1>0, <1>3, <3>1, <3>2, <3>3 DEF RowsInv
    <3>7. \A i \in Ids : fate'[i] = "sent" => \E p \in Posts : i \in arrived'[p]
      BY <1>0, <1>1, <3>2 DEF RowsInv
    <3> QED BY <3>4, <3>5, <3>6, <3>7 DEF RowsInv
  <2> QED BY <1>2, <2>1, <2>2
<1>5. \A s \in Runs : CopyArrived(s)'
  BY <1>0, <1>1, SyncArrived
<1> QED BY <1>4, <1>5 DEF WriteInv

\* Time makes rows older, and leaves them and the runs what they are.
LEMMA TickLosesNothing ==
    ASSUME TypeOK, WriteInv, Tick
    PROVE  WriteInv'
<1> USE DEF historyVars
<1>0. /\ RowsInv /\ \A s \in Runs : CopyArrived(s)
      /\ run \in [Runs -> Run] /\ outbox \in SUBSET OutboxEntry
  BY DEF WriteInv, TypeOK
<1>1. fate' = fate /\ arrived' = arrived /\ nextId' = nextId
  BY DEF Tick
<1> DEFINE older(e) == IF e.attempts = 0 THEN e ELSE [e EXCEPT !.since = Older(@, MaxDelay)]
<1>2. outbox' = {older(e) : e \in outbox} /\ \A e \in outbox : older(e).id = e.id
  BY <1>0 DEF Tick, OutboxEntry
<1> HIDE DEF older
<1>3. \A i \in Ids : (\E e \in outbox : e.id = i) <=> (\E e \in outbox' : e.id = i)
  BY <1>2
<1>4. RowsInv'
  BY <1>0, <1>1, <1>2, <1>3 DEF RowsInv
<1>5. \A s \in Runs : run'[s].todo = run[s].todo /\ run'[s].pc = run[s].pc
  BY <1>0 DEF Tick, Run
<1>6. \A s \in Runs : CopyArrived(s)'
  BY <1>0, <1>1, <1>5 DEF CopyArrived
<1> QED BY <1>4, <1>6 DEF WriteInv

LEMMA WriteInvHolds == Spec => []WriteInv
<1> USE DEF serverVars, storeVars, memoryVars, historyVars
<1>1. Init => WriteInv
  BY DEF Init, WriteInv, RowsInv, CopyArrived, IdleRun
<1>2. TypeOK /\ WriteInv /\ [Next]_vars => WriteInv'
  <2> SUFFICES ASSUME TypeOK, WriteInv, [Next]_vars
               PROVE  WriteInv'
    OBVIOUS
  <2>0. RowsInv /\ \A s \in Runs : CopyArrived(s)
    BY DEF WriteInv
  <2>1. ASSUME NEW r \in Runs, PushStep(r) \/ PullStep(r)
        PROVE  WriteInv'
    BY <2>1, PushLosesNothing, PullLosesNothing
  <2>2. CASE Launch
    <3>1. RowsInv'
      BY <2>0, <2>2, RowsStay DEF Launch, PruneExpired
    <3>2. \A s \in Runs : CopyArrived(s)'
      BY <2>0, <2>2, SyncArrived DEF Launch, PruneExpired
    <3> QED BY <3>1, <3>2 DEF WriteInv
  <2>3. CASE TriggerSync
    <3>1. RowsInv'
      BY <2>0, <2>3, RowsStay DEF TriggerSync
    <3>2. \A s \in Runs : CopyArrived(s)'
      BY <2>0, <2>3, SyncArrived DEF TriggerSync
    <3> QED BY <3>1, <3>2 DEF WriteInv
  <2>4. CASE ClearAll
    <3>1. RowsInv'
      BY <2>0, <2>4, RowsGone DEF ClearAll, Fates
    <3>2. \A s \in Runs : CopyArrived(s)'
      BY <2>0, <2>4 DEF ClearAll, CopyArrived
    <3> QED BY <3>1, <3>2 DEF WriteInv
  <2>5. ASSUME NEW row \in posts, ToggleLike(row)
        PROVE  WriteInv'
    BY <2>5, ToggleLosesNothing
  <2>6. CASE GoOnline
    <3>1. RowsInv'
      BY <2>0, <2>6, RowsStay DEF GoOnline
    <3>2. \A s \in Runs : CopyArrived(s)'
      BY <2>0, <2>6, SyncArrived DEF GoOnline
    <3> QED BY <3>1, <3>2 DEF WriteInv
  <2>7. CASE Crash
    <3>1. RowsInv'
      BY <2>0, <2>7, RowsStay DEF Crash
    <3>2. \A s \in Runs : CopyArrived(s)'
      BY <2>7 DEF Crash, CopyArrived, IdleRun
    <3> QED BY <3>1, <3>2 DEF WriteInv
  <2>8. CASE Tick
    BY <2>8, TickLosesNothing
  <2>9. ASSUME \/ GoOffline \/ ClearImages \/ ScreenStep
               \/ \E p \in Posts : DeletePost(p) \/ PublishPost(p)
               \/ UNCHANGED vars
        PROVE  WriteInv'
    <3>1. /\ outbox' = outbox /\ fate' = fate /\ arrived' = arrived /\ nextId' = nextId
          /\ run' = run
      BY <2>9 DEF GoOffline, ClearImages, ScreenStep, WarmImages, ThumbArrives,
                  DeletePost, PublishPost, vars
    <3> QED BY <2>0, <3>1, RowsStay DEF WriteInv, CopyArrived
  <2> QED
    BY <2>1, <2>2, <2>3, <2>4, <2>5, <2>6, <2>7, <2>8, <2>9
    DEF Next, UserStep, FeedScreen, DebugScreen, EnvironmentStep, ServerControls
<1> QED
  BY <1>1, <1>2, TypeCorrect, PTL DEF Spec

\* A row of the outbox is one of a kind, and leaves the table only because the
\* server carried it out, the user took it back, its post is gone or all was
\* cleared: whatever kills, outages and overlapping taps fall between the
\* answer of the server, the update of the post and the deletion of the row.
THEOREM NothingIsLost == Spec => []NoWriteLost
<1>1. WriteInv => NoWriteLost
  BY DEF WriteInv, RowsInv, NoWriteLost
<1> QED
  BY <1>1, WriteInvHolds, PTL

-----------------------------------------------------------------------------
(* Nothing is behind the cursor *)

\* The parts of CursorCoversChanges, as operators of the server's posts, the
\* local rows and the posts let go of.
Mirror(row, post) ==
    row.updatedAt = post.at /\ row.liked = post.liked /\ row.count = post.count

Covered(srv, rows, gone, c) ==
    \A p \in Posts : srv[p].at < c =>
        /\ srv[p].state = "deleted" => \A row \in rows : row.id # p
        /\ srv[p].state = "live" /\ p \notin gone =>
             \E row \in rows : row.id = p /\ Mirror(row, srv[p])

\* A cursor is of the past, and what is older than it is in the rows.
Known(srv, rows, gone, t, c) ==
    c = NoCursor \/ (c \in 0 .. MaxNow /\ c <= t /\ Covered(srv, rows, gone, c))

\* What a delta on its way still says of a server that goes on changing: of the
\* posts that have not changed since, everything.
DeltaHolds(srv, since, incoming, tombstoned, next) ==
    /\ since = NoCursor \/ since <= next
    /\ \A i \in incoming : i.updatedAt <= srv[i.id].at /\ ChangedSince(i.updatedAt, since)
    /\ \A p \in Posts : srv[p].at < next =>
         /\ srv[p].state = "deleted" =>
              /\ \A i \in incoming : i.id # p
              /\ ChangedSince(srv[p].at, since) => p \in tombstoned
         /\ srv[p].state = "live" =>
              /\ p \notin tombstoned
              /\ ChangedSince(srv[p].at, since) =>
                   \E i \in incoming : i.id = p /\ Mirror(i, srv[p])

\* Rows are of posts that were not let go of, and never newer than the server's.
Held(srv, rows, gone) ==
    \A row \in rows : row.id \notin gone /\ row.updatedAt <= srv[row.id].at

\* The posts change at the present instant, or not at all.
LEMMA ServerMoves ==
    ASSUME NEW srv \in [Posts -> ServerPost], NEW new \in [Posts -> ServerPost],
           NEW t \in 0 .. MaxNow,
           \A p \in Posts : srv[p].at <= t,
           \A p \in Posts : new[p] = srv[p] \/ new[p].at = t,
           NEW rows \in SUBSET LocalPost, NEW gone
    PROVE  /\ \A p \in Posts : new[p].at <= t
           /\ \A c \in 0 .. MaxNow :
                c <= t /\ Covered(srv, rows, gone, c) => Covered(new, rows, gone, c)
           /\ Held(srv, rows, gone) => Held(new, rows, gone)
           /\ \A since, tombstoned : \A incoming \in SUBSET RemotePost, next \in 0 .. MaxNow :
                next <= t /\ DeltaHolds(srv, since, incoming, tombstoned, next)
                  => DeltaHolds(new, since, incoming, tombstoned, next)
<1>0. \A p \in Posts : srv[p].at \in 0 .. MaxNow /\ new[p].at \in 0 .. MaxNow
  BY DEF ServerPost
<1>1. \A p \in Posts : srv[p].at <= new[p].at /\ new[p].at <= t
  BY <1>0
<1>2. \A p \in Posts, c \in 0 .. MaxNow : c <= t /\ new[p].at < c => new[p] = srv[p]
  BY <1>0
<1>3. \A c \in 0 .. MaxNow :
        c <= t /\ Covered(srv, rows, gone, c) => Covered(new, rows, gone, c)
  BY <1>2 DEF Covered
<1>4. Held(srv, rows, gone) => Held(new, rows, gone)
  BY <1>0, <1>1 DEF Held, LocalPost
<1>5. ASSUME NEW since, NEW tombstoned, NEW incoming \in SUBSET RemotePost,
             NEW next \in 0 .. MaxNow, next <= t,
             DeltaHolds(srv, since, incoming, tombstoned, next)
      PROVE  DeltaHolds(new, since, incoming, tombstoned, next)
  <2>1. \A i \in incoming : i.updatedAt <= new[i.id].at
    BY <1>0, <1>1, <1>5 DEF DeltaHolds, RemotePost
  <2> QED BY <1>2, <1>5, <2>1 DEF DeltaHolds
<1> QED BY <1>1, <1>3, <1>4, <1>5

\* Rows go with their post let go of, or stay a mirror if they were one.
LEMMA RowsMove ==
    ASSUME NEW srv, NEW rows, NEW new, NEW gone, NEW more, gone \subseteq more,
           \A row \in rows :
             \/ row.id \in more
             \/ \E n \in new : n.id = row.id /\ (Mirror(row, srv[row.id]) =>
                                                   Mirror(n, srv[row.id])),
           \A n \in new : \E row \in rows : row.id = n.id,
           NEW c, Covered(srv, rows, gone, c)
    PROVE  Covered(srv, new, more, c)
<1> SUFFICES ASSUME NEW p \in Posts, srv[p].at < c
             PROVE  /\ srv[p].state = "deleted" => \A row \in new : row.id # p
                    /\ srv[p].state = "live" /\ p \notin more =>
                         \E row \in new : row.id = p /\ Mirror(row, srv[p])
  BY DEF Covered
<1>1. srv[p].state = "deleted" => \A row \in new : row.id # p
  BY DEF Covered
<1>2. ASSUME srv[p].state = "live", p \notin more
      PROVE  \E row \in new : row.id = p /\ Mirror(row, srv[p])
  <2>1. PICK row \in rows : row.id = p /\ Mirror(row, srv[p])
    BY <1>2 DEF Covered
  <2> QED BY <1>2, <2>1
<1> QED BY <1>1, <1>2

\* A merge of rows that know everything before the cursor the delta was asked
\* with yields rows that know everything before the cursor it came with.
LEMMA MergeCovers ==
    ASSUME NEW srv \in [Posts -> ServerPost],
           NEW local \in SUBSET LocalPost, UniqueIds(local),
           NEW incoming \in SUBSET RemotePost, UniqueIds(incoming),
           NEW tombstoned, NEW gone,
           NEW since \in Cursor, NEW next \in 0 .. MaxNow, NEW t \in 0 .. MaxNow,
           Held(srv, local, gone),
           Known(srv, local, gone, t, since),
           DeltaHolds(srv, since, incoming, tombstoned, next),
           NEW merged, merged = MergeDelta(local, incoming, tombstoned),
           NEW after,
           after = (gone \cup PostIds(local) \cup PostIds(incoming)) \ PostIds(merged)
    PROVE  Covered(srv, merged, after, next) /\ Held(srv, merged, after)
<1> DEFINE taken == {i \in incoming : /\ i.id \notin tombstoned
                                      /\ ~\E l \in local : Supersedes(l, i)}
           kept  == {l \in local : l.id \notin tombstoned /\ l.id \notin PostIds(taken)}
           older(l) == [l EXCEPT !.age = 0]
           all == {Cached(i) : i \in taken} \cup {older(l) : l \in kept}
<1>1. merged \subseteq all
  BY DEF MergeDelta, Newest
<1>2. \A i \in incoming : /\ Cached(i).id = i.id /\ Cached(i).updatedAt = i.updatedAt
                          /\ Cached(i).liked = i.liked /\ Cached(i).count = i.count
  BY DEF Cached
<1>3. \A l \in local : /\ older(l).id = l.id /\ older(l).updatedAt = l.updatedAt
                       /\ older(l).liked = l.liked /\ older(l).count = l.count
  BY DEF LocalPost
<1>4. taken \subseteq incoming /\ kept \subseteq local
  OBVIOUS
<1>5. \A i \in taken : i.id \in PostIds(taken)
  BY DEF PostIds
<1>6. \A l \in kept : l.id \notin tombstoned /\ l.id \notin PostIds(taken)
  OBVIOUS
<1>7. \A l \in local : l.id \notin tombstoned /\ l.id \notin PostIds(taken) => l \in kept
  OBVIOUS
<1>8. \A i \in incoming : i.id \notin tombstoned /\ (\A l \in local : ~Supersedes(l, i))
                            => i \in taken
  OBVIOUS
<1>9. /\ \A row \in merged : \/ \E i \in taken : row = Cached(i)
                             \/ \E l \in kept : row = older(l)
      /\ \A i \in taken : Cached(i) \in all
      /\ \A l \in kept : older(l) \in all
  BY <1>1
<1>10. \A x \in PostIds(taken) : \E i \in taken : i.id = x
  BY DEF PostIds
<1> HIDE DEF taken, kept, older, all
<1>11. \A row \in merged : row.updatedAt <= srv[row.id].at /\ row.id \notin after
  <2> TAKE row \in merged
  <2>1. row.id \notin after
    BY DEF PostIds
  <2>2. CASE \E i \in taken : row = Cached(i)
    BY <1>2, <1>4, <2>1, <2>2 DEF DeltaHolds
  <2>3. CASE \E l \in kept : row = older(l)
    BY <1>3, <1>4, <2>1, <2>3 DEF Held
  <2> QED BY <1>9, <2>2, <2>3
<1>12. ASSUME NEW p \in Posts, srv[p].at < next, srv[p].state = "deleted",
              NEW row \in merged, row.id = p
       PROVE  FALSE
  <2>1. \A i \in taken : row # Cached(i)
    BY <1>2, <1>4, <1>12 DEF DeltaHolds
  <2>2. PICK l \in kept : row = older(l)
    BY <1>9, <2>1
  <2>3. l \in local /\ l.id = p /\ p \notin tombstoned
    BY <1>3, <1>4, <1>6, <1>12, <2>2
  <2>4. ~ChangedSince(srv[p].at, since)
    BY <1>12, <2>3 DEF DeltaHolds
  <2>5. since # NoCursor /\ srv[p].at < since
    BY <2>4 DEF ChangedSince, ServerPost, Cursor, NoCursor
  <2> QED BY <1>12, <2>3, <2>5 DEF Known, Covered
<1>13. ASSUME NEW p \in Posts, srv[p].at < next, srv[p].state = "live", p \notin after
       PROVE  \E row \in merged : row.id = p /\ Mirror(row, srv[p])
  <2>0. p \notin tombstoned /\ srv[p].at \in 0 .. MaxNow
    BY <1>13 DEF DeltaHolds, ServerPost
  <2>1. CASE ChangedSince(srv[p].at, since)
    <3>1. PICK i \in incoming : i.id = p /\ Mirror(i, srv[p])
      BY <1>13, <2>1 DEF DeltaHolds
    <3>2. \A l \in local : ~Supersedes(l, i)
      BY <3>1 DEF Supersedes, Held, Mirror, LocalPost, ServerPost
    <3>3. i \in taken
      BY <1>8, <2>0, <3>1, <3>2
    <3>4. p \in PostIds(merged)
      BY <1>13, <3>1 DEF PostIds
    <3>5. PICK row \in merged : row.id = p
      BY <3>4 DEF PostIds
    <3>6. \A l \in kept : l.id # p
      BY <1>5, <1>6, <3>1, <3>3
    <3>7. PICK j \in taken : row = Cached(j)
      BY <1>3, <1>4, <1>9, <3>5, <3>6
    <3>8. j = i
      BY <1>2, <1>4, <3>1, <3>5, <3>7 DEF UniqueIds
    <3> QED BY <1>2, <3>1, <3>5, <3>7, <3>8 DEF Mirror
  <2>2. CASE ~ChangedSince(srv[p].at, since)
    <3>1. since # NoCursor /\ srv[p].at < since /\ since \in 0 .. MaxNow
      BY <2>0, <2>2 DEF ChangedSince, Cursor, NoCursor
    <3>2. \A i \in incoming : i.id # p
      BY <2>0, <3>1 DEF DeltaHolds, ChangedSince, RemotePost
    <3>3. p \notin PostIds(taken)
      BY <1>4, <1>10, <3>2
    <3>4. \A row \in merged : row.id = p => \E l \in local : l.id = p /\ row = older(l)
      BY <1>2, <1>3, <1>4, <1>9, <3>2
    <3>5. p \notin gone
      <4>1. CASE p \in PostIds(merged)
        <5>1. \E l \in local : l.id = p
          BY <3>4, <4>1 DEF PostIds
        <5> QED BY <5>1 DEF Held
      <4>2. CASE p \notin PostIds(merged)
        BY <1>13, <4>2
      <4> QED BY <4>1, <4>2
    <3>6. PICK l \in local : l.id = p /\ Mirror(l, srv[p])
      BY <1>13, <3>1, <3>5 DEF Known, Covered
    <3>7. p \in PostIds(merged)
      BY <1>13, <3>6 DEF PostIds
    <3>8. PICK row \in merged : row.id = p
      BY <3>7 DEF PostIds
    <3>9. row = older(l)
      BY <3>4, <3>6, <3>8 DEF UniqueIds
    <3> QED BY <1>3, <3>6, <3>8, <3>9 DEF Mirror
  <2> QED BY <2>1, <2>2
<1> QED BY <1>11, <1>12, <1>13 DEF Covered, Held

AfterMerge == {"drop", "orphans", "ensure", "commit"}

\* What the server acknowledged is what it has.
Acked(srv, todo, ack) ==
    \A e \in Earliest(todo) :
        ack.liked = srv[e.post].liked /\ ack.count = srv[e.post].count

\* What a run has in hand agrees with the server and with the rows.
RunCovered(r) ==
    /\ run[r].pc \in {"fetch", "merge"} =>
         /\ Known(server, posts, forgotten, now, run[r].since)
         /\ cursor \in {run[r].since, NoCursor}
    /\ run[r].pc = "merge" =>
         DeltaHolds(server, run[r].since, run[r].incoming, run[r].tombstoned, run[r].next)
    /\ run[r].pc \in {"merge"} \cup AfterMerge => run[r].next <= now
    /\ run[r].pc \in AfterMerge => Covered(server, posts, forgotten, run[r].next)
    /\ UniqueIds(run[r].todo)
    /\ run[r].pc = "acked" => Acked(server, run[r].todo, run[r].ack)

CursorInv ==
    /\ \A p \in Posts : server[p].at <= now
    /\ Known(server, posts, forgotten, now, cursor)
    /\ Held(server, posts, forgotten)
    /\ \A r \in Runs : RunCovered(r)

\* A step after which what was covered is covered, and what a delta said still
\* stands.
WorldMoves ==
    /\ now <= now'
    /\ \A c \in 0 .. MaxNow :
         c <= now /\ Covered(server, posts, forgotten, c)
           => Covered(server', posts', forgotten', c)
    /\ \A since, tombstoned : \A incoming \in SUBSET RemotePost, next \in 0 .. MaxNow :
         next <= now /\ DeltaHolds(server, since, incoming, tombstoned, next)
           => DeltaHolds(server', since, incoming, tombstoned, next)

SameRun(s) ==
    /\ run'[s].pc = run[s].pc
    /\ run'[s].todo = run[s].todo /\ run'[s].ack = run[s].ack
    /\ run'[s].since = run[s].since /\ run'[s].incoming = run[s].incoming
    /\ run'[s].tombstoned = run[s].tombstoned /\ run'[s].next = run[s].next

\* A run in which nothing is claimed of the world.
Calm(s) ==
    /\ run[s].pc \in {"idle", "push", "wait", "applied", "refused"}
    /\ UniqueIds(run[s].todo)

LEMMA WorldStays ==
    ASSUME TypeOK, UNCHANGED <<now, server, posts, forgotten>>
    PROVE  WorldMoves
BY DEF WorldMoves, TypeOK

LEMMA KnownCarried ==
    ASSUME TypeOK, TypeOK', WorldMoves, NEW c \in Cursor,
           Known(server, posts, forgotten, now, c)
    PROVE  Known(server', posts', forgotten', now', c)
<1>1. now \in 0 .. MaxNow /\ now' \in 0 .. MaxNow
  BY DEF TypeOK
<1> QED BY <1>1 DEF Known, WorldMoves

LEMMA RunCarried ==
    ASSUME TypeOK, TypeOK', NEW s \in Runs, RunCovered(s), WorldMoves,
           cursor' \in {cursor, NoCursor},
           \/ Calm(s)'
           \/ /\ run[s].pc \in AfterMerge /\ run'[s].pc \in AfterMerge
              /\ run'[s].next = run[s].next /\ run'[s].todo = run[s].todo
           \/ /\ SameRun(s)
              /\ run[s].pc = "acked" => Acked(server', run[s].todo, run[s].ack)
    PROVE  RunCovered(s)'
<1>0. /\ run[s] \in Run /\ run'[s] \in Run
      /\ now \in 0 .. MaxNow /\ now' \in 0 .. MaxNow
  BY DEF TypeOK
<1>1. /\ run[s].next \in 0 .. MaxNow /\ run[s].since \in Cursor
      /\ run[s].incoming \in SUBSET RemotePost
  BY <1>0 DEF Run
<1>2. CASE Calm(s)'
  BY <1>2 DEF Calm, RunCovered, AfterMerge
<1>3. CASE /\ run[s].pc \in AfterMerge /\ run'[s].pc \in AfterMerge
           /\ run'[s].next = run[s].next /\ run'[s].todo = run[s].todo
  BY <1>0, <1>1, <1>3 DEF RunCovered, WorldMoves, AfterMerge
<1>4. CASE /\ SameRun(s)
           /\ run[s].pc = "acked" => Acked(server', run[s].todo, run[s].ack)
  <2>1. run'[s].pc \in {"fetch", "merge"} =>
          /\ Known(server', posts', forgotten', now', run'[s].since)
          /\ cursor' \in {run'[s].since, NoCursor}
    BY <1>1, <1>4, KnownCarried DEF RunCovered, SameRun
  <2>2. run'[s].pc \in {"merge"} \cup AfterMerge => run'[s].next <= now'
    BY <1>0, <1>1, <1>4 DEF RunCovered, SameRun, WorldMoves
  <2>3. run'[s].pc = "merge" =>
          DeltaHolds(server', run'[s].since, run'[s].incoming, run'[s].tombstoned, run'[s].next)
    BY <1>1, <1>4 DEF RunCovered, SameRun, WorldMoves
  <2>4. run'[s].pc \in AfterMerge => Covered(server', posts', forgotten', run'[s].next)
    BY <1>1, <1>4 DEF RunCovered, SameRun, WorldMoves
  <2>5. /\ UniqueIds(run'[s].todo)
        /\ run'[s].pc = "acked" => Acked(server', run'[s].todo, run'[s].ack)
    BY <1>4 DEF RunCovered, SameRun
  <2> QED BY <2>1, <2>2, <2>3, <2>4, <2>5 DEF RunCovered
<1> QED BY <1>2, <1>3, <1>4

\* A step of r that leaves server, rows and cursor alone.
LEMMA OwnStepCovers ==
    ASSUME TypeOK, TypeOK', CursorInv, NEW r \in Runs, PushStep(r) \/ PullStep(r),
           UNCHANGED <<now, server, posts, forgotten, cursor>>, RunCovered(r)'
    PROVE  CursorInv'
<1>1. WorldMoves
  BY WorldStays
<1>2. ASSUME NEW s \in Runs \ {r}
      PROVE  RunCovered(s)'
  <2>1. run'[s] = run[s] /\ RunCovered(s)
    BY RunStepKeepsLock DEF CursorInv
  <2>2. SameRun(s) /\ (run[s].pc = "acked" => Acked(server', run[s].todo, run[s].ack))
    BY <2>1 DEF SameRun, RunCovered
  <2> QED BY <1>1, <2>1, <2>2, RunCarried
<1> QED BY <1>2 DEF CursorInv

LEMMA ProceedCovers ==
    ASSUME TypeOK, CursorInv, NEW r \in Runs, NEW todo \in SUBSET OutboxEntry,
           Proceed(r, todo), UniqueIds(todo),
           UNCHANGED <<now, server, posts, forgotten, cursor>>
    PROVE  RunCovered(r)'
<1>0. run \in [Runs -> Run]
  BY DEF TypeOK
<1>1. CASE todo = {}
  <2>1. run'[r].pc = "fetch" /\ run'[r].todo = {} /\ run'[r].since = cursor
    BY <1>0, <1>1 DEF Proceed, Fetching, IdleRun
  <2> QED BY <2>1 DEF CursorInv, RunCovered, UniqueIds, AfterMerge
<1>2. CASE todo # {}
  <2>1. run'[r].pc = "wait" /\ run'[r].todo = todo
    BY <1>0, <1>2 DEF Proceed, Run
  <2> QED BY <2>1 DEF RunCovered, AfterMerge
<1> QED BY <1>1, <1>2

LEMMA DeltaIsWhole ==
    ASSUME TypeOK, \A p \in Posts : server[p].at <= now, NEW c \in Cursor,
           c = NoCursor \/ c <= now
    PROVE  DeltaHolds(server, c, DeltaPosts(c), DeltaDeleted(c), now)
<1>1. \A i \in DeltaPosts(c) :
        /\ i.id \in Posts /\ i.updatedAt = server[i.id].at
        /\ server[i.id].state = "live" /\ ChangedSince(server[i.id].at, c)
  BY DEF DeltaPosts
<1>2. \A p \in Posts : server[p].state = "live" /\ ChangedSince(server[p].at, c) =>
        \E i \in DeltaPosts(c) : i.id = p /\ Mirror(i, server[p])
  <2> SUFFICES ASSUME NEW p \in Posts, server[p].state = "live",
                      ChangedSince(server[p].at, c)
               PROVE  \E i \in DeltaPosts(c) : i.id = p /\ Mirror(i, server[p])
    OBVIOUS
  <2> DEFINE i == [id |-> p, updatedAt |-> server[p].at, liked |-> server[p].liked,
                   count |-> server[p].count]
  <2>1. i \in DeltaPosts(c)
    BY DEF DeltaPosts
  <2>2. i.id = p /\ Mirror(i, server[p])
    BY DEF Mirror
  <2> QED BY <2>1, <2>2
<1>3. \A p \in Posts : server[p].at \in 0 .. MaxNow
  BY DEF TypeOK, ServerPost
<1> QED BY <1>1, <1>2, <1>3 DEF DeltaHolds, DeltaDeleted

\* Any other step, run by run.
LEMMA StepCovers ==
    ASSUME TypeOK, TypeOK', CursorInv, WorldMoves, Held(server', posts', forgotten'),
           \A p \in Posts : server'[p].at <= now',
           cursor' \in {cursor, NoCursor},
           \A s \in Runs :
             \/ RunCovered(s)'
             \/ Calm(s)'
             \/ SameRun(s) /\ (run[s].pc = "acked" => Acked(server', run[s].todo, run[s].ack))
    PROVE  CursorInv'
<1>1. \A s \in Runs : RunCovered(s)'
  BY RunCarried DEF CursorInv
<1>2. Known(server', posts', forgotten', now', cursor')
  <2>1. cursor \in Cursor
    BY DEF TypeOK
  <2> QED BY <2>1, KnownCarried DEF CursorInv, Known
<1> QED BY <1>1, <1>2 DEF CursorInv

\* Steps that leave server and rows alone, and no run anything to claim that
\* it did not claim before.
LEMMA CalmStepCovers ==
    ASSUME TypeOK, TypeOK', CursorInv,
           UNCHANGED <<now, server, posts, forgotten, cursor>>,
           \A s \in Runs : Calm(s)' \/ SameRun(s)
    PROVE  CursorInv'
<1>1. WorldMoves
  BY WorldStays
<1>2. \A s \in Runs : run[s].pc = "acked" => Acked(server', run[s].todo, run[s].ack)
  BY DEF CursorInv, RunCovered
<1>3. /\ Held(server', posts', forgotten')
      /\ \A p \in Posts : server'[p].at <= now'
  BY DEF CursorInv
<1> HIDE DEF WorldMoves, SameRun, Calm
<1> QED BY <1>1, <1>2, <1>3, StepCovers

\* A call for a sync: a run starts, or nothing does.
LEMMA SyncRuns ==
    ASSUME TypeOK, CursorInv, NEW connected, Sync(connected)
    PROVE  \A s \in Runs : Calm(s)' \/ SameRun(s)
<1>1. run \in [Runs -> Run]
  BY DEF TypeOK
<1>2. \A s \in Runs : run'[s] = run[s] \/ (run'[s].pc = "push" /\ run'[s].todo = run[s].todo)
  BY <1>1 DEF Sync, EngineSync, Run
<1>3. \A s \in Runs : UniqueIds(run[s].todo)
  BY DEF CursorInv, RunCovered
<1> QED BY <1>2, <1>3 DEF Calm, SameRun

\* The push steps that do not touch server or rows.
LEMMA PushCovers ==
    ASSUME TypeOK, TypeOK', CursorInv, NoWriteLost, NEW r \in Runs,
           PushStep(r), ~AcceptLike(r), ~ApplyServerLike(r)
    PROVE  CursorInv'
<1> USE DEF serverVars, storeVars, historyVars
<1>0. /\ run \in [Runs -> Run]
      /\ outbox \in SUBSET OutboxEntry
      /\ run[r].todo \in SUBSET OutboxEntry
      /\ UniqueIds(run[r].todo)
      /\ UniqueIds(outbox)
  BY DEF TypeOK, Run, CursorInv, RunCovered, UniqueIds, NoWriteLost
<1>1. UNCHANGED <<now, server, posts, forgotten, cursor>>
  BY DEF PushStep, PlanPush, RefuseLike, LikeUnreachable, DeleteSent, RecordRefusal
<1>2. RunCovered(r)'
  <2>1. CASE PlanPush(r)
    <3> DEFINE todo == SelectSendable(outbox \ Orphans(outbox, PostIds(posts)))
    <3>1. Proceed(r, todo)
      BY <2>1 DEF PlanPush
    <3>2. todo \in SUBSET OutboxEntry /\ UniqueIds(todo)
      BY <1>0 DEF SelectSendable, UniqueIds
    <3> HIDE DEF todo
    <3> QED BY <1>1, <3>1, <3>2, ProceedCovers
  <2>2. CASE DeleteSent(r) \/ RecordRefusal(r)
    <3>1. PICK e : Proceed(r, run[r].todo \ {e})
      BY <2>2 DEF DeleteSent, RecordRefusal
    <3>2. run[r].todo \ {e} \in SUBSET OutboxEntry /\ UniqueIds(run[r].todo \ {e})
      BY <1>0 DEF UniqueIds
    <3> QED BY <1>1, <3>1, <3>2, ProceedCovers
  <2>3. CASE RefuseLike(r)
    <3>1. run'[r].pc = "refused" /\ run'[r].todo = run[r].todo
      BY <1>0, <2>3 DEF RefuseLike, Run
    <3> QED BY <1>0, <3>1 DEF RunCovered, AfterMerge
  <2>4. CASE LikeUnreachable(r)
    <3>1. run'[r].pc = "fetch" /\ run'[r].todo = {} /\ run'[r].since = cursor
      BY <1>0, <2>4 DEF LikeUnreachable, Fetching, IdleRun
    <3> QED BY <1>1, <3>1 DEF CursorInv, RunCovered, UniqueIds, AfterMerge
  <2> QED BY <2>1, <2>2, <2>3, <2>4 DEF PushStep
<1> QED BY <1>1, <1>2, OwnStepCovers

\* The posts change at the present instant, and nothing else does.
LEMMA ServerMovesWorld ==
    ASSUME TypeOK, TypeOK', CursorInv, UNCHANGED <<now, posts, forgotten>>,
           \A p \in Posts : server'[p] = server[p] \/ server'[p].at = now
    PROVE  /\ \A p \in Posts : server'[p].at <= now'
           /\ WorldMoves
           /\ Held(server', posts', forgotten')
<1>0. /\ now \in 0 .. MaxNow /\ posts \in SUBSET LocalPost
      /\ server \in [Posts -> ServerPost] /\ server' \in [Posts -> ServerPost]
      /\ \A p \in Posts : server[p].at <= now
      /\ Held(server, posts, forgotten)
  BY DEF TypeOK, CursorInv
<1>1. /\ \A p \in Posts : server'[p].at <= now
      /\ \A c \in 0 .. MaxNow :
           c <= now /\ Covered(server, posts, forgotten, c)
             => Covered(server', posts, forgotten, c)
      /\ Held(server', posts, forgotten)
      /\ \A since, tombstoned : \A incoming \in SUBSET RemotePost, next \in 0 .. MaxNow :
           next <= now /\ DeltaHolds(server, since, incoming, tombstoned, next)
             => DeltaHolds(server', since, incoming, tombstoned, next)
  BY <1>0, ServerMoves
<1>2. WorldMoves
  BY <1>0, <1>1 DEF WorldMoves
<1> QED BY <1>1, <1>2

\* The server carries a write out: the post changes now, and the answer says so.
LEMMA AcceptCovers ==
    ASSUME TypeOK, TypeOK', OneRun, CursorInv, NEW r \in Runs, AcceptLike(r)
    PROVE  CursorInv'
<1> USE DEF storeVars, historyVars
<1>0. /\ run \in [Runs -> Run] /\ run[r].todo \in SUBSET OutboxEntry
      /\ now \in 0 .. MaxNow /\ posts \in SUBSET LocalPost
      /\ server \in [Posts -> ServerPost] /\ server' \in [Posts -> ServerPost]
      /\ UniqueIds(run[r].todo)
  BY DEF TypeOK, Run, CursorInv, RunCovered
<1>1. PICK e \in Earliest(run[r].todo) :
        /\ server' = [server EXCEPT ![e.post] = SetLike(@, e.kind = "like")]
        /\ run' = [run EXCEPT ![r].pc = "acked",
                              ![r].ack = [liked |-> server'[e.post].liked,
                                          count |-> server'[e.post].count]]
  BY DEF AcceptLike
<1>2. run[r].pc = "wait" /\ UNCHANGED <<now, posts, forgotten, cursor>>
  BY DEF AcceptLike
<1>3. e.post \in Posts /\ e \in run[r].todo
  BY <1>0 DEF Earliest, OutboxEntry
<1>4. \A p \in Posts : server'[p] = server[p] \/ server'[p].at = now
  BY <1>0, <1>1, <1>3 DEF SetLike, ServerPost
<1>5. /\ \A p \in Posts : server'[p].at <= now'
      /\ WorldMoves
      /\ Held(server', posts', forgotten')
  BY <1>2, <1>4, ServerMovesWorld
<1>6. run'[r].pc = "acked" /\ run'[r].todo = run[r].todo
      /\ run'[r].ack = [liked |-> server'[e.post].liked, count |-> server'[e.post].count]
  BY <1>0, <1>1 DEF Run
<1>7. \A f \in Earliest(run[r].todo) : f = e
  BY <1>0, <1>1 DEF Earliest, UniqueIds, OutboxEntry, Ids
<1>8. RunCovered(r)'
  BY <1>0, <1>6, <1>7 DEF RunCovered, Acked, AfterMerge
<1>9. \A s \in Runs \ {r} : SameRun(s) /\ run[s].pc = "idle"
  BY <1>0, <1>1, <1>2 DEF OneRun, SameRun
<1> HIDE DEF WorldMoves, SameRun, Calm
<1> QED BY <1>2, <1>5, <1>8, <1>9, StepCovers

\* A post is published or deleted.
LEMMA EditCovers ==
    ASSUME TypeOK, TypeOK', CursorInv, NEW p \in Posts, DeletePost(p) \/ PublishPost(p)
    PROVE  CursorInv'
<1> USE DEF storeVars, historyVars, memoryVars
<1>0. /\ run \in [Runs -> Run]
      /\ now \in 0 .. MaxNow /\ posts \in SUBSET LocalPost
      /\ server \in [Posts -> ServerPost] /\ server' \in [Posts -> ServerPost]
  BY DEF TypeOK
<1>1. UNCHANGED <<now, posts, forgotten, cursor, run>>
  BY DEF DeletePost, PublishPost
<1>2. \A q \in Posts : /\ server'[q] = server[q] \/ server'[q].at = now
                       /\ server'[q].liked = server[q].liked
                       /\ server'[q].count = server[q].count
  BY <1>0 DEF DeletePost, PublishPost, ServerPost
<1>3. /\ \A q \in Posts : server'[q].at <= now'
      /\ WorldMoves
      /\ Held(server', posts', forgotten')
  BY <1>1, <1>2, ServerMovesWorld
<1>4. \A s \in Runs : SameRun(s)
  BY <1>1 DEF SameRun
<1>5. ASSUME NEW s \in Runs, run[s].pc = "acked"
      PROVE  Acked(server', run[s].todo, run[s].ack)
  <2>1. \A e \in Earliest(run[s].todo) : e.post \in Posts
    BY <1>0 DEF Earliest, OutboxEntry, Run
  <2> QED BY <1>2, <1>5, <2>1 DEF CursorInv, RunCovered, Acked
<1> HIDE DEF WorldMoves, SameRun, Calm
<1> QED BY <1>1, <1>3, <1>4, <1>5, StepCovers

\* Rows go with their post let go of, or are rewritten as what they were.
LEMMA RowsMoveWorld ==
    ASSUME TypeOK, TypeOK', CursorInv,
           now <= now', server' = server, forgotten \subseteq forgotten',
           \A row \in posts :
             \/ row.id \in forgotten'
             \/ \E n \in posts' : n.id = row.id /\ (Mirror(row, server[row.id]) =>
                                                      Mirror(n, server[row.id])),
           \A n \in posts' :
             /\ n.id \notin forgotten'
             /\ \E row \in posts : row.id = n.id /\ row.updatedAt = n.updatedAt
    PROVE  /\ \A p \in Posts : server'[p].at <= now'
           /\ WorldMoves
           /\ Held(server', posts', forgotten')
<1>1. \A p \in Posts : server'[p].at <= now'
  <2>1. \A p \in Posts : server[p].at \in Nat /\ server[p].at <= now
    BY DEF TypeOK, ServerPost, CursorInv
  <2> QED BY <2>1 DEF TypeOK
<1>2. \A c : Covered(server, posts, forgotten, c) => Covered(server', posts', forgotten', c)
  BY RowsMove
<1>3. WorldMoves
  BY <1>2 DEF WorldMoves
<1>4. Held(server', posts', forgotten')
  BY DEF Held, CursorInv
<1> QED BY <1>1, <1>3, <1>4

\* The answer overwrites the row with what the server has.
LEMMA ApplyCovers ==
    ASSUME TypeOK, TypeOK', CursorInv, NEW r \in Runs, ApplyServerLike(r)
    PROVE  CursorInv'
<1> USE DEF serverVars, historyVars
<1>0. /\ run \in [Runs -> Run] /\ run[r] \in Run /\ posts \in SUBSET LocalPost
      /\ now \in 0 .. MaxNow
  BY DEF TypeOK
<1>1. /\ run[r].pc = "acked"
      /\ UNCHANGED <<now, server, forgotten, cursor>>
      /\ run' = [run EXCEPT ![r].pc = "applied"]
  BY DEF ApplyServerLike
<1>2. PICK e \in Earliest(run[r].todo) :
        posts' = {IF row.id = e.post
                  THEN [row EXCEPT !.liked = run[r].ack.liked, !.count = run[r].ack.count]
                  ELSE row : row \in posts}
  BY DEF ApplyServerLike
<1>3. run[r].ack.liked = server[e.post].liked /\ run[r].ack.count = server[e.post].count
  BY <1>1, <1>2 DEF CursorInv, RunCovered, Acked
<1> DEFINE new(row) == IF row.id = e.post
                       THEN [row EXCEPT !.liked = run[r].ack.liked,
                                        !.count = run[r].ack.count]
                       ELSE row
<1>4. \A row \in posts :
        /\ new(row).id = row.id /\ new(row).updatedAt = row.updatedAt
        /\ Mirror(row, server[row.id]) => Mirror(new(row), server[row.id])
  BY <1>0, <1>3 DEF LocalPost, Mirror
<1>5. posts' = {new(row) : row \in posts}
  BY <1>2
<1> HIDE DEF new
<1>6. /\ \A row \in posts : \E n \in posts' :
           n.id = row.id /\ (Mirror(row, server[row.id]) => Mirror(n, server[row.id]))
      /\ \A n \in posts' : \E row \in posts : row.id = n.id /\ row.updatedAt = n.updatedAt
  BY <1>4, <1>5
<1>7. \A n \in posts' : n.id \notin forgotten'
  BY <1>1, <1>6 DEF CursorInv, Held
<1>8. /\ \A p \in Posts : server'[p].at <= now'
      /\ WorldMoves
      /\ Held(server', posts', forgotten')
  BY <1>0, <1>1, <1>6, <1>7, RowsMoveWorld
<1>9. Calm(r)'
  BY <1>0, <1>1 DEF Calm, CursorInv, RunCovered, Run
<1>10. \A s \in Runs \ {r} : run'[s] = run[s]
  BY <1>0, <1>1
<1>11. \A s \in Runs \ {r} : SameRun(s) /\ (run[s].pc = "acked" =>
                                             Acked(server', run[s].todo, run[s].ack))
  BY <1>1, <1>10 DEF SameRun, CursorInv, RunCovered
<1> HIDE DEF WorldMoves, SameRun, Calm
<1> QED BY <1>1, <1>8, <1>9, <1>11, StepCovers

\* The user's and the clock's steps on the rows.
LEMMA LaunchCovers ==
    ASSUME TypeOK, TypeOK', CursorInv, PullInv, Launch
    PROVE  CursorInv'
<1> USE DEF serverVars
<1> DEFINE expired == {row \in posts : IsExpired(row)}
<1>0. now \in 0 .. MaxNow
  BY DEF TypeOK
<1>1. /\ posts' = posts \ expired
      /\ forgotten' = forgotten \cup PostIds(expired)
      /\ UNCHANGED <<now, server, cursor>>
      /\ Sync(online)
  BY DEF Launch, PruneExpired
<1>2. \A row \in posts : row.id \in forgotten' \/ row \in posts'
  BY <1>1 DEF PostIds
<1>3. \A n \in posts' : n \in posts /\ n.id \notin forgotten'
  BY <1>1 DEF PullInv, UniqueIds, PostIds, CursorInv, Held
<1> HIDE DEF expired
<1>4. /\ \A p \in Posts : server'[p].at <= now'
      /\ WorldMoves
      /\ Held(server', posts', forgotten')
  BY <1>0, <1>1, <1>2, <1>3, RowsMoveWorld
<1>5. \A s \in Runs : Calm(s)' \/ SameRun(s)
  BY <1>1, SyncRuns
<1>6. \A s \in Runs : run[s].pc = "acked" => Acked(server', run[s].todo, run[s].ack)
  BY <1>1 DEF CursorInv, RunCovered
<1> HIDE DEF WorldMoves, SameRun, Calm
<1> QED BY <1>1, <1>4, <1>5, <1>6, StepCovers

LEMMA ClearCovers ==
    ASSUME TypeOK, TypeOK', CursorInv, ClearAll
    PROVE  CursorInv'
<1> USE DEF serverVars
<1>0. now \in 0 .. MaxNow
  BY DEF TypeOK
<1>1. /\ posts' = {} /\ cursor' = NoCursor
      /\ forgotten' = forgotten \cup PostIds(posts)
      /\ UNCHANGED <<now, server, run>>
  BY DEF ClearAll
<1>2. \A row \in posts : row.id \in forgotten'
  BY <1>1 DEF PostIds
<1>3. /\ \A p \in Posts : server'[p].at <= now'
      /\ WorldMoves
      /\ Held(server', posts', forgotten')
  BY <1>0, <1>1, <1>2, RowsMoveWorld
<1>4. \A s \in Runs : SameRun(s) /\ (run[s].pc = "acked" =>
                                      Acked(server', run[s].todo, run[s].ack))
  BY <1>1 DEF CursorInv, RunCovered, SameRun
<1> HIDE DEF WorldMoves, SameRun, Calm
<1> QED BY <1>1, <1>3, <1>4, StepCovers

LEMMA TickCovers ==
    ASSUME TypeOK, TypeOK', CursorInv, Tick
    PROVE  CursorInv'
<1> USE DEF historyVars
<1>0. /\ now \in 0 .. MaxNow /\ posts \in SUBSET LocalPost /\ run \in [Runs -> Run]
  BY DEF TypeOK
<1>1. /\ now <= now'
      /\ UNCHANGED <<server, cursor, forgotten>>
  BY <1>0 DEF Tick, LesserOf
<1> DEFINE older(row) == [row EXCEPT !.age = Older(@, TTL + 1)]
<1>2. posts' = {older(row) : row \in posts}
  BY DEF Tick
<1>3. \A row \in posts : /\ older(row).id = row.id
                         /\ older(row).updatedAt = row.updatedAt
                         /\ older(row).liked = row.liked /\ older(row).count = row.count
  BY <1>0 DEF LocalPost
<1> HIDE DEF older
<1>4. /\ \A row \in posts : \E n \in posts' :
           n.id = row.id /\ (Mirror(row, server[row.id]) => Mirror(n, server[row.id]))
      /\ \A n \in posts' : \E row \in posts : row.id = n.id /\ row.updatedAt = n.updatedAt
  BY <1>2, <1>3 DEF Mirror
<1>5. \A n \in posts' : n.id \notin forgotten'
  BY <1>1, <1>4 DEF CursorInv, Held
<1>6. /\ \A p \in Posts : server'[p].at <= now'
      /\ WorldMoves
      /\ Held(server', posts', forgotten')
  BY <1>1, <1>4, <1>5, RowsMoveWorld
<1>7. \A s \in Runs : SameRun(s)
  BY <1>0 DEF Tick, SameRun, Run
<1>8. \A s \in Runs : run[s].pc = "acked" => Acked(server', run[s].todo, run[s].ack)
  BY <1>1 DEF CursorInv, RunCovered
<1> HIDE DEF WorldMoves, SameRun, Calm
<1> QED BY <1>1, <1>6, <1>7, <1>8, StepCovers

\* The merge brings the rows up to the cursor the delta came with.
LEMMA MergeRunCovers ==
    ASSUME TypeOK, TypeOK', OneRun, CursorInv, PullInv, NEW r \in Runs, Merge(r)
    PROVE  CursorInv'
<1> USE DEF serverVars
<1> DEFINE since == run[r].since
           incoming == run[r].incoming
           tombstoned == run[r].tombstoned
           next == run[r].next
           merged  == MergeDelta(posts, incoming, tombstoned)
           dropped == DroppedIds(posts, merged)
<1>0. /\ run \in [Runs -> Run] /\ run[r] \in Run
      /\ now \in 0 .. MaxNow /\ posts \in SUBSET LocalPost
      /\ server \in [Posts -> ServerPost]
      /\ cursor \in Cursor
  BY DEF TypeOK
<1>1. /\ run[r].pc = "merge"
      /\ posts' = Upsert(posts, merged, dropped)
      /\ forgotten' = (forgotten \cup PostIds(posts) \cup PostIds(incoming)) \ PostIds(merged)
      /\ UNCHANGED <<now, server, cursor>>
  BY DEF Merge
<1>2. /\ run'[r].pc \in AfterMerge /\ run'[r].next = next /\ run'[r].todo = {}
      /\ \A s \in Runs \ {r} : run'[s] = run[s]
  BY <1>0 DEF Merge, IdleRun, AfterMerge
<1>3. /\ since \in Cursor /\ next \in 0 .. MaxNow /\ incoming \in SUBSET RemotePost
      /\ Known(server, posts, forgotten, now, since)
      /\ DeltaHolds(server, since, incoming, tombstoned, next)
      /\ next <= now /\ cursor \in {since, NoCursor}
  BY <1>0, <1>1 DEF Run, CursorInv, RunCovered
<1>4. Held(server, posts, forgotten) /\ UniqueIds(posts) /\ UniqueIds(incoming)
  BY DEF CursorInv, PullInv
<1> HIDE DEF merged
<1>5. posts' = merged
  <2>1. \A row \in posts : row.id \in dropped \/ row.id \in PostIds(merged)
    BY DEF DroppedIds, PostIds
  <2> QED BY <1>1, <2>1 DEF Upsert
<1>6. Covered(server, merged, forgotten', next) /\ Held(server, merged, forgotten')
  <2> HIDE DEF since, incoming, tombstoned, next
  <2> QED BY <1>0, <1>1, <1>3, <1>4, MergeCovers DEF merged
<1>7. RunCovered(r)'
  BY <1>1, <1>2, <1>3, <1>5, <1>6 DEF RunCovered, AfterMerge, UniqueIds
<1>8. \A s \in Runs \ {r} : RunCovered(s)'
  <2> TAKE s \in Runs \ {r}
  <2>1. run'[s].pc = "idle" /\ UniqueIds(run'[s].todo)
    BY <1>1, <1>2 DEF OneRun, CursorInv, RunCovered
  <2> QED BY <2>1 DEF RunCovered, AfterMerge
<1>9. cursor = NoCursor \/ (cursor \in 0 .. MaxNow /\ cursor <= now /\
                            Covered(server, merged, forgotten', cursor))
  <2>1. \A p \in Posts : server[p].at \in Nat
    BY <1>0 DEF ServerPost
  <2>2. CASE since # NoCursor
    <3>1. since \in 0 .. MaxNow /\ since <= next /\ since <= now
      BY <1>0, <1>3, <2>2 DEF DeltaHolds, Cursor
    <3>2. Covered(server, merged, forgotten', since)
      BY <1>3, <1>6, <2>1, <3>1 DEF Covered
    <3> QED BY <1>3, <3>1, <3>2
  <2> QED BY <1>3, <2>2
<1> QED BY <1>1, <1>5, <1>6, <1>7, <1>8, <1>9 DEF CursorInv, Known

LEMMA PullCovers ==
    ASSUME TypeOK, TypeOK', OneRun, CursorInv, PullInv, NEW r \in Runs, PullStep(r)
    PROVE  CursorInv'
<1> USE DEF serverVars, storeVars, historyVars
<1>0. /\ run \in [Runs -> Run] /\ run[r] \in Run
      /\ now \in 0 .. MaxNow
      /\ RunCovered(r)
      /\ \A s \in Runs \ {r} : run'[s] = run[s]
  BY RunStepKeepsLock DEF TypeOK, CursorInv
<1>1. CASE AnswerDelta(r)
  <2>1. UNCHANGED <<now, server, posts, forgotten, cursor>> /\ run[r].pc = "fetch"
    BY <1>1 DEF AnswerDelta
  <2>2. /\ run'[r].pc = "merge" /\ run'[r].todo = run[r].todo
        /\ run'[r].since = run[r].since /\ run'[r].next = now
        /\ run'[r].incoming = DeltaPosts(run[r].since)
        /\ run'[r].tombstoned = DeltaDeleted(run[r].since)
    BY <1>0, <1>1 DEF AnswerDelta, Run
  <2>3. /\ Known(server, posts, forgotten, now, run[r].since)
        /\ cursor \in {run[r].since, NoCursor}
        /\ run[r].since \in Cursor
    BY <1>0, <2>1 DEF RunCovered, Run
  <2>4. DeltaHolds(server, run[r].since, DeltaPosts(run[r].since),
                 DeltaDeleted(run[r].since), now)
    BY <2>3, DeltaIsWhole DEF CursorInv, Known
  <2>5. RunCovered(r)'
    BY <1>0, <2>1, <2>2, <2>3, <2>4 DEF RunCovered, AfterMerge
  <2> QED BY <2>1, <2>5, OwnStepCovers
<1>2. CASE FetchFails(r)
  <2>1. UNCHANGED <<now, server, posts, forgotten, cursor>>
    BY <1>2 DEF FetchFails
  <2>2. run'[r].pc = "idle" /\ run'[r].todo = {}
    BY <1>0, <1>2 DEF FetchFails, EndRun, IdleRun
  <2>3. RunCovered(r)'
    BY <2>2 DEF RunCovered, AfterMerge, UniqueIds
  <2> QED BY <2>1, <2>3, OwnStepCovers
<1>3. CASE Merge(r)
  BY <1>3, MergeRunCovers
<1>4. CASE DropImages(r) \/ DropOrphans(r) \/ EnsureImages(r)
  <2>1. UNCHANGED <<now, server, posts, forgotten, cursor>>
    BY <1>4 DEF DropImages, DropOrphans, EnsureImages
  <2>2. /\ run[r].pc \in AfterMerge /\ run'[r].pc \in AfterMerge
        /\ run'[r].todo = run[r].todo /\ run'[r].next = run[r].next
    BY <1>0, <1>4 DEF DropImages, DropOrphans, EnsureImages, Run, AfterMerge
  <2>3. RunCovered(r)'
    BY <1>0, <2>1, <2>2 DEF RunCovered, AfterMerge
  <2> QED BY <2>1, <2>3, OwnStepCovers
<1>5. CASE SaveCursor(r)
  <2>1. /\ UNCHANGED <<now, server, posts, forgotten>>
        /\ run[r].pc = "commit" /\ cursor' = run[r].next
        /\ run'[r].pc = "idle" /\ run'[r].todo = {}
    BY <1>0, <1>5 DEF SaveCursor, EndRun, IdleRun
  <2>2. Known(server', posts', forgotten', now', cursor')
    BY <1>0, <2>1 DEF RunCovered, AfterMerge, Known, Run
  <2>3. \A s \in Runs \ {r} : run'[s].pc = "idle" /\ UniqueIds(run'[s].todo)
    BY <1>0, <2>1 DEF OneRun, CursorInv, RunCovered
  <2>4. \A s \in Runs : RunCovered(s)'
    BY <2>1, <2>3 DEF RunCovered, AfterMerge, UniqueIds
  <2> QED BY <2>1, <2>2, <2>4 DEF CursorInv
<1> QED BY <1>1, <1>2, <1>3, <1>4, <1>5 DEF PullStep

\* The remaining steps start a run, end them all, or concern neither runs, rows
\* nor posts.
LEMMA OthersCover ==
    ASSUME TypeOK, TypeOK', CursorInv,
           \/ TriggerSync \/ GoOnline \/ \E row \in posts : ToggleLike(row)
           \/ Crash
           \/ GoOffline \/ ClearImages \/ ScreenStep \/ UNCHANGED vars
    PROVE  CursorInv'
<1> USE DEF serverVars, storeVars, memoryVars, historyVars
<1>1. CASE TriggerSync \/ GoOnline \/ \E row \in posts : ToggleLike(row)
  <2>1. UNCHANGED <<now, server, posts, forgotten, cursor>>
    BY <1>1 DEF TriggerSync, GoOnline, ToggleLike
  <2>2. \E connected : Sync(connected)
    BY <1>1 DEF TriggerSync, GoOnline, ToggleLike
  <2>3. \A s \in Runs : Calm(s)' \/ SameRun(s)
    BY <2>2, SyncRuns
  <2> HIDE DEF Calm, SameRun
  <2> QED BY <2>1, <2>3, CalmStepCovers
<1>2. CASE Crash
  <2>1. UNCHANGED <<now, server, posts, forgotten, cursor>>
    BY <1>2 DEF Crash
  <2>2. \A s \in Runs : Calm(s)'
    BY <1>2 DEF Crash, Calm, IdleRun, UniqueIds
  <2> HIDE DEF Calm, SameRun
  <2> QED BY <2>1, <2>2, CalmStepCovers
<1>3. CASE GoOffline \/ ClearImages \/ ScreenStep \/ UNCHANGED vars
  <2>1. UNCHANGED <<now, server, posts, forgotten, cursor, run>>
    BY <1>3 DEF GoOffline, ClearImages, ScreenStep, WarmImages, ThumbArrives, vars
  <2>2. \A s \in Runs : SameRun(s)
    BY <2>1 DEF SameRun
  <2> HIDE DEF Calm, SameRun
  <2> QED BY <2>1, <2>2, CalmStepCovers
<1> QED BY <1>1, <1>2, <1>3

LEMMA CursorInvHolds == Spec => []CursorInv
<1>1. TypeOK /\ Init => CursorInv
  <2> SUFFICES ASSUME TypeOK, Init
               PROVE  CursorInv
    OBVIOUS
  <2>1. \A p \in Posts : server[p].at <= now
    BY DEF Init
  <2>2. cursor = NoCursor /\ posts = {}
    BY DEF Init
  <2>3. \A r \in Runs : run[r].pc = "idle" /\ run[r].todo = {}
    BY DEF Init, IdleRun
  <2>4. \A r \in Runs : RunCovered(r)
    BY <2>3 DEF RunCovered, AfterMerge, UniqueIds
  <2> QED BY <2>1, <2>2, <2>4 DEF CursorInv, Known, Held
<1>2. TypeOK /\ TypeOK' /\ OneRun /\ NoWriteLost /\ PullInv /\ CursorInv /\ [Next]_vars
        => CursorInv'
  <2> SUFFICES ASSUME TypeOK, TypeOK', OneRun, NoWriteLost, PullInv, CursorInv, [Next]_vars
               PROVE  CursorInv'
    OBVIOUS
  <2>1. ASSUME NEW r \in Runs, PushStep(r)
        PROVE  CursorInv'
    BY <2>1, PushCovers, AcceptCovers, ApplyCovers
  <2>2. ASSUME NEW r \in Runs, PullStep(r)
        PROVE  CursorInv'
    BY <2>2, PullCovers
  <2>3. ASSUME NEW p \in Posts, DeletePost(p) \/ PublishPost(p)
        PROVE  CursorInv'
    BY <2>3, EditCovers
  <2>4. CASE Launch \/ ClearAll \/ Tick
    BY <2>4, LaunchCovers, ClearCovers, TickCovers
  <2>5. CASE \/ TriggerSync \/ GoOnline \/ \E row \in posts : ToggleLike(row)
             \/ Crash
             \/ GoOffline \/ ClearImages \/ ScreenStep \/ UNCHANGED vars
    BY <2>5, OthersCover
  <2> QED
    BY <2>1, <2>2, <2>3, <2>4, <2>5
        DEF Next, UserStep, FeedScreen, DebugScreen, EnvironmentStep, ServerControls
<1> QED
  BY <1>1, <1>2, TypeCorrect, OneRunAtATime, NothingIsLost, PullInvHolds, PTL
  DEF Spec

\* Whatever crash, outage, repeated delivery or tap comes between the fetch, the
\* merge and the saving of the cursor (syncEngine.ts, pull), no change of the
\* server older than the cursor is missing from the rows.
THEOREM NothingBehindCursor == Spec => []CursorCoversChanges
<1>1. CursorInv => CursorCoversChanges
  BY DEF CursorInv, Known, Covered, Mirror, CursorCoversChanges, Row, Mirrors
<1> QED
  BY <1>1, CursorInvHolds, PTL

-----------------------------------------------------------------------------
(* What the user asked for *)

\* Of every post of which no write was given up: its pending rows end in what
\* the user wants, and start from what the server and the local row have.
Wanted(p) ==
    LET rows == PendingOf(outbox, p)
    IN  /\ Alternate(rows)
        /\ EndsIn(rows, intent[p])
        /\ StartsFrom(rows, intent[p], requested, server[p].liked)
        /\ \A row \in posts : row.id = p => StartsFrom(rows, intent[p], requested, row.liked)

\* A row that a push has copied is still the same write in the table, if it is
\* there at all.
SameWrite(e) ==
    /\ e.id < nextId
    /\ \A x \in outbox : x.id = e.id => x.post = e.post /\ x.kind = e.kind /\ x.status = "pending"

\* A row whose request is under way is the first of its post.
IsFirst(e) ==
    /\ e.id \in requested
    /\ e.post \in voided \/ \E x \in Earliest(PendingOf(outbox, e.post)) : x.id = e.id

\* What the server acknowledged is what the row asks for, and so has the local
\* row once it is updated.
Answered(r, e) ==
    /\ run[r].pc \in {"acked", "applied"} =>
         run[r].ack.liked = Likes(e) /\ server[e.post].liked = Likes(e)
    /\ run[r].pc = "applied" => \A row \in posts : row.id = e.post => row.liked = Likes(e)

RunWanted(r) ==
    /\ run[r].pc \in PushSteps =>
         /\ UniqueIds(run[r].todo)
         /\ \A e \in run[r].todo : SameWrite(e)
         /\ \A e \in Earliest(run[r].todo) : IsFirst(e) /\ Answered(r, e)
    /\ run[r].pc = "merge" => \A i \in run[r].incoming : i.liked = server[i.id].liked

WantedInv ==
    /\ \A i \in requested : i < nextId
    /\ \A p \in Posts : p \in voided \/ Wanted(p)
    /\ \A r \in Runs : RunWanted(r)

\* Rows of the table and what is pending of a post.
LEMMA PendingType ==
    ASSUME NEW rows \in SUBSET OutboxEntry, NEW p
    PROVE  PendingOf(rows, p) \in SUBSET OutboxEntry /\ PendingOf(rows, p) \in SUBSET rows
BY DEF PendingOf, Pending, ForPost

LEMMA SameRows ==
    ASSUME NEW rows \in SUBSET OutboxEntry
    PROVE  SameWrites(rows, rows)
BY DEF SameWrites

\* A step that leaves the writes of the posts not given up, and the like states
\* of the server and the rows, as they are.
LEMMA PostsKeepWanted ==
    ASSUME TypeOK, TypeOK', WantedInv,
           voided \subseteq voided', requested \subseteq requested', intent' = intent,
           \A p \in Posts : server'[p].liked = server[p].liked,
           \A row \in posts' : \E old \in posts : old.id = row.id /\ old.liked = row.liked,
           \A p \in Posts \ voided' : SameWrites(PendingOf(outbox, p), PendingOf(outbox', p))
    PROVE  \A p \in Posts : p \in voided' \/ Wanted(p)'
<1> SUFFICES ASSUME NEW p \in Posts, p \notin voided' PROVE Wanted(p)'
  OBVIOUS
<1> DEFINE R == PendingOf(outbox, p)
           Q == PendingOf(outbox', p)
<1>1. R \in SUBSET OutboxEntry /\ Q \in SUBSET OutboxEntry
  BY PendingType DEF TypeOK
<1>2. SameWrites(R, Q)
  OBVIOUS
<1>3. Wanted(p)
  BY DEF WantedInv
<1>4. /\ Alternate(R)
      /\ EndsIn(R, intent[p])
      /\ StartsFrom(R, intent[p], requested, server[p].liked)
      /\ \A row \in posts : row.id = p => StartsFrom(R, intent[p], requested, row.liked)
  BY <1>3 DEF Wanted
<1> HIDE DEF R, Q
<1>5. /\ Alternate(Q)
      /\ EndsIn(Q, intent[p])
      /\ \A liked : StartsFrom(R, intent[p], requested, liked)
                      => StartsFrom(Q, intent[p], requested', liked)
  BY <1>1, <1>2, <1>4, SameWritesKeep
<1>6. \A row \in posts' : row.id = p => StartsFrom(Q, intent[p], requested', row.liked)
  BY <1>4, <1>5
<1> QED BY <1>4, <1>5, <1>6 DEF Wanted, Q

\* A run that does not move carries what is known of its copies over a step
\* that leaves them.
LEMMA RunKeepsWanted ==
    ASSUME TypeOK, WantedInv, NEW s \in Runs,
           \/ run'[s].pc \notin PushSteps \cup {"merge"}
           \/ /\ run'[s].pc = run[s].pc /\ run'[s].todo = run[s].todo
              /\ run'[s].ack = run[s].ack /\ run'[s].incoming = run[s].incoming,
           \A e \in OutboxEntry : SameWrite(e) => SameWrite(e)',
           \A e \in OutboxEntry : SameWrite(e) /\ IsFirst(e) => IsFirst(e)',
           \A p \in Posts : server'[p].liked = server[p].liked,
           \A row \in posts' : \E old \in posts : old.id = row.id /\ old.liked = row.liked
    PROVE  RunWanted(s)'
<1>1. CASE run'[s].pc \notin PushSteps \cup {"merge"}
  BY <1>1 DEF RunWanted
<1>2. CASE /\ run'[s].pc = run[s].pc /\ run'[s].todo = run[s].todo
           /\ run'[s].ack = run[s].ack /\ run'[s].incoming = run[s].incoming
  <2>0. /\ RunWanted(s)
        /\ run[s].todo \in SUBSET OutboxEntry
        /\ run[s].incoming \in SUBSET RemotePost
    BY DEF WantedInv, TypeOK, Run
  <2>1. ASSUME run[s].pc \in PushSteps, NEW e \in Earliest(run[s].todo)
        PROVE  IsFirst(e)' /\ Answered(s, e)'
    <3>1. e \in run[s].todo /\ e \in OutboxEntry /\ e.post \in Posts
      BY <2>0 DEF Earliest, OutboxEntry
    <3>2. IsFirst(e) /\ SameWrite(e) /\ Answered(s, e)
      BY <2>0, <2>1, <3>1 DEF RunWanted
    <3>3. Answered(s, e)'
      BY <1>2, <3>1, <3>2 DEF Answered
    <3> QED BY <3>1, <3>2, <3>3
  <2>2. run[s].pc \in PushSteps => /\ UniqueIds(run[s].todo)
                                   /\ \A e \in run[s].todo : SameWrite(e)'
    BY <2>0 DEF RunWanted
  <2>3. run[s].pc = "merge" => \A i \in run[s].incoming : i.liked = server'[i.id].liked
    BY <2>0 DEF RunWanted, RemotePost
  <2> QED BY <1>2, <2>1, <2>2, <2>3 DEF RunWanted
<1> QED BY <1>1, <1>2

\* Copies and requests under way, over a step that leaves the writes of the
\* posts not given up.
LEMMA CopiesKeepWanted ==
    ASSUME TypeOK, TypeOK', nextId' >= nextId,
           voided \subseteq voided', requested \subseteq requested',
           \A p \in Posts \ voided' : SameWrites(PendingOf(outbox, p), PendingOf(outbox', p)),
           \A x \in outbox' : \E y \in outbox :
               y.id = x.id /\ y.post = x.post /\ y.kind = x.kind /\ y.status = x.status
    PROVE  /\ \A e \in OutboxEntry : SameWrite(e) => SameWrite(e)'
           /\ \A e \in OutboxEntry : IsFirst(e) => IsFirst(e)'
<1>1. ASSUME NEW e \in OutboxEntry, SameWrite(e) PROVE SameWrite(e)'
  <2>1. e.id < nextId'
    BY <1>1 DEF SameWrite, OutboxEntry, Ids, TypeOK
  <2> QED BY <1>1, <2>1 DEF SameWrite
<1>2. ASSUME NEW e \in OutboxEntry, IsFirst(e), e.post \notin voided' PROVE IsFirst(e)'
  <2>1. PICK x \in Earliest(PendingOf(outbox, e.post)) : x.id = e.id
    BY <1>2 DEF IsFirst
  <2>2. e.post \in Posts
    BY DEF OutboxEntry
  <2> DEFINE R == PendingOf(outbox, e.post)
             Q == PendingOf(outbox', e.post)
  <2>3. R \in SUBSET OutboxEntry /\ Q \in SUBSET OutboxEntry /\ SameWrites(R, Q)
    BY <1>2, <2>2, PendingType DEF TypeOK
  <2>4. x \in Earliest(R)
    BY <2>1
  <2> HIDE DEF R, Q
  <2>5. \E y \in Earliest(Q) : y.id = x.id
    BY <2>3, <2>4, SameWritesKeep
  <2> QED BY <1>2, <2>1, <2>5 DEF IsFirst, Q
<1>3. ASSUME NEW e \in OutboxEntry, IsFirst(e), e.post \in voided' PROVE IsFirst(e)'
  BY <1>3 DEF IsFirst
<1> QED BY <1>1, <1>2, <1>3

\* A step that leaves all that the invariant speaks of, or lets go of a run.
LEMMA CalmStepKeepsWanted ==
    ASSUME TypeOK, TypeOK', WantedInv,
           nextId' = nextId, requested' = requested, intent' = intent,
           voided \subseteq voided',
           \A p \in Posts : server'[p].liked = server[p].liked,
           \A row \in posts' : \E old \in posts : old.id = row.id /\ old.liked = row.liked,
           \A p \in Posts \ voided' : SameWrites(PendingOf(outbox, p), PendingOf(outbox', p)),
           \A x \in outbox' : \E y \in outbox :
               y.id = x.id /\ y.post = x.post /\ y.kind = x.kind /\ y.status = x.status,
           \A s \in Runs :
               \/ run'[s].pc \notin PushSteps \cup {"merge"}
               \/ /\ run'[s].pc = run[s].pc /\ run'[s].todo = run[s].todo
                  /\ run'[s].ack = run[s].ack /\ run'[s].incoming = run[s].incoming
    PROVE  WantedInv'
<1>1. \A i \in requested' : i < nextId'
  BY DEF WantedInv
<1>2. \A p \in Posts : p \in voided' \/ Wanted(p)'
  BY PostsKeepWanted
<1>3. nextId' >= nextId
  BY DEF TypeOK
<1>4. /\ \A e \in OutboxEntry : SameWrite(e) => SameWrite(e)'
      /\ \A e \in OutboxEntry : IsFirst(e) => IsFirst(e)'
  BY <1>3, CopiesKeepWanted
<1>5. ASSUME NEW s \in Runs PROVE RunWanted(s)'
  BY <1>4, RunKeepsWanted
<1> QED BY <1>1, <1>2, <1>5 DEF WantedInv

\* The same, when the outbox is left alone.
LEMMA OutboxStays ==
    ASSUME TypeOK, outbox' = outbox
    PROVE  /\ \A p \in Posts : SameWrites(PendingOf(outbox, p), PendingOf(outbox', p))
           /\ \A x \in outbox' : \E y \in outbox :
                y.id = x.id /\ y.post = x.post /\ y.kind = x.kind /\ y.status = x.status
BY PendingType, SameRows DEF TypeOK

\* The same, when rows go whose posts are given up with them.
LEMMA OutboxShrinks ==
    ASSUME TypeOK, NEW gone \in SUBSET outbox, outbox' = outbox \ gone,
           \A e \in gone : e.post \in voided'
    PROVE  /\ \A p \in Posts \ voided' : SameWrites(PendingOf(outbox, p), PendingOf(outbox', p))
           /\ \A x \in outbox' : \E y \in outbox :
                y.id = x.id /\ y.post = x.post /\ y.kind = x.kind /\ y.status = x.status
<1>1. ASSUME NEW p \in Posts \ voided'
      PROVE  SameWrites(PendingOf(outbox, p), PendingOf(outbox', p))
  <2>1. PendingOf(outbox', p) = PendingOf(outbox, p)
    BY DEF PendingOf, Pending, ForPost
  <2> QED BY <2>1, PendingType, SameRows DEF TypeOK
<1> QED BY <1>1

\* A call for a sync leaves a run as it is, or starts it.
LEMMA SyncStarts ==
    ASSUME TypeOK, NEW connected, Sync(connected)
    PROVE  \A s \in Runs :
             \/ run'[s].pc \notin PushSteps \cup {"merge"}
             \/ /\ run'[s].pc = run[s].pc /\ run'[s].todo = run[s].todo
                /\ run'[s].ack = run[s].ack /\ run'[s].incoming = run[s].incoming
BY DEF Sync, EngineSync, TypeOK, Run, PushSteps

\* Time makes rows older.
LEMMA TickKeepsWanted ==
    ASSUME TypeOK, TypeOK', WantedInv, Tick
    PROVE  WantedInv'
<1> USE DEF historyVars
<1> DEFINE older(e) == IF e.attempts = 0 THEN e ELSE [e EXCEPT !.since = Older(@, MaxDelay)]
           aged(row) == [row EXCEPT !.age = Older(@, TTL + 1)]
<1>1. /\ outbox' = {older(e) : e \in outbox} /\ posts' = {aged(row) : row \in posts}
      /\ server' = server /\ nextId' = nextId /\ requested' = requested /\ intent' = intent
      /\ voided' = voided
  BY DEF Tick
<1>2. \A e \in OutboxEntry : /\ older(e).id = e.id /\ older(e).post = e.post
                             /\ older(e).kind = e.kind /\ older(e).status = e.status
                             /\ older(e).attempts = e.attempts
  BY DEF OutboxEntry
<1>3. \A row \in LocalPost : aged(row).id = row.id /\ aged(row).liked = row.liked
  BY DEF LocalPost
<1>4. outbox \in SUBSET OutboxEntry /\ posts \in SUBSET LocalPost
  BY DEF TypeOK
<1> HIDE DEF older, aged
<1>5. \A row \in posts' : \E old \in posts : old.id = row.id /\ old.liked = row.liked
  BY <1>1, <1>3, <1>4
<1>6. \A x \in outbox' : \E y \in outbox :
        y.id = x.id /\ y.post = x.post /\ y.kind = x.kind /\ y.status = x.status
  BY <1>1, <1>2, <1>4
<1>7. ASSUME NEW p \in Posts
      PROVE  SameWrites(PendingOf(outbox, p), PendingOf(outbox', p))
  <2>1. \A e \in PendingOf(outbox, p) : older(e) \in PendingOf(outbox', p)
    BY <1>1, <1>2, <1>4 DEF PendingOf, Pending, ForPost
  <2>2. \A f \in PendingOf(outbox', p) : \E e \in PendingOf(outbox, p) : f = older(e)
    BY <1>1, <1>2, <1>4 DEF PendingOf, Pending, ForPost
  <2>3. PendingOf(outbox, p) \in SUBSET OutboxEntry
    BY <1>4, PendingType
  <2> QED BY <1>2, <2>1, <2>2, <2>3 DEF SameWrites
<1>8. \A s \in Runs : /\ run'[s].pc = run[s].pc /\ run'[s].todo = run[s].todo
                      /\ run'[s].ack = run[s].ack /\ run'[s].incoming = run[s].incoming
  BY DEF Tick, TypeOK, Run
<1> QED BY <1>1, <1>5, <1>6, <1>7, <1>8, CalmStepKeepsWanted

\* Everything that neither a push nor a merge nor a tap does.
LEMMA OthersKeepWanted ==
    ASSUME TypeOK, TypeOK', WantedInv,
           \/ Launch \/ TriggerSync \/ ClearAll \/ ClearImages
           \/ ScreenStep \/ EnvironmentStep \/ UNCHANGED vars
    PROVE  WantedInv'
<1> USE DEF serverVars, storeVars, memoryVars, historyVars
<1> DEFINE Carried == \A s \in Runs :
               \/ run'[s].pc \notin PushSteps \cup {"merge"}
               \/ /\ run'[s].pc = run[s].pc /\ run'[s].todo = run[s].todo
                  /\ run'[s].ack = run[s].ack /\ run'[s].incoming = run[s].incoming
<1>1. CASE Tick
  BY <1>1, TickKeepsWanted
<1>2. CASE ClearAll
  <2>1. outbox' = outbox \ outbox /\ \A e \in outbox : e.post \in voided'
    BY <1>2 DEF ClearAll
  <2>2. /\ \A p \in Posts \ voided' : SameWrites(PendingOf(outbox, p), PendingOf(outbox', p))
        /\ \A x \in outbox' : \E y \in outbox :
             y.id = x.id /\ y.post = x.post /\ y.kind = x.kind /\ y.status = x.status
    BY <2>1, OutboxShrinks
  <2>3. /\ nextId' = nextId /\ requested' = requested /\ intent' = intent
        /\ voided \subseteq voided' /\ server' = server /\ posts' = {} /\ run' = run
    BY <1>2 DEF ClearAll
  <2> QED BY <2>2, <2>3, CalmStepKeepsWanted
<1>3. CASE Launch \/ TriggerSync \/ GoOnline
  <2>1. PICK connected \in BOOLEAN : Sync(connected)
    BY <1>3 DEF Launch, TriggerSync, GoOnline, TypeOK
  <2>2. Carried
    BY <2>1, SyncStarts
  <2>3. /\ nextId' = nextId /\ requested' = requested /\ intent' = intent
        /\ voided \subseteq voided' /\ server' = server /\ posts' \subseteq posts
        /\ outbox' = outbox
    BY <1>3 DEF Launch, PruneExpired, TriggerSync, GoOnline
  <2> QED BY <2>2, <2>3, OutboxStays, CalmStepKeepsWanted
<1>4. CASE ClearImages \/ ScreenStep \/ GoOffline \/ UNCHANGED vars
  <2>1. /\ nextId' = nextId /\ requested' = requested /\ intent' = intent
        /\ voided' = voided /\ posts' = posts /\ outbox' = outbox
        /\ run' = run /\ server' = server
    BY <1>4 DEF ClearImages, ScreenStep, WarmImages, ThumbArrives, GoOffline, vars
  <2> QED BY <2>1, OutboxStays, CalmStepKeepsWanted
<1>5. CASE Crash
  <2>1. /\ nextId' = nextId /\ requested' = requested /\ intent' = intent
        /\ voided' = voided /\ posts' = posts /\ outbox' = outbox
        /\ server' = server
    BY <1>5 DEF Crash
  <2>2. \A s \in Runs : run'[s].pc = "idle"
    BY <1>5 DEF Crash, IdleRun
  <2>3. Carried
    BY <2>2 DEF PushSteps
  <2> QED BY <2>1, <2>3, OutboxStays, CalmStepKeepsWanted
<1>6. ASSUME NEW p \in Posts, DeletePost(p) \/ PublishPost(p) PROVE WantedInv'
  <2>1. /\ nextId' = nextId /\ requested' = requested /\ intent' = intent
        /\ voided' = voided /\ posts' = posts /\ outbox' = outbox
        /\ run' = run
    BY <1>6 DEF DeletePost, PublishPost
  <2>2. \A q \in Posts : server'[q].liked = server[q].liked
    BY <1>6 DEF DeletePost, PublishPost, TypeOK, ServerPost
  <2> QED BY <2>1, <2>2, OutboxStays, CalmStepKeepsWanted
<1> QED BY <1>1, <1>2, <1>3, <1>4, <1>5, <1>6 DEF EnvironmentStep, ServerControls

-----------------------------------------------------------------------------
(* The steps of a run, and what was asked *)

\* While one run moves, no other has copies to keep.
LEMMA OthersRest ==
    ASSUME TypeOK, OneRun, NEW r \in Runs, PushStep(r) \/ PullStep(r)
    PROVE  \A s \in Runs \ {r} : run'[s].pc = "idle" /\ RunWanted(s)'
<1> SUFFICES ASSUME NEW s \in Runs \ {r} PROVE run'[s].pc = "idle" /\ RunWanted(s)'
  OBVIOUS
<1>1. run'[s] = run[s] /\ run[r].pc # "idle"
  BY RunStepKeepsLock
<1>2. run[s].pc = "idle"
  BY <1>1 DEF OneRun
<1> QED BY <1>1, <1>2 DEF RunWanted, PushSteps

\* A step of a run after which it has no copies.
LEMMA RunLetsGo ==
    ASSUME TypeOK, TypeOK', OneRun, WantedInv, NEW r \in Runs, PushStep(r) \/ PullStep(r),
           run'[r].pc \notin PushSteps \cup {"merge"},
           nextId' = nextId, requested' = requested, intent' = intent, server' = server,
           posts' = posts, voided \subseteq voided',
           \A p \in Posts \ voided' : SameWrites(PendingOf(outbox, p), PendingOf(outbox', p)),
           \A x \in outbox' : \E y \in outbox :
               y.id = x.id /\ y.post = x.post /\ y.kind = x.kind /\ y.status = x.status
    PROVE  WantedInv'
<1>1. \A s \in Runs : run'[s].pc \notin PushSteps \cup {"merge"}
  <2>1. \A s \in Runs \ {r} : run'[s].pc = "idle"
    BY OthersRest
  <2> QED BY <2>1 DEF PushSteps
<1>2. \A p \in Posts : server'[p].liked = server[p].liked
  OBVIOUS
<1> QED BY <1>1, <1>2, CalmStepKeepsWanted

\* The next request of a push leaves for the first row of its post, unless the
\* post is given up.
LEMMA ProceedWanted ==
    ASSUME TypeOK, TypeOK', NEW r \in Runs, NEW todo \in SUBSET OutboxEntry, Proceed(r, todo),
           UniqueIds(todo), \A e \in todo : SameWrite(e)',
           Misordered(todo, outbox') \subseteq voided',
           nextId' = nextId, \A i \in requested : i < nextId
    PROVE  RunWanted(r)' /\ \A i \in requested' : i < nextId'
<1>1. run \in [Runs -> Run] /\ run[r] \in Run
  BY DEF TypeOK
<1>2. \A i \in requested' : i < nextId'
  BY DEF Proceed, Earliest, SameWrite
<1>3. CASE todo = {}
  <2>1. run'[r].pc = "fetch"
    BY <1>1, <1>3 DEF Proceed, Fetching, IdleRun
  <2> QED BY <1>2, <2>1 DEF RunWanted, PushSteps
<1>4. CASE todo # {}
  <2>1. run'[r].pc = "wait" /\ run'[r].todo = todo
    BY <1>1, <1>4 DEF Proceed, Run
  <2>2. ASSUME NEW e \in Earliest(todo) PROVE IsFirst(e)'
    <3>1. e \in todo /\ e.id \in requested'
      BY DEF Proceed, Earliest
    <3>2. CASE e.post \in Misordered(todo, outbox')
      BY <3>1, <3>2 DEF IsFirst
    <3>3. CASE e.post \notin Misordered(todo, outbox')
      <4>1. /\ \E x \in outbox' : x.id = e.id
            /\ ~\E y \in ForPost(Pending(outbox'), e.post) : y.id < e.id
        BY <3>3 DEF Misordered
      <4>2. PICK x \in outbox' : x.id = e.id
        BY <4>1
      <4>3. x.post = e.post /\ x.status = "pending"
        BY <3>1, <4>2 DEF SameWrite
      <4>4. x \in PendingOf(outbox', e.post)
        BY <4>2, <4>3 DEF PendingOf, Pending, ForPost
      <4>5. \A y \in PendingOf(outbox', e.post) :
              y \in ForPost(Pending(outbox'), e.post) /\ y \in OutboxEntry
        BY DEF PendingOf, Pending, ForPost, TypeOK
      <4>6. \A y \in PendingOf(outbox', e.post) : x.id <= y.id
        BY <4>1, <4>2, <4>5 DEF OutboxEntry, Ids, TypeOK
      <4>7. x \in Earliest(PendingOf(outbox', e.post))
        BY <4>4, <4>6 DEF Earliest
      <4> QED BY <3>1, <4>2, <4>7 DEF IsFirst
    <3> QED BY <3>2, <3>3
  <2>3. \A e : Answered(r, e)'
    BY <2>1 DEF Answered
  <2> QED BY <1>2, <2>1, <2>2, <2>3 DEF RunWanted
<1> QED BY <1>3, <1>4

\* While the request of a post's first row is under way, what the server and
\* the rows have of that post is not spoken for.
LEMMA FirstIsAsked ==
    ASSUME TypeOK, NEW e \in OutboxEntry, IsFirst(e), e.post \notin voided, NEW wish, NEW liked
    PROVE  StartsFrom(PendingOf(outbox, e.post), wish, requested, liked)
<1> DEFINE R == PendingOf(outbox, e.post)
<1>1. PICK x \in Earliest(R) : x.id = e.id
  BY DEF IsFirst
<1>2. R \in SUBSET OutboxEntry
  BY PendingType DEF TypeOK
<1> HIDE DEF R
<1>3. x \in R /\ \A y \in Earliest(R) : y.id = x.id
  BY <1>2 DEF Earliest, OutboxEntry, Ids
<1>4. e.id \in requested
  BY DEF IsFirst
<1>5. StartsFrom(R, wish, requested, liked)
  BY <1>1, <1>3, <1>4 DEF StartsFrom
<1> QED BY <1>5 DEF R

\* The one row a push is at.
LEMMA OneEarliest ==
    ASSUME NEW todo \in SUBSET OutboxEntry, UniqueIds(todo),
           NEW e \in Earliest(todo), NEW f \in Earliest(todo)
    PROVE  f = e
<1>1. e \in todo /\ f \in todo /\ e.id <= f.id /\ f.id <= e.id
  BY DEF Earliest
<1>2. e.id = f.id
  BY <1>1 DEF OutboxEntry, Ids
<1> QED BY <1>1, <1>2 DEF UniqueIds

\* What is known of the row a push is at.
LEMMA AtRow ==
    ASSUME TypeOK, WantedInv, NEW r \in Runs, run[r].pc \in PushSteps,
           NEW e \in Earliest(run[r].todo)
    PROVE  /\ e \in run[r].todo /\ e \in OutboxEntry /\ e.post \in Posts
           /\ run[r].todo \in SUBSET OutboxEntry /\ UniqueIds(run[r].todo)
           /\ \A f \in run[r].todo : SameWrite(f)
           /\ IsFirst(e) /\ Answered(r, e)
           /\ \A f \in Earliest(run[r].todo) : f = e
<1>1. run[r].todo \in SUBSET OutboxEntry
  BY DEF TypeOK, Run
<1>2. RunWanted(r)
  BY DEF WantedInv
<1>3. e \in run[r].todo
  BY DEF Earliest
<1>4. UniqueIds(run[r].todo) /\ (\A f \in run[r].todo : SameWrite(f)) /\ IsFirst(e) /\ Answered(r, e)
  BY <1>2 DEF RunWanted
<1>5. \A f \in Earliest(run[r].todo) : f = e
  BY <1>1, <1>4, OneEarliest
<1> QED BY <1>1, <1>3, <1>4, <1>5 DEF OutboxEntry

\* A push is planned: orphans go, and what it copies is in the table.
LEMMA PlanPushWanted ==
    ASSUME TypeOK, TypeOK', OneRun, RowsInv, WantedInv, NEW r \in Runs, PlanPush(r)
    PROVE  WantedInv'
<1> USE DEF serverVars
<1> DEFINE gone == Orphans(outbox, PostIds(posts))
           keep == outbox \ gone
           todo == SelectSendable(keep)
<1>1. /\ outbox' = outbox \ gone
      /\ voided' = voided \cup {e.post : e \in gone} \cup Misordered(todo, outbox')
      /\ Proceed(r, todo)
      /\ server' = server /\ posts' = posts /\ nextId' = nextId /\ intent' = intent
  BY DEF PlanPush
<1>2. gone \in SUBSET outbox /\ \A e \in gone : e.post \in voided'
  BY <1>1 DEF Orphans
<1>3. todo \in SUBSET OutboxEntry /\ \A e \in todo : e \in outbox /\ e.status = "pending"
  BY DEF SelectSendable, IsReadyToSend, TypeOK
<1> HIDE DEF gone, todo
<1>4. \A p \in Posts \ voided' : SameWrites(PendingOf(outbox, p), PendingOf(outbox', p))
  BY <1>1, <1>2, OutboxShrinks
<1>5. requested \subseteq requested' /\ voided \subseteq voided'
  BY <1>1 DEF Proceed
<1>6. \A p \in Posts : server'[p].liked = server[p].liked
  BY <1>1
<1>7. \A row \in posts' : \E old \in posts : old.id = row.id /\ old.liked = row.liked
  BY <1>1
<1>8. \A p \in Posts : p \in voided' \/ Wanted(p)'
  BY <1>1, <1>4, <1>5, <1>6, <1>7, PostsKeepWanted
<1>9. ASSUME NEW e \in todo PROVE SameWrite(e)'
  <2>1. e \in outbox /\ e.status = "pending" /\ e.id < nextId
    BY <1>3 DEF RowsInv
  <2>2. \A x \in outbox' : x.id = e.id => x = e
    BY <1>1, <2>1 DEF RowsInv
  <2> QED BY <1>1, <2>1, <2>2 DEF SameWrite
<1>10. UniqueIds(todo)
  BY <1>3 DEF UniqueIds, RowsInv
<1>11. \A i \in requested : i < nextId
  BY DEF WantedInv
<1>12. Misordered(todo, outbox') \subseteq voided'
  BY <1>1
<1>13. RunWanted(r)' /\ \A i \in requested' : i < nextId'
  BY <1>1, <1>3, <1>9, <1>10, <1>11, <1>12, ProceedWanted
<1>14. \A s \in Runs \ {r} : RunWanted(s)'
  BY OthersRest DEF PushStep
<1> QED BY <1>8, <1>13, <1>14 DEF WantedInv

\* The server answers a request: it has what the row asks for, and the copy
\* says so.
LEMMA AcceptWanted ==
    ASSUME TypeOK, TypeOK', OneRun, WantedInv, NEW r \in Runs, AcceptLike(r)
    PROVE  WantedInv'
<1> USE DEF storeVars
<1>1. PICK e \in Earliest(run[r].todo) :
        /\ server' = [server EXCEPT ![e.post] = SetLike(@, e.kind = "like")]
        /\ run' = [run EXCEPT ![r].pc = "acked",
                              ![r].ack = [liked |-> server'[e.post].liked,
                                          count |-> server'[e.post].count]]
  BY DEF AcceptLike
<1>2. run[r].pc = "wait"
  BY DEF AcceptLike
<1>3. /\ e \in run[r].todo /\ e \in OutboxEntry /\ e.post \in Posts
      /\ run[r].todo \in SUBSET OutboxEntry /\ UniqueIds(run[r].todo)
      /\ \A f \in run[r].todo : SameWrite(f)
      /\ IsFirst(e)
      /\ \A f \in Earliest(run[r].todo) : f = e
  BY <1>2, AtRow DEF PushSteps
<1>4. /\ nextId' = nextId /\ requested' = requested /\ intent' = intent /\ voided' = voided
      /\ posts' = posts /\ outbox' = outbox
  BY DEF AcceptLike
<1>5. /\ \A p \in Posts \ {e.post} : server'[p] = server[p]
      /\ server'[e.post].liked = Likes(e)
  BY <1>1, <1>3 DEF TypeOK, ServerPost, SetLike, Likes
<1>6. /\ run'[r].pc = "acked" /\ run'[r].todo = run[r].todo
      /\ run'[r].ack.liked = server'[e.post].liked
  BY <1>1 DEF TypeOK, Run
<1>7. ASSUME NEW p \in Posts, p \notin voided PROVE Wanted(p)'
  <2>1. Wanted(p)
    BY <1>7 DEF WantedInv
  <2>2. CASE p # e.post
    BY <1>4, <1>5, <2>1, <2>2 DEF Wanted
  <2>3. CASE p = e.post
    <3>1. \A liked : StartsFrom(PendingOf(outbox, p), intent[p], requested, liked)
      BY <1>3, <1>7, <2>3, FirstIsAsked
    <3> QED BY <1>4, <2>1, <3>1 DEF Wanted
  <2> QED BY <2>2, <2>3
<1>8. RunWanted(r)'
  <2>1. \A f \in run[r].todo : SameWrite(f)'
    BY <1>3, <1>4 DEF SameWrite
  <2>2. IsFirst(e)'
    BY <1>3, <1>4 DEF IsFirst
  <2>3. Answered(r, e)'
    BY <1>5, <1>6 DEF Answered
  <2> QED BY <1>3, <1>6, <2>1, <2>2, <2>3 DEF RunWanted
<1>9. \A s \in Runs \ {r} : RunWanted(s)'
  BY OthersRest DEF PushStep
<1> QED BY <1>4, <1>7, <1>8, <1>9 DEF WantedInv

\* The server refuses: the copy keeps what it knows.
LEMMA RefuseWanted ==
    ASSUME TypeOK, TypeOK', OneRun, WantedInv, NEW r \in Runs, RefuseLike(r)
    PROVE  WantedInv'
<1> USE DEF storeVars, serverVars
<1>1. run[r].pc = "wait" /\ run' = [run EXCEPT ![r].pc = "refused"]
  BY DEF RefuseLike
<1>2. /\ nextId' = nextId /\ requested' = requested /\ intent' = intent /\ voided' = voided
      /\ posts' = posts /\ outbox' = outbox /\ server' = server
  BY DEF RefuseLike
<1>3. run'[r].pc = "refused" /\ run'[r].todo = run[r].todo
  BY <1>1 DEF TypeOK, Run
<1>4. \A p \in Posts : p \in voided' \/ Wanted(p)'
  BY <1>2 DEF WantedInv, Wanted
<1>5. RunWanted(r)'
  <2>1. RunWanted(r) /\ run[r].pc \in PushSteps
    BY <1>1 DEF WantedInv, PushSteps
  <2>2. \A e : SameWrite(e) <=> SameWrite(e)'
    BY <1>2 DEF SameWrite
  <2>3. \A e : IsFirst(e) <=> IsFirst(e)'
    BY <1>2 DEF IsFirst
  <2>4. \A e : Answered(r, e)'
    BY <1>3 DEF Answered
  <2> QED BY <1>3, <2>1, <2>2, <2>3, <2>4 DEF RunWanted
<1>6. \A s \in Runs \ {r} : RunWanted(s)'
  BY OthersRest DEF PushStep
<1> QED BY <1>2, <1>4, <1>5, <1>6 DEF WantedInv

\* The local row takes over what the server acknowledged.
LEMMA ApplyWanted ==
    ASSUME TypeOK, TypeOK', OneRun, WantedInv, NEW r \in Runs, ApplyServerLike(r)
    PROVE  WantedInv'
<1> USE DEF serverVars, historyVars
<1>1. PICK e \in Earliest(run[r].todo) :
        posts' = {IF row.id = e.post
                  THEN [row EXCEPT !.liked = run[r].ack.liked, !.count = run[r].ack.count]
                  ELSE row : row \in posts}
  BY DEF ApplyServerLike
<1>2. run[r].pc = "acked" /\ run' = [run EXCEPT ![r].pc = "applied"]
  BY DEF ApplyServerLike
<1>3. /\ e \in run[r].todo /\ e \in OutboxEntry /\ e.post \in Posts
      /\ UniqueIds(run[r].todo)
      /\ \A f \in run[r].todo : SameWrite(f)
      /\ IsFirst(e) /\ Answered(r, e)
      /\ \A f \in Earliest(run[r].todo) : f = e
  BY <1>2, AtRow DEF PushSteps
<1>4. /\ nextId' = nextId /\ requested' = requested /\ intent' = intent /\ voided' = voided
      /\ server' = server /\ outbox' = outbox
  BY DEF ApplyServerLike
<1>5. run[r].ack.liked = Likes(e) /\ server[e.post].liked = Likes(e)
  BY <1>2, <1>3 DEF Answered
<1>6. /\ run'[r].pc = "applied" /\ run'[r].todo = run[r].todo
      /\ run'[r].ack = run[r].ack
  BY <1>2 DEF TypeOK, Run
<1> DEFINE new(row) == [row EXCEPT !.liked = run[r].ack.liked, !.count = run[r].ack.count]
<1>7. \A row \in posts : new(row).id = row.id /\ new(row).liked = Likes(e)
  BY <1>5 DEF LocalPost, TypeOK
<1>8. \A row \in posts' : /\ row.id = e.post => row.liked = Likes(e)
                          /\ row.id # e.post => row \in posts
  <2>1. posts' = {IF row.id = e.post THEN new(row) ELSE row : row \in posts}
    BY <1>1
  <2> HIDE DEF new
  <2> QED BY <1>7, <2>1
<1>9. ASSUME NEW p \in Posts, p \notin voided PROVE Wanted(p)'
  <2>1. Wanted(p)
    BY <1>9 DEF WantedInv
  <2>2. CASE p # e.post
    BY <1>4, <1>8, <2>1, <2>2 DEF Wanted
  <2>3. CASE p = e.post
    <3>1. \A liked : StartsFrom(PendingOf(outbox, p), intent[p], requested, liked)
      BY <1>3, <1>9, <2>3, FirstIsAsked
    <3> QED BY <1>4, <2>1, <3>1 DEF Wanted
  <2> QED BY <2>2, <2>3
<1>10. RunWanted(r)'
  <2>1. \A f \in run[r].todo : SameWrite(f)'
    BY <1>3, <1>4 DEF SameWrite
  <2>2. IsFirst(e)'
    BY <1>3, <1>4 DEF IsFirst
  <2>3. Answered(r, e)'
    BY <1>4, <1>5, <1>6, <1>8 DEF Answered
  <2> QED BY <1>3, <1>6, <2>1, <2>2, <2>3 DEF RunWanted
<1>11. \A s \in Runs \ {r} : RunWanted(s)'
  BY OthersRest DEF PushStep
<1> QED BY <1>4, <1>9, <1>10, <1>11 DEF WantedInv

\* A row that is carried out leaves the table: what it asked for is so.
LEMMA DeleteSentWanted ==
    ASSUME TypeOK, TypeOK', OneRun, RowsInv, WantedInv, NEW r \in Runs, DeleteSent(r)
    PROVE  WantedInv'
<1> USE DEF serverVars
<1>1. PICK e \in Earliest(run[r].todo) :
        /\ outbox' = {x \in outbox : x.id # e.id}
        /\ Proceed(r, run[r].todo \ {e})
        /\ voided' = voided \cup Misordered(run[r].todo \ {e}, outbox')
  BY DEF DeleteSent
<1>2. run[r].pc = "applied"
  BY DEF DeleteSent
<1>3. /\ e \in run[r].todo /\ e \in OutboxEntry /\ e.post \in Posts
      /\ run[r].todo \in SUBSET OutboxEntry /\ UniqueIds(run[r].todo)
      /\ \A f \in run[r].todo : SameWrite(f)
      /\ IsFirst(e) /\ Answered(r, e)
  BY <1>2, AtRow DEF PushSteps
<1>4. /\ nextId' = nextId /\ intent' = intent /\ server' = server /\ posts' = posts
  BY DEF DeleteSent
<1>5. /\ server[e.post].liked = Likes(e)
      /\ \A row \in posts : row.id = e.post => row.liked = Likes(e)
  BY <1>2, <1>3 DEF Answered
<1>6. requested \subseteq requested' /\ voided \subseteq voided'
  BY <1>1 DEF Proceed
<1>7. ASSUME NEW p \in Posts, p \notin voided' PROVE Wanted(p)'
  <2> DEFINE R == PendingOf(outbox, p)
             Q == PendingOf(outbox', p)
  <2>0. R \in SUBSET OutboxEntry /\ R \in SUBSET outbox
    BY PendingType DEF TypeOK
  <2>1. /\ Alternate(R)
        /\ EndsIn(R, intent[p])
        /\ StartsFrom(R, intent[p], requested, server[p].liked)
        /\ \A row \in posts : row.id = p => StartsFrom(R, intent[p], requested, row.liked)
    BY <1>6, <1>7 DEF WantedInv, Wanted
  <2>2. Q = {x \in R : x.id # e.id}
    BY <1>1 DEF PendingOf, Pending, ForPost
  <2>3. CASE p # e.post
    <3>1. \A x \in outbox : x.id = e.id => x.post = e.post
      BY <1>3 DEF SameWrite
    <3>2. \A x \in R : x.post = p /\ x \in outbox
      BY DEF PendingOf, Pending, ForPost
    <3>3. Q = R
      BY <2>2, <2>3, <3>1, <3>2
    <3> HIDE DEF R, Q
    <3>4. \A liked : StartsFrom(R, intent[p], requested, liked)
                        => StartsFrom(R, intent[p], requested', liked)
      BY <1>6, <2>0, SameRows, SameWritesKeep
    <3>5. StartsFrom(R, intent[p], requested', server[p].liked)
      BY <2>1, <3>4
    <3>6. \A row \in posts : row.id = p => StartsFrom(R, intent[p], requested', row.liked)
      BY <2>1, <3>4
    <3> QED BY <1>4, <2>1, <3>3, <3>5, <3>6 DEF Wanted, Q
  <2>4. CASE p = e.post
    <3>1. PICK x \in Earliest(R) : x.id = e.id
      BY <1>3, <1>6, <1>7, <2>4 DEF IsFirst
    <3>2. x \in outbox /\ x \in R
      BY <2>0, <3>1 DEF Earliest
    <3>3. Likes(x) = Likes(e)
      BY <1>3, <3>1, <3>2 DEF SameWrite, Likes
    <3>4. \A y \in R : y.id = e.id => y = x
      BY <2>0, <3>1, <3>2 DEF RowsInv
    <3>5. Q = R \ {x}
      BY <2>2, <3>1, <3>4
    <3>6. UniqueIds(R)
      BY <2>0 DEF RowsInv, UniqueIds
    <3> HIDE DEF R, Q
    <3>7. /\ Alternate(Q) /\ EndsIn(Q, intent[p])
          /\ StartsFrom(Q, intent[p], requested', Likes(e))
      BY <2>0, <2>1, <3>1, <3>3, <3>5, <3>6, FirstTaken
    <3> QED BY <1>4, <1>5, <2>4, <3>7 DEF Wanted, Q
  <2> QED BY <2>3, <2>4
<1>8. \A f \in run[r].todo \ {e} : SameWrite(f)'
  BY <1>1, <1>3, <1>4 DEF SameWrite
<1>9. RunWanted(r)' /\ \A i \in requested' : i < nextId'
  <2>1. UniqueIds(run[r].todo \ {e}) /\ run[r].todo \ {e} \in SUBSET OutboxEntry
    BY <1>3 DEF UniqueIds
  <2>2. Misordered(run[r].todo \ {e}, outbox') \subseteq voided'
    BY <1>1
  <2>3. \A i \in requested : i < nextId
    BY DEF WantedInv
  <2> QED BY <1>1, <1>4, <1>8, <2>1, <2>2, <2>3, ProceedWanted
<1>10. \A s \in Runs \ {r} : RunWanted(s)'
  BY OthersRest DEF PushStep
<1> QED BY <1>7, <1>9, <1>10 DEF WantedInv

\* A refusal is recorded: the same write, tried once more, or given up.
LEMMA RefusalWanted ==
    ASSUME TypeOK, TypeOK', OneRun, RowsInv, WantedInv, NEW r \in Runs, RecordRefusal(r)
    PROVE  WantedInv'
<1> USE DEF serverVars
<1>1. PICK e \in Earliest(run[r].todo) :
        LET failed == RecordFailure(e, run[r].elapsed)
        IN  /\ outbox' = {IF x.id = e.id THEN failed ELSE x : x \in outbox}
            /\ Proceed(r, run[r].todo \ {e})
            /\ voided' = voided \cup {x.post : x \in {failed} \ Pending({failed})}
                                \cup Misordered(run[r].todo \ {e}, outbox')
  BY DEF RecordRefusal
<1>2. run[r].pc = "refused"
  BY DEF RecordRefusal
<1>3. /\ e \in run[r].todo /\ e \in OutboxEntry /\ e.post \in Posts
      /\ run[r].todo \in SUBSET OutboxEntry /\ UniqueIds(run[r].todo)
      /\ \A f \in run[r].todo : SameWrite(f)
  BY <1>2, AtRow DEF PushSteps
<1>4. /\ nextId' = nextId /\ intent' = intent /\ server' = server /\ posts' = posts
  BY DEF RecordRefusal
<1> DEFINE failed == RecordFailure(e, run[r].elapsed)
<1>5. /\ failed.id = e.id /\ failed.post = e.post /\ failed.kind = e.kind
      /\ failed.attempts > 0 /\ failed.status \in OutboxStatus
  <2>1. failed = [e EXCEPT !.attempts = e.attempts + 1, !.since = run[r].elapsed,
                           !.status = IF e.attempts + 1 >= MaxAttempts
                                      THEN "dead" ELSE "pending"]
    BY DEF RecordFailure
  <2> QED BY <1>3, <2>1 DEF OutboxEntry, OutboxStatus
<1>6. /\ outbox' = {IF x.id = e.id THEN failed ELSE x : x \in outbox}
      /\ voided \subseteq voided'
      /\ failed.status # "pending" => e.post \in voided'
      /\ Misordered(run[r].todo \ {e}, outbox') \subseteq voided'
  BY <1>1, <1>5 DEF Pending
<1> HIDE DEF failed
<1>7. requested \subseteq requested'
  BY <1>1 DEF Proceed
<1>8. ASSUME NEW p \in Posts \ voided'
      PROVE  SameWrites(PendingOf(outbox, p), PendingOf(outbox', p))
  <2> DEFINE R == PendingOf(outbox, p)
             Q == PendingOf(outbox', p)
             new(x) == IF x.id = e.id THEN failed ELSE x
  <2>1. \A x \in outbox : x.id = e.id =>
          x.post = e.post /\ x.kind = e.kind /\ x.status = "pending"
    BY <1>3 DEF SameWrite
  <2>2. \A x \in R : /\ x \in outbox /\ new(x).id = x.id /\ new(x).kind = x.kind
                     /\ x.attempts > 0 => new(x).attempts > 0
    BY <1>5, <2>1 DEF PendingOf, Pending, ForPost
  <2>3. \A x \in R : new(x) \in Q
    <3> TAKE x \in R
    <3>1. x \in outbox /\ x.post = p /\ x.status = "pending"
      BY DEF PendingOf, Pending, ForPost
    <3>2. new(x) \in outbox'
      BY <1>6, <3>1
    <3>3. new(x).post = p /\ new(x).status = "pending"
      BY <1>5, <1>6, <1>8, <2>1, <3>1 DEF OutboxStatus
    <3> QED BY <3>2, <3>3 DEF PendingOf, Pending, ForPost
  <2>4. \A f \in Q : \E x \in R : f = new(x)
    <3> TAKE f \in Q
    <3>1. f \in outbox' /\ f.post = p /\ f.status = "pending"
      BY DEF PendingOf, Pending, ForPost
    <3>2. PICK x \in outbox : f = new(x)
      BY <1>6, <3>1
    <3>3. x.post = p /\ x.status = "pending"
      BY <1>5, <2>1, <3>1, <3>2
    <3> QED BY <3>2, <3>3 DEF PendingOf, Pending, ForPost
  <2> HIDE DEF R, Q, new
  <2> QED BY <2>2, <2>3, <2>4 DEF SameWrites, R, Q
<1>9. \A p \in Posts : p \in voided' \/ Wanted(p)'
  <2>1. \A p \in Posts : server'[p].liked = server[p].liked
    BY <1>4
  <2>2. \A row \in posts' : \E old \in posts : old.id = row.id /\ old.liked = row.liked
    BY <1>4
  <2> QED BY <1>4, <1>6, <1>7, <1>8, <2>1, <2>2, PostsKeepWanted
<1>10. ASSUME NEW f \in run[r].todo \ {e} PROVE SameWrite(f)'
  <2>1. f.id # e.id
    BY <1>3 DEF UniqueIds
  <2>2. \A x \in outbox' : x.id = f.id => x \in outbox
    BY <1>5, <1>6, <2>1
  <2> QED BY <1>3, <1>4, <2>2 DEF SameWrite
<1>11. RunWanted(r)' /\ \A i \in requested' : i < nextId'
  <2>1. UniqueIds(run[r].todo \ {e}) /\ run[r].todo \ {e} \in SUBSET OutboxEntry
    BY <1>3 DEF UniqueIds
  <2>2. \A i \in requested : i < nextId
    BY DEF WantedInv
  <2>3. Proceed(r, run[r].todo \ {e})
    BY <1>1
  <2> QED BY <1>4, <1>6, <1>10, <2>1, <2>2, <2>3, ProceedWanted
<1>12. \A s \in Runs \ {r} : RunWanted(s)'
  BY OthersRest DEF PushStep
<1> QED BY <1>9, <1>11, <1>12 DEF WantedInv

\* Every step of a push.
LEMMA PushKeepsWanted ==
    ASSUME TypeOK, TypeOK', OneRun, RowsInv, WantedInv, NEW r \in Runs, PushStep(r)
    PROVE  WantedInv'
<1> USE DEF serverVars, storeVars, historyVars
<1>1. CASE LikeUnreachable(r)
  <2>1. /\ nextId' = nextId /\ requested' = requested /\ intent' = intent /\ server' = server
        /\ posts' = posts /\ voided' = voided /\ outbox' = outbox
    BY <1>1 DEF LikeUnreachable
  <2>2. run'[r].pc = "fetch"
    BY <1>1 DEF LikeUnreachable, Fetching, IdleRun, TypeOK
  <2> QED BY <2>1, <2>2, OutboxStays, RunLetsGo DEF PushSteps
<1> QED
  BY <1>1, PlanPushWanted, AcceptWanted, RefuseWanted, ApplyWanted, DeleteSentWanted,
     RefusalWanted DEF PushStep

\* The delta has the server's like states.
LEMMA AnswerWanted ==
    ASSUME TypeOK, TypeOK', OneRun, WantedInv, NEW r \in Runs, AnswerDelta(r)
    PROVE  WantedInv'
<1> USE DEF serverVars, storeVars, historyVars
<1>1. /\ nextId' = nextId /\ requested' = requested /\ intent' = intent /\ server' = server
      /\ posts' = posts /\ voided' = voided /\ outbox' = outbox
  BY DEF AnswerDelta
<1>2. run'[r].pc = "merge" /\ run'[r].incoming = DeltaPosts(run[r].since)
  BY DEF AnswerDelta, TypeOK, Run
<1>3. \A i \in DeltaPosts(run[r].since) : i.liked = server[i.id].liked
  BY DEF DeltaPosts
<1>4. RunWanted(r)'
  BY <1>1, <1>2, <1>3 DEF RunWanted, PushSteps
<1>5. \A p \in Posts : p \in voided' \/ Wanted(p)'
  BY <1>1 DEF WantedInv, Wanted
<1>6. \A s \in Runs \ {r} : RunWanted(s)'
  BY OthersRest DEF PullStep
<1> QED BY <1>1, <1>4, <1>5, <1>6 DEF WantedInv

\* A merge gives a row the like state it had, or the server's.
LEMMA MergeWanted ==
    ASSUME TypeOK, TypeOK', OneRun, WantedInv, NEW r \in Runs, Merge(r)
    PROVE  WantedInv'
<1> USE DEF serverVars
<1> DEFINE incoming == run[r].incoming
           merged  == MergeDelta(posts, incoming, run[r].tombstoned)
           dropped == DroppedIds(posts, merged)
           older(l) == [l EXCEPT !.age = 0]
<1>1. /\ posts' = Upsert(posts, merged, dropped)
      /\ run[r].pc = "merge"
      /\ run'[r].pc \in {"ensure", "drop"}
      /\ nextId' = nextId /\ requested' = requested /\ intent' = intent /\ server' = server
      /\ voided' = voided /\ outbox' = outbox
  BY DEF Merge, IdleRun, TypeOK
<1>2. \A i \in incoming : Cached(i).id = i.id /\ Cached(i).liked = server[i.id].liked
  <2>1. \A i \in incoming : i.liked = server[i.id].liked
    BY <1>1 DEF WantedInv, RunWanted
  <2> QED BY <2>1 DEF Cached
<1>3. \A l \in posts : older(l).id = l.id /\ older(l).liked = l.liked
  BY DEF TypeOK, LocalPost
<1>4. \A row \in merged : \/ \E i \in incoming : row = Cached(i)
                          \/ \E l \in posts : row = older(l)
  BY DEF MergeDelta, Newest
<1>5. \A row \in posts' : row \in merged \/ row \in posts
  BY <1>1 DEF Upsert
<1> HIDE DEF merged, older
<1>6. \A row \in posts' : \/ row.liked = server[row.id].liked
                          \/ \E l \in posts : row.id = l.id /\ row.liked = l.liked
  BY <1>2, <1>3, <1>4, <1>5
<1>7. ASSUME NEW p \in Posts, p \notin voided PROVE Wanted(p)'
  <2>1. Wanted(p)
    BY <1>7 DEF WantedInv
  <2>2. \A row \in posts' : row.id = p =>
          StartsFrom(PendingOf(outbox, p), intent[p], requested, row.liked)
    BY <1>6, <2>1 DEF Wanted
  <2> QED BY <1>1, <2>1, <2>2 DEF Wanted
<1>8. RunWanted(r)'
  BY <1>1 DEF RunWanted, PushSteps
<1>9. \A s \in Runs \ {r} : RunWanted(s)'
  BY OthersRest DEF PullStep
<1>10. \A i \in requested' : i < nextId'
  BY <1>1 DEF WantedInv
<1> QED BY <1>1, <1>7, <1>8, <1>9, <1>10 DEF WantedInv

\* Every step of a pull.
LEMMA PullKeepsWanted ==
    ASSUME TypeOK, TypeOK', OneRun, WantedInv, NEW r \in Runs, PullStep(r)
    PROVE  WantedInv'
<1> USE DEF serverVars, storeVars, historyVars
<1>1. CASE FetchFails(r) \/ SaveCursor(r)
  <2>1. /\ nextId' = nextId /\ requested' = requested /\ intent' = intent /\ server' = server
        /\ posts' = posts /\ voided' = voided /\ outbox' = outbox
    BY <1>1 DEF FetchFails, SaveCursor
  <2>2. run'[r].pc = "idle"
    BY <1>1 DEF FetchFails, SaveCursor, EndRun, IdleRun, TypeOK
  <2> QED BY <2>1, <2>2, OutboxStays, RunLetsGo DEF PushSteps
<1>2. CASE DropImages(r) \/ EnsureImages(r)
  <2>1. /\ nextId' = nextId /\ requested' = requested /\ intent' = intent /\ server' = server
        /\ posts' = posts /\ voided' = voided /\ outbox' = outbox
    BY <1>2 DEF DropImages, EnsureImages
  <2>2. run'[r].pc \in {"orphans", "commit"}
    BY <1>2 DEF DropImages, EnsureImages, TypeOK, Run
  <2> QED BY <2>1, <2>2, OutboxStays, RunLetsGo DEF PushSteps
<1>3. CASE DropOrphans(r)
  <2> DEFINE gone == Orphans(outbox, run[r].merged)
  <2>1. /\ nextId' = nextId /\ requested' = requested /\ intent' = intent /\ server' = server
        /\ posts' = posts /\ outbox' = outbox \ gone /\ gone \in SUBSET outbox
        /\ voided' = voided \cup {e.post : e \in gone}
    BY <1>3 DEF DropOrphans, Orphans
  <2>2. run'[r].pc = "ensure"
    BY <1>3 DEF DropOrphans, TypeOK, Run
  <2> HIDE DEF gone
  <2>3. /\ \A p \in Posts \ voided' : SameWrites(PendingOf(outbox, p), PendingOf(outbox', p))
        /\ \A x \in outbox' : \E y \in outbox :
             y.id = x.id /\ y.post = x.post /\ y.kind = x.kind /\ y.status = x.status
    BY <2>1, OutboxShrinks
  <2> QED BY <2>1, <2>2, <2>3, RunLetsGo DEF PushSteps
<1> QED
  BY <1>1, <1>2, <1>3, AnswerWanted, MergeWanted DEF PullStep

-----------------------------------------------------------------------------
(* A tap, and what was asked *)

\* The table is finite, though nothing bounds how many posts there are.
LEMMA OutboxFinite ==
    ASSUME TypeOK, RowsInv
    PROVE  IsFiniteSet(outbox)
<1> DEFINE f == [e \in outbox |-> e.id]
<1>1. f \in Injection(outbox, Ids)
  BY DEF TypeOK, RowsInv, OutboxEntry, Injection, IsInjective
<1>2. IsFiniteSet(Ids)
  BY FS_Interval, RetryPolicyAssumption DEF Ids
<1> QED BY <1>1, <1>2, FS_Injection

\* The user asks for the opposite of what they see, which is what they asked
\* for last.
LEMMA ToggleFlips ==
    ASSUME TypeOK, RowsInv, WantedInv, NEW row \in posts, row.id \notin voided
    PROVE  DeriveLikeState(row, ForPost(outbox, row.id)).liked = intent[row.id]
<1> DEFINE R == PendingOf(outbox, row.id)
<1>1. row.id \in Posts /\ row.liked \in BOOLEAN
  BY DEF TypeOK, LocalPost
<1>2. R \in SUBSET OutboxEntry /\ IsFiniteSet(R)
  BY PendingType, OutboxFinite, FS_Subset DEF TypeOK
<1>3. /\ EndsIn(R, intent[row.id])
      /\ StartsFrom(R, intent[row.id], requested, row.liked)
  BY <1>1 DEF WantedInv, Wanted
<1>4. ForPost(outbox, row.id) \in SUBSET OutboxEntry
  BY DEF ForPost, TypeOK
<1>5. Pending(ForPost(outbox, row.id)) = R
  BY DEF PendingOf
<1> HIDE DEF R
<1>6. /\ R = {} => DeriveLikeState(row, ForPost(outbox, row.id)).liked = row.liked
      /\ R # {} => DeriveLikeState(row, ForPost(outbox, row.id)).liked = Likes(LastRow(R))
  BY <1>1, <1>2, <1>4, <1>5, LastRowShows
<1>7. R # {} => LastRow(R) \in Latest(R)
  BY <1>2, FirstAndLastRow
<1> QED BY <1>3, <1>6, <1>7 DEF EndsIn, StartsFrom

\* What a tap does to the table: it takes back one row, never tried and of the
\* other kind, or adds one.
LEMMA ToggleCases ==
    ASSUME TypeOK, RowsInv, NEW row \in posts, ToggleLike(row)
    PROVE  LET p    == row.id
               kind == NextLikeAction(DeriveLikeState(row, ForPost(outbox, p)))
               n    == [id |-> nextId, post |-> p, kind |-> kind, attempts |-> 0,
                        since |-> 0, status |-> "pending"]
           IN  /\ intent' = [intent EXCEPT ![p] = (kind = "like")]
               /\ requested' = requested /\ voided \subseteq voided'
               /\ server' = server /\ posts' = posts
               /\ \/ \E l \in PendingOf(outbox, p) :
                       /\ outbox' = outbox \ {l} /\ nextId' = nextId
                       /\ l.attempts = 0 /\ l.kind # kind
                       /\ l.id \in requested => p \in voided'
                  \/ /\ outbox' = outbox \cup {n} /\ nextId' = nextId + 1 /\ nextId <= MaxTaps
                     /\ \A e \in PendingOf(outbox, p) : e.kind # kind => e.attempts # 0
<1> USE DEF serverVars
<1> DEFINE p    == row.id
           kind == NextLikeAction(DeriveLikeState(row, ForPost(outbox, p)))
           n    == [id |-> nextId, post |-> p, kind |-> kind, attempts |-> 0,
                    since |-> 0, status |-> "pending"]
           C    == Cancellable(ForPost(outbox, p), n)
           plan == PlanEnqueue(ForPost(outbox, p), n)
<1>1. /\ intent' = [intent EXCEPT ![p] = (kind = "like")]
      /\ requested' = requested /\ voided \subseteq voided'
      /\ server' = server /\ posts' = posts
  BY DEF ToggleLike
<1>2. /\ outbox' = (outbox \ plan.delete) \cup plan.insert
      /\ nextId' = IF plan.insert = {} THEN nextId ELSE nextId + 1
      /\ nextId <= MaxTaps \/ plan.insert = {}
      /\ voided' = voided \cup {e.post : e \in {f \in plan.delete :
                                             f.attempts = 0 /\ f.id \in requested}}
  BY DEF ToggleLike
<1>3. /\ plan.delete = Latest(C)
      /\ plan.insert = IF Latest(C) = {} THEN {n} ELSE {}
  BY DEF PlanEnqueue
<1>4. \A e : e \in C <=> e \in PendingOf(outbox, p) /\ e.attempts = 0 /\ e.kind # kind
  BY DEF Cancellable, PendingOf
<1>5. \A e \in PendingOf(outbox, p) : e \in outbox /\ e \in OutboxEntry /\ e.post = p
  BY DEF PendingOf, Pending, ForPost, TypeOK
<1> HIDE DEF C, plan, n, kind
<1>6. CASE Latest(C) = {}
  <2>1. C = {}
    BY <1>4, <1>5, <1>6, FirstAndLastRow
  <2>2. /\ outbox' = outbox \cup {n} /\ nextId' = nextId + 1 /\ nextId <= MaxTaps
    BY <1>2, <1>3, <1>6
  <2>3. \A e \in PendingOf(outbox, p) : e.kind # kind => e.attempts # 0
    BY <1>4, <2>1
  <2> QED BY <1>1, <2>2, <2>3 DEF n, kind
<1>7. CASE Latest(C) # {}
  <2>1. PICK l \in Latest(C) : TRUE
    BY <1>7
  <2>2. l \in C /\ \A f \in C : l.id >= f.id
    BY <2>1 DEF Latest
  <2>3. l \in PendingOf(outbox, p) /\ l.attempts = 0 /\ l.kind # kind /\ l.post = p
    BY <1>4, <1>5, <2>2
  <2>4. Latest(C) = {l}
    <3>1. ASSUME NEW f \in Latest(C) PROVE f = l
      <4>1. f \in C /\ f.id >= l.id /\ l.id >= f.id
        BY <2>2 DEF Latest
      <4>2. f \in outbox /\ l \in outbox /\ f.id \in Int /\ l.id \in Int
        BY <1>4, <1>5, <2>2, <4>1 DEF OutboxEntry, Ids
      <4> QED BY <4>1, <4>2 DEF RowsInv
    <3> QED BY <2>1, <3>1
  <2>5. outbox' = outbox \ {l} /\ nextId' = nextId
    BY <1>2, <1>3, <1>7, <2>4
  <2>6. l.id \in requested => p \in voided'
    BY <1>2, <1>3, <2>3, <2>4
  <2> QED BY <1>1, <2>3, <2>5, <2>6 DEF kind
<1> QED BY <1>6, <1>7

\* What is pending of the other posts is left alone.
LEMMA OtherPosts ==
    ASSUME NEW p, NEW n, outbox' = outbox \ {n} \/ outbox' = outbox \cup {n}, n.post = p
    PROVE  \A q : q # p => PendingOf(outbox', q) = PendingOf(outbox, q)
BY DEF PendingOf, Pending, ForPost

\* A row is taken back.
LEMMA TakeBackWanted ==
    ASSUME TypeOK, TypeOK', RowsInv, WantedInv, NEW p \in Posts,
           NEW l \in PendingOf(outbox, p), outbox' = outbox \ {l}, l.attempts = 0,
           l.id \in requested => p \in voided',
           requested' = requested, voided \subseteq voided', server' = server, posts' = posts,
           intent' = [intent EXCEPT ![p] = ~intent[p]] \/ p \in voided,
           p \notin voided => Likes(l) = intent[p],
           \A q \in Posts \ {p} : intent'[q] = intent[q]
    PROVE  /\ \A q \in Posts : q \in voided' \/ Wanted(q)'
           /\ \A e \in OutboxEntry : IsFirst(e) => IsFirst(e)'
<1> DEFINE R == PendingOf(outbox, p)
           Q == PendingOf(outbox', p)
<1>1. R \in SUBSET OutboxEntry /\ R \in SUBSET outbox /\ l.post = p /\ l \in R
  BY PendingType DEF TypeOK, PendingOf, Pending, ForPost
<1>2. Q = R \ {l}
  BY DEF PendingOf, Pending, ForPost
<1>3. UniqueIds(R)
  BY <1>1 DEF RowsInv, UniqueIds
<1>4. \A q : q # p => PendingOf(outbox', q) = PendingOf(outbox, q)
  BY <1>1, OtherPosts
<1> HIDE DEF R, Q
<1>5. \A q \in Posts \ {p} : q \in voided' \/ Wanted(q)'
  BY <1>4 DEF WantedInv, Wanted
<1>6. ASSUME p \notin voided' PROVE Wanted(p)'
  <2>1. /\ Alternate(R)
        /\ EndsIn(R, intent[p])
        /\ StartsFrom(R, intent[p], requested, server[p].liked)
        /\ \A row \in posts : row.id = p => StartsFrom(R, intent[p], requested, row.liked)
    BY <1>6 DEF WantedInv, Wanted, R
  <2>2. intent[p] \in BOOLEAN /\ intent'[p] = ~intent[p] /\ server[p].liked \in BOOLEAN
    BY <1>6 DEF TypeOK, ServerPost
  <2>3. \A f \in R : f.id <= l.id
    <3> TAKE f \in R
    <3>1. ~(l.id < f.id)
      BY <1>1, <2>1 DEF Alternate
    <3> QED BY <1>1, <3>1 DEF OutboxEntry, Ids
  <2>4. l \in Latest(R)
    BY <1>1, <2>3 DEF Latest, OutboxEntry, Ids
  <2>5. l.id \notin requested
    BY <1>6
  <2>6. /\ Alternate(Q) /\ EndsIn(Q, ~intent[p])
        /\ \A liked \in BOOLEAN : StartsFrom(R, intent[p], requested, liked)
                                    => StartsFrom(Q, ~intent[p], requested, liked)
    BY <1>1, <1>2, <1>3, <2>1, <2>2, <2>4, <2>5, LastTakenBack
  <2>7. \A row \in posts : row.liked \in BOOLEAN
    BY DEF TypeOK, LocalPost
  <2> QED BY <2>1, <2>2, <2>6, <2>7 DEF Wanted, Q
<1>7. ASSUME NEW e \in OutboxEntry, IsFirst(e) PROVE IsFirst(e)'
  <2>1. CASE e.post \in voided'
    BY <1>7, <2>1 DEF IsFirst
  <2>2. CASE e.post \notin voided'
    <3>1. PICK x \in Earliest(PendingOf(outbox, e.post)) : x.id = e.id
      BY <1>7, <2>2 DEF IsFirst
    <3>2. CASE e.post # p
      BY <1>4, <1>7, <3>1, <3>2 DEF IsFirst
    <3>3. CASE e.post = p
      <4>1. x # l
        BY <1>7, <2>2, <3>1, <3>3 DEF IsFirst
      <4>2. x \in Earliest(Q)
        BY <1>2, <3>1, <3>3, <4>1 DEF Earliest, R
      <4> QED BY <1>7, <3>1, <3>3, <4>2 DEF IsFirst, Q
    <3> QED BY <3>2, <3>3
  <2> QED BY <2>1, <2>2
<1> QED BY <1>5, <1>6, <1>7

\* A row is added.
LEMMA AddWanted ==
    ASSUME TypeOK, TypeOK', RowsInv, WantedInv, NEW p \in Posts,
           NEW n \in OutboxEntry, outbox' = outbox \cup {n},
           n.post = p, n.id = nextId, n.status = "pending",
           \A e \in PendingOf(outbox, p) : e.kind # n.kind => e.attempts # 0,
           requested' = requested, voided \subseteq voided', server' = server, posts' = posts,
           intent' = [intent EXCEPT ![p] = ~intent[p]] \/ p \in voided,
           p \notin voided => Likes(n) = ~intent[p],
           \A q \in Posts \ {p} : intent'[q] = intent[q]
    PROVE  /\ \A q \in Posts : q \in voided' \/ Wanted(q)'
           /\ \A e \in OutboxEntry : IsFirst(e) => IsFirst(e)'
<1> DEFINE R == PendingOf(outbox, p)
           Q == PendingOf(outbox', p)
<1>1. R \in SUBSET OutboxEntry /\ R \in SUBSET outbox
  BY PendingType DEF TypeOK
<1>2. Q = R \cup {n}
  BY DEF PendingOf, Pending, ForPost
<1>3. \A e \in R : e.id < n.id
  BY <1>1 DEF RowsInv
<1>4. \A q : q # p => PendingOf(outbox', q) = PendingOf(outbox, q)
  BY OtherPosts
<1>5. \A e \in R : e.kind # n.kind => e.attempts # 0
  OBVIOUS
<1> HIDE DEF R, Q
<1>6. \A q \in Posts \ {p} : q \in voided' \/ Wanted(q)'
  BY <1>4 DEF WantedInv, Wanted
<1>7. ASSUME p \notin voided' PROVE Wanted(p)'
  <2>1. /\ Alternate(R)
        /\ EndsIn(R, intent[p])
        /\ StartsFrom(R, intent[p], requested, server[p].liked)
        /\ \A row \in posts : row.id = p => StartsFrom(R, intent[p], requested, row.liked)
    BY <1>7 DEF WantedInv, Wanted, R
  <2>2. /\ intent[p] \in BOOLEAN /\ intent'[p] = ~intent[p] /\ server[p].liked \in BOOLEAN
        /\ Likes(n) = ~intent[p]
    BY <1>7 DEF TypeOK, ServerPost
  <2>3. \A e \in Latest(R) : e.attempts > 0
    <3> TAKE e \in Latest(R)
    <3>1. e \in R /\ Likes(e) = intent[p]
      BY <2>1 DEF EndsIn, Latest
    <3>2. e.kind # n.kind
      BY <2>2, <3>1 DEF Likes
    <3> QED BY <1>1, <1>5, <3>1, <3>2 DEF OutboxEntry
  <2>4. /\ Alternate(Q) /\ EndsIn(Q, ~intent[p])
        /\ \A liked \in BOOLEAN : StartsFrom(R, intent[p], requested, liked)
                                    => StartsFrom(Q, ~intent[p], requested, liked)
    BY <1>1, <1>2, <1>3, <2>1, <2>2, <2>3, LastAdded
  <2>5. \A row \in posts : row.liked \in BOOLEAN
    BY DEF TypeOK, LocalPost
  <2> QED BY <2>1, <2>2, <2>4, <2>5 DEF Wanted, Q
<1>8. ASSUME NEW e \in OutboxEntry, IsFirst(e) PROVE IsFirst(e)'
  <2>1. CASE e.post \in voided'
    BY <1>8, <2>1 DEF IsFirst
  <2>2. CASE e.post \notin voided'
    <3>1. PICK x \in Earliest(PendingOf(outbox, e.post)) : x.id = e.id
      BY <1>8, <2>2 DEF IsFirst
    <3>2. CASE e.post # p
      BY <1>4, <1>8, <3>1, <3>2 DEF IsFirst
    <3>3. CASE e.post = p
      <4>1. x \in R /\ \A f \in R : x.id <= f.id
        BY <3>1, <3>3 DEF Earliest, R
      <4>2. x.id < n.id /\ x.id \in Int /\ n.id \in Int
        BY <1>1, <1>3, <4>1 DEF OutboxEntry, Ids
      <4>3. x \in Earliest(Q)
        BY <1>2, <4>1, <4>2 DEF Earliest
      <4> QED BY <1>8, <3>1, <3>3, <4>3 DEF IsFirst, Q
    <3> QED BY <3>2, <3>3
  <2> QED BY <2>1, <2>2
<1> QED BY <1>6, <1>7, <1>8

LEMMA ToggleKeepsWanted ==
    ASSUME TypeOK, TypeOK', RowsInv, WantedInv, NEW row \in posts, ToggleLike(row)
    PROVE  WantedInv'
<1> DEFINE p    == row.id
           kind == NextLikeAction(DeriveLikeState(row, ForPost(outbox, p)))
           n    == [id |-> nextId, post |-> p, kind |-> kind, attempts |-> 0,
                    since |-> 0, status |-> "pending"]
           taken(l) == /\ outbox' = outbox \ {l} /\ nextId' = nextId
                       /\ l.attempts = 0 /\ l.kind # kind
                       /\ l.id \in requested => p \in voided'
           added == /\ outbox' = outbox \cup {n} /\ nextId' = nextId + 1 /\ nextId <= MaxTaps
                    /\ \A e \in PendingOf(outbox, p) : e.kind # kind => e.attempts # 0
<1>1. /\ intent' = [intent EXCEPT ![p] = (kind = "like")]
      /\ requested' = requested /\ voided \subseteq voided'
      /\ server' = server /\ posts' = posts
      /\ (\E l \in PendingOf(outbox, p) : taken(l)) \/ added
  BY ToggleCases
<1>2. p \notin voided => (kind = "like") = ~intent[p]
  <2>1. p \in Posts /\ kind \in OutboxKind
    BY DEF TypeOK, LocalPost, NextLikeAction, OutboxKind
  <2>2. p \notin voided => DeriveLikeState(row, ForPost(outbox, p)).liked = intent[p]
    BY ToggleFlips
  <2>3. intent[p] \in BOOLEAN
    BY <2>1 DEF TypeOK
  <2> QED BY <2>1, <2>2, <2>3 DEF NextLikeAction
<1>3. p \in Posts /\ kind \in OutboxKind /\ intent \in [Posts -> BOOLEAN]
  BY DEF TypeOK, LocalPost, NextLikeAction, OutboxKind
<1>4. /\ intent' = [intent EXCEPT ![p] = ~intent[p]] \/ p \in voided
      /\ \A q \in Posts \ {p} : intent'[q] = intent[q]
  BY <1>1, <1>2, <1>3
<1>5. nextId' >= nextId /\ \A e \in OutboxEntry : SameWrite(e) => SameWrite(e)'
  <2>1. nextId \in Int /\ nextId' >= nextId
    BY <1>1 DEF TypeOK
  <2>2. \A x \in outbox' : x \in outbox \/ x.id = nextId
    BY <1>1
  <2>3. ASSUME NEW e \in OutboxEntry, SameWrite(e) PROVE SameWrite(e)'
    <3>1. e.id < nextId /\ e.id < nextId'
      BY <2>1, <2>3 DEF SameWrite, OutboxEntry, Ids, TypeOK
    <3>2. \A x \in outbox' : x.id = e.id => x \in outbox
      BY <2>1, <2>2, <3>1 DEF OutboxEntry, Ids
    <3> QED BY <2>3, <3>1, <3>2 DEF SameWrite
  <2> QED BY <2>1, <2>3
<1> HIDE DEF kind
<1>6. /\ \A q \in Posts : q \in voided' \/ Wanted(q)'
      /\ \A e \in OutboxEntry : IsFirst(e) => IsFirst(e)'
  <2>1. ASSUME NEW l \in PendingOf(outbox, p), taken(l)
        PROVE  /\ \A q \in Posts : q \in voided' \/ Wanted(q)'
               /\ \A e \in OutboxEntry : IsFirst(e) => IsFirst(e)'
    <3>1. l \in OutboxEntry
      BY PendingType DEF TypeOK
    <3>2. p \notin voided => Likes(l) = intent[p]
      BY <1>2, <1>3, <2>1, <3>1 DEF Likes, OutboxEntry, OutboxKind
    <3> QED BY <1>1, <1>3, <1>4, <2>1, <3>2, TakeBackWanted
  <2>2. CASE added
    <3>1. nextId \in Ids
      BY <2>2, RetryPolicyAssumption DEF TypeOK, Ids
    <3>2. n \in OutboxEntry /\ n.kind = kind /\ n.post = p /\ n.id = nextId
          /\ n.status = "pending" /\ Likes(n) = (kind = "like")
      BY <1>3, <3>1 DEF OutboxEntry, OutboxStatus, Likes
    <3>3. outbox' = outbox \cup {n}
      BY <2>2
    <3>4. \A e \in PendingOf(outbox, p) : e.kind # n.kind => e.attempts # 0
      BY <2>2
    <3> HIDE DEF n
    <3> QED BY <1>1, <1>2, <1>3, <1>4, <3>2, <3>3, <3>4, AddWanted
  <2> QED BY <1>1, <2>1, <2>2
<1>7. \A i \in requested' : i < nextId'
  BY <1>1, <1>5 DEF WantedInv, TypeOK, Ids
<1>8. ASSUME NEW s \in Runs PROVE RunWanted(s)'
  <2>1. PICK connected \in BOOLEAN : Sync(connected)
    BY DEF ToggleLike, TypeOK
  <2>2. \/ run'[s].pc \notin PushSteps \cup {"merge"}
        \/ /\ run'[s].pc = run[s].pc /\ run'[s].todo = run[s].todo
           /\ run'[s].ack = run[s].ack /\ run'[s].incoming = run[s].incoming
    BY <2>1, SyncStarts
  <2> QED BY <1>1, <1>5, <1>6, <2>2, RunKeepsWanted
<1> QED BY <1>6, <1>7, <1>8 DEF WantedInv

LEMMA WantedInvHolds == Spec => []WantedInv
<1>1. Init => WantedInv
  <2> SUFFICES ASSUME Init PROVE WantedInv
    OBVIOUS
  <2>1. \A p \in Posts : PendingOf(outbox, p) = {}
    BY DEF Init, PendingOf, Pending, ForPost
  <2>2. \A p \in Posts : Wanted(p)
    BY <2>1 DEF Init, Wanted, Alternate, EndsIn, StartsFrom, Earliest, Latest
  <2>3. \A r \in Runs : RunWanted(r)
    BY DEF Init, RunWanted, IdleRun, PushSteps
  <2> QED BY <2>2, <2>3 DEF Init, WantedInv
<1>2. TypeOK /\ TypeOK' /\ OneRun /\ WriteInv /\ WantedInv /\ [Next]_vars => WantedInv'
  <2> SUFFICES ASSUME TypeOK, TypeOK', OneRun, WriteInv, WantedInv, [Next]_vars
               PROVE  WantedInv'
    OBVIOUS
  <2>1. RowsInv
    BY DEF WriteInv
  <2>2. ASSUME NEW r \in Runs, PushStep(r) \/ PullStep(r) PROVE WantedInv'
    BY <2>1, <2>2, PushKeepsWanted, PullKeepsWanted
  <2>3. ASSUME NEW row \in posts, ToggleLike(row) PROVE WantedInv'
    BY <2>1, <2>3, ToggleKeepsWanted
  <2>4. CASE \/ Launch \/ TriggerSync \/ ClearAll \/ ClearImages
             \/ ScreenStep \/ EnvironmentStep \/ UNCHANGED vars
    BY <2>4, OthersKeepWanted
  <2> QED BY <2>2, <2>3, <2>4 DEF Next, UserStep, FeedScreen, DebugScreen
<1> QED
  BY <1>1, <1>2, TypeCorrect, OneRunAtATime, WriteInvHolds, PTL DEF Spec

\* Composed items are those of rows.
LEMMA ItemsOfRows ==
    ASSUME NEW rows \in SUBSET posts, NEW item \in ComposeFeed(rows)
    PROVE  \E row \in posts :
             /\ item.id = row.id
             /\ item.liked = DeriveLikeState(row, ForPost(outbox, row.id)).liked
<1>1. PICK row \in Newest(VisiblePosts(rows), MaxPosts) :
        item = [id |-> row.id, liked |-> DeriveLikeState(row, ForPost(outbox, row.id)).liked,
                hasPendingWrite |-> Pending(ForPost(outbox, row.id)) # {},
                hasThumb |-> row.id \in thumbs]
  BY DEF ComposeFeed
<1>2. row \in posts
  BY DEF Newest, VisiblePosts
<1> QED BY <1>1, <1>2

\* Whatever a push, a pull, an outage or a crash has got to, the screen and an
\* observer of the repository are given the like state the user last asked
\* for, but for the posts of which a write was given up, overtaken, or taken
\* back too late (ADR-005: the shown state is the server's overlaid with the
\* pending rows).
THEOREM ShownAsAsked == Spec => []ShownIsAsked
<1>1. TypeOK /\ WriteInv /\ WantedInv => ShownIsAsked
  <2> SUFFICES ASSUME TypeOK, RowsInv, WantedInv,
                      NEW item \in FeedView.items \cup Snapshot.items, item.id \notin voided
               PROVE  item.liked = intent[item.id]
    BY DEF ShownIsAsked, WriteInv
  <2>1. FeedQuery \in SUBSET posts
    BY DEF FeedQuery, Newest, VisiblePosts
  <2>2. item \in ComposeFeed(FeedQuery) \/ item \in ComposeFeed(posts)
    BY DEF FeedView, Snapshot
  <2>3. PICK row \in posts :
          /\ item.id = row.id
          /\ item.liked = DeriveLikeState(row, ForPost(outbox, row.id)).liked
    BY <2>1, <2>2, ItemsOfRows
  <2> QED BY <2>3, ToggleFlips
<1> QED BY <1>1, TypeCorrect, WriteInvHolds, WantedInvHolds, PTL

\* With nothing left to send for a post the server has what the user last
\* asked for, under the same exceptions: no write gets lost between the outbox
\* and the server, and none is overtaken by an earlier one unnoticed.
THEOREM AskedReaches == Spec => []AskedReachesServer
<1>1. WantedInv => AskedReachesServer
  <2> SUFFICES ASSUME WantedInv, NEW p \in LivePosts, p \notin voided,
                      ~\E e \in Pending(outbox) : e.post = p
               PROVE  server[p].liked = intent[p]
    BY DEF AskedReachesServer
  <2>1. p \in Posts
    BY DEF LivePosts
  <2>2. PendingOf(outbox, p) = {}
    BY DEF PendingOf, Pending, ForPost
  <2> QED BY <2>1, <2>2 DEF WantedInv, Wanted, StartsFrom
<1> QED BY <1>1, WantedInvHolds, PTL

-----------------------------------------------------------------------------
(* The feed is the newest posts *)

\* The posts the server has or had: only they are ever sent.
KnownPosts == {p \in Posts : server[p].state # "absent"}

\* No more rows than the feed keeps: of each, fewer than MaxPosts are newer.
Trimmed(rows) == \A row \in rows : Cardinality({s \in rows : s.id > row.id}) < MaxPosts

FeedInv ==
    /\ IsFiniteSet(KnownPosts)
    /\ PostIds(posts) \subseteq KnownPosts
    /\ \A r \in Runs : PostIds(run[r].incoming) \subseteq KnownPosts
    /\ Trimmed(posts)

\* What has one row at most for each of finitely many posts is finite.
LEMMA RowsFinite ==
    ASSUME NEW rows, UniqueIds(rows), NEW ids, IsFiniteSet(ids), PostIds(rows) \subseteq ids
    PROVE  IsFiniteSet(rows)
<1> DEFINE f == [row \in rows |-> row.id]
<1>1. f \in Injection(rows, ids)
  BY DEF UniqueIds, PostIds, Injection, IsInjective
<1> QED BY <1>1, FS_Injection

\* The images of finitely many rows are not more than the rows.
LEMMA ImagesFewer ==
    ASSUME NEW rows, IsFiniteSet(rows), NEW f, NEW new,
           \A n \in new : \E row \in rows : n = f[row]
    PROVE  IsFiniteSet(new) /\ Cardinality(new) <= Cardinality(rows)
<1> DEFINE from == {row \in rows : f[row] \in new}
           g == [row \in from |-> f[row]]
<1>1. IsFiniteSet(from) /\ Cardinality(from) <= Cardinality(rows)
  BY FS_Subset
<1>2. g \in Surjection(from, new)
  BY DEF Surjection
<1> HIDE DEF from, g
<1>3. IsFiniteSet(new) /\ Cardinality(new) <= Cardinality(from)
  BY <1>1, <1>2, FS_Surjection
<1>4. /\ Cardinality(new) \in Nat /\ Cardinality(from) \in Nat /\ Cardinality(rows) \in Nat
  BY <1>1, <1>3, FS_CardinalityType
<1> QED BY <1>1, <1>3, <1>4

\* Rows that go, or are rewritten, leave the feed trimmed.
LEMMA TrimmedKept ==
    ASSUME NEW rows, IsFiniteSet(rows), Trimmed(rows), NEW f, NEW new,
           \A row \in rows : f[row].id = row.id,
           \A n \in new : \E row \in rows : n = f[row]
    PROVE  Trimmed(new)
<1> SUFFICES ASSUME NEW n \in new
             PROVE  Cardinality({s \in new : s.id > n.id}) < MaxPosts
  BY DEF Trimmed
<1>1. PICK row \in rows : n = f[row]
  OBVIOUS
<1> DEFINE S == {s \in rows : s.id > row.id}
           T == {s \in new : s.id > n.id}
<1>2. IsFiniteSet(S) /\ Cardinality(S) < MaxPosts
  BY FS_Subset DEF Trimmed
<1>3. \A t \in T : \E s \in S : t = f[s]
  BY <1>1
<1> HIDE DEF S, T
<1>4. IsFiniteSet(T) /\ Cardinality(T) <= Cardinality(S)
  BY <1>2, <1>3, ImagesFewer
<1>5. Cardinality(T) \in Nat /\ Cardinality(S) \in Nat
  BY <1>2, <1>4, FS_CardinalityType
<1>6. Cardinality(T) < MaxPosts
  BY <1>2, <1>4, <1>5, FeedAssumption
<1> QED BY <1>6 DEF T

\* A merge leaves the newest, of posts the rows or the delta have.
LEMMA MergeTrims ==
    ASSUME NEW local \in SUBSET LocalPost, IsFiniteSet(local),
           NEW incoming \in SUBSET RemotePost, IsFiniteSet(incoming), NEW tombstoned
    PROVE  /\ Trimmed(MergeDelta(local, incoming, tombstoned))
           /\ PostIds(MergeDelta(local, incoming, tombstoned))
                \subseteq PostIds(local) \cup PostIds(incoming)
<1> DEFINE taken == {i \in incoming : /\ i.id \notin tombstoned
                                      /\ ~\E l \in local : Supersedes(l, i)}
           kept  == {l \in local : l.id \notin tombstoned /\ l.id \notin PostIds(taken)}
           older(l) == [l EXCEPT !.age = 0]
           A == {Cached(i) : i \in taken}
           B == {older(l) : l \in kept}
           all == A \cup B
           cached == [i \in incoming |-> Cached(i)]
           aged == [l \in local |-> older(l)]
<1>1. MergeDelta(local, incoming, tombstoned) = Newest(all, MaxPosts)
  BY DEF MergeDelta
<1>2. \A i \in incoming : Cached(i).id = i.id
  BY DEF Cached
<1>3. \A l \in local : older(l).id = l.id
  BY DEF LocalPost
<1>4. taken \subseteq incoming /\ kept \subseteq local
  OBVIOUS
<1>5. \A a \in A : \E i \in incoming : a = cached[i]
  BY <1>4
<1>6. \A b \in B : \E l \in local : b = aged[l]
  BY <1>4
<1>7. \A a \in all : a.id \in PostIds(local) \cup PostIds(incoming)
  BY <1>2, <1>3, <1>4 DEF PostIds
<1> HIDE DEF taken, kept, older, cached, aged, A, B
<1>8. IsFiniteSet(A) /\ IsFiniteSet(B)
  <2>1. IsFiniteSet(A)
    BY <1>5, ImagesFewer
  <2>2. IsFiniteSet(B)
    BY <1>6, ImagesFewer
  <2> QED BY <2>1, <2>2
<1>9. IsFiniteSet(all)
  BY <1>8, FS_Union
<1> HIDE DEF all
<1> DEFINE new == Newest(all, MaxPosts)
<1>10. ASSUME NEW row \in new PROVE Cardinality({s \in new : s.id > row.id}) < MaxPosts
  <2> DEFINE S == {s \in all : s.id > row.id}
             T == {s \in new : s.id > row.id}
  <2>1. IsFiniteSet(S) /\ Cardinality(S) < MaxPosts /\ T \subseteq S
    BY <1>9, FS_Subset DEF Newest
  <2> HIDE DEF S, T
  <2>2. IsFiniteSet(T) /\ Cardinality(T) <= Cardinality(S)
    BY <2>1, FS_Subset
  <2>3. Cardinality(T) \in Nat /\ Cardinality(S) \in Nat
    BY <2>1, <2>2, FS_CardinalityType
  <2>4. Cardinality(T) < MaxPosts
    BY <2>1, <2>2, <2>3, FeedAssumption
  <2> QED BY <2>4 DEF T
<1>11. \A row \in new : row.id \in PostIds(local) \cup PostIds(incoming)
  BY <1>7 DEF Newest
<1> HIDE DEF new
<1>12. Trimmed(new) /\ PostIds(new) \subseteq PostIds(local) \cup PostIds(incoming)
  BY <1>10, <1>11 DEF Trimmed, PostIds
<1> QED BY <1>1, <1>12 DEF new

\* The posts known of grow by one at most at a time.
LEMMA KnownGrows ==
    ASSUME TypeOK, [Next]_vars, IsFiniteSet(KnownPosts)
    PROVE  KnownPosts \subseteq KnownPosts' /\ IsFiniteSet(KnownPosts')
<1>1. CASE server' = server
  BY <1>1 DEF KnownPosts
<1>2. ASSUME NEW r \in Runs, AcceptLike(r)
      PROVE  KnownPosts' = KnownPosts
  <2>1. PICK e \in Earliest(run[r].todo) :
          server' = [server EXCEPT ![e.post] = SetLike(@, e.kind = "like")]
    BY <1>2 DEF AcceptLike
  <2>2. \A post \in ServerPost : \A liked : SetLike(post, liked).state = post.state
    BY DEF SetLike, ServerPost
  <2>3. \A p \in Posts : server'[p].state = server[p].state
    BY <2>1, <2>2 DEF TypeOK
  <2> QED BY <2>3 DEF KnownPosts
<1>3. ASSUME NEW p \in Posts, DeletePost(p)
      PROVE  KnownPosts' = KnownPosts
  <2>1. \A q \in Posts : (server'[q].state = "absent") <=> (server[q].state = "absent")
    BY <1>3 DEF DeletePost, TypeOK, ServerPost
  <2> QED BY <2>1 DEF KnownPosts
<1>4. ASSUME NEW p \in Posts, PublishPost(p)
      PROVE  KnownPosts' = KnownPosts \cup {p}
  <2>1. \A q \in Posts : server'[q].state = IF q = p THEN "live" ELSE server[q].state
    BY <1>4 DEF PublishPost, TypeOK, ServerPost
  <2> QED BY <2>1 DEF KnownPosts
<1>5. \A p : IsFiniteSet(KnownPosts \cup {p})
  BY FS_AddElement
<1> QED BY <1>1, <1>2, <1>3, <1>4, <1>5, ServerChanges

\* What a run has been sent it keeps, lets go of, or has from a delta.
LEMMA IncomingComes ==
    ASSUME TypeOK, [Next]_vars
    PROVE  \A s \in Runs : \/ run'[s].incoming \in {run[s].incoming, {}}
                           \/ \E c : run'[s].incoming = DeltaPosts(c)
<1> USE DEF memoryVars
<1>0. run \in [Runs -> Run]
  BY DEF TypeOK
<1>1. ASSUME NEW connected, Sync(connected)
      PROVE  \A s \in Runs : run'[s].incoming = run[s].incoming
  BY <1>0, <1>1 DEF Sync, EngineSync, Run
<1>2. ASSUME NEW r \in Runs, PushStep(r)
      PROVE  run'[r].incoming \in {run[r].incoming, {}}
  <2>1. CASE PlanPush(r)
    BY <1>0, <2>1 DEF PlanPush, Proceed, Fetching, IdleRun, Run
  <2>2. CASE AcceptLike(r)
    BY <1>0, <2>2 DEF AcceptLike, Run
  <2>3. CASE RefuseLike(r)
    BY <1>0, <2>3 DEF RefuseLike, Run
  <2>4. CASE LikeUnreachable(r)
    BY <1>0, <2>4 DEF LikeUnreachable, Fetching, IdleRun
  <2>5. CASE ApplyServerLike(r)
    BY <1>0, <2>5 DEF ApplyServerLike, Run
  <2>6. CASE DeleteSent(r)
    BY <1>0, <2>6 DEF DeleteSent, Proceed, Fetching, IdleRun, Run
  <2>7. CASE RecordRefusal(r)
    BY <1>0, <2>7 DEF RecordRefusal, Proceed, Fetching, IdleRun, Run
  <2> QED BY <1>2, <2>1, <2>2, <2>3, <2>4, <2>5, <2>6, <2>7 DEF PushStep
<1>3. ASSUME NEW r \in Runs, PullStep(r)
      PROVE  \/ run'[r].incoming \in {run[r].incoming, {}}
             \/ \E c : run'[r].incoming = DeltaPosts(c)
  <2>1. CASE AnswerDelta(r)
    BY <1>0, <2>1 DEF AnswerDelta, Run
  <2>2. CASE FetchFails(r)
    BY <1>0, <2>2 DEF FetchFails, EndRun, IdleRun
  <2>3. CASE Merge(r)
    BY <1>0, <2>3 DEF Merge, IdleRun
  <2>4. CASE DropImages(r)
    BY <1>0, <2>4 DEF DropImages, Run
  <2>5. CASE DropOrphans(r)
    BY <1>0, <2>5 DEF DropOrphans, Run
  <2>6. CASE EnsureImages(r)
    BY <1>0, <2>6 DEF EnsureImages, Run
  <2>7. CASE SaveCursor(r)
    BY <1>0, <2>7 DEF SaveCursor, EndRun, IdleRun
  <2> QED BY <1>3, <2>1, <2>2, <2>3, <2>4, <2>5, <2>6, <2>7 DEF PullStep
<1>4. ASSUME NEW r \in Runs, PushStep(r) \/ PullStep(r)
      PROVE  \A s \in Runs : \/ run'[s].incoming \in {run[s].incoming, {}}
                             \/ \E c : run'[s].incoming = DeltaPosts(c)
  BY <1>2, <1>3, <1>4, RunStepKeepsLock
<1>5. CASE UserStep
  BY <1>1, <1>5
      DEF UserStep, FeedScreen, DebugScreen, Launch, TriggerSync, ClearAll, ClearImages, ToggleLike
<1>6. CASE ScreenStep
  BY <1>6 DEF ScreenStep, WarmImages, ThumbArrives
<1>7. CASE EnvironmentStep
  <2>1. CASE GoOnline
    BY <1>1, <2>1 DEF GoOnline
  <2>2. CASE Crash
    BY <2>2 DEF Crash, IdleRun
  <2>3. CASE Tick
    BY <1>0, <2>3 DEF Tick, Run
  <2> QED BY <1>7, <2>1, <2>2, <2>3
      DEF EnvironmentStep, ServerControls, GoOffline, DeletePost, PublishPost
<1>8. CASE UNCHANGED vars
  BY <1>8 DEF vars
<1> QED BY <1>4, <1>5, <1>6, <1>7, <1>8 DEF Next

\* The rows change by what a merge, an acknowledgement and the time do to
\* them; everything else only takes some away.
LEMMA RowsChange ==
    ASSUME [Next]_vars
    PROVE  \/ posts' \subseteq posts
           \/ Tick
           \/ \E r \in Runs : ApplyServerLike(r) \/ Merge(r)
<1> USE DEF storeVars
<1>1. ASSUME NEW r \in Runs, PushStep(r)
      PROVE  posts' = posts \/ ApplyServerLike(r)
  BY <1>1 DEF PushStep, PlanPush, AcceptLike, RefuseLike, LikeUnreachable, DeleteSent,
              RecordRefusal
<1>2. ASSUME NEW r \in Runs, PullStep(r)
      PROVE  posts' = posts \/ Merge(r)
  BY <1>2 DEF PullStep, AnswerDelta, FetchFails, DropImages, DropOrphans, EnsureImages,
              SaveCursor
<1>3. CASE UserStep
  BY <1>3
      DEF UserStep, FeedScreen, DebugScreen, Launch, PruneExpired, TriggerSync, ClearAll,
          ClearImages, ToggleLike
<1>4. CASE ScreenStep
  BY <1>4 DEF ScreenStep, WarmImages, ThumbArrives
<1>5. CASE EnvironmentStep /\ ~Tick
  BY <1>5
      DEF EnvironmentStep, ServerControls, GoOffline, GoOnline, Crash, DeletePost, PublishPost
<1>6. CASE UNCHANGED vars
  BY <1>6 DEF vars
<1> QED BY <1>1, <1>2, <1>3, <1>4, <1>5, <1>6 DEF Next

\* Rows that each stand for one of before leave the feed what it was.
LEMMA RewrittenFeed ==
    ASSUME FeedInv, PullInv, KnownPosts \subseteq KnownPosts', NEW f,
           \A row \in posts : f[row].id = row.id,
           \A n \in posts' : \E row \in posts : n = f[row]
    PROVE  PostIds(posts') \subseteq KnownPosts' /\ Trimmed(posts')
<1>1. IsFiniteSet(posts) /\ Trimmed(posts)
  BY RowsFinite DEF FeedInv, PullInv
<1>2. PostIds(posts') \subseteq KnownPosts'
  BY DEF FeedInv, PostIds
<1> QED BY <1>1, <1>2, TrimmedKept

LEMMA FeedInvHolds == Spec => []FeedInv
<1>1. Init => FeedInv
  <2> SUFFICES ASSUME Init PROVE FeedInv
    OBVIOUS
  <2>1. KnownPosts = SeedPosts
    BY InstanceAssumption DEF Init, KnownPosts
  <2> QED BY <2>1, InstanceAssumption DEF Init, FeedInv, PostIds, Trimmed, IdleRun
<1>2. TypeOK /\ PullInv /\ FeedInv /\ [Next]_vars => FeedInv'
  <2> SUFFICES ASSUME TypeOK, PullInv, FeedInv, [Next]_vars
               PROVE  FeedInv'
    OBVIOUS
  <2>1. KnownPosts \subseteq KnownPosts' /\ IsFiniteSet(KnownPosts')
    BY KnownGrows DEF FeedInv
  <2>2. \A s \in Runs : PostIds(run'[s].incoming) \subseteq KnownPosts'
    <3>1. \A c : PostIds(DeltaPosts(c)) \subseteq KnownPosts
      BY DEF PostIds, DeltaPosts, KnownPosts
    <3>2. PostIds({}) = {}
      BY DEF PostIds
    <3> QED BY <2>1, <3>1, <3>2, IncomingComes DEF FeedInv
  <2>3. PostIds(posts') \subseteq KnownPosts' /\ Trimmed(posts')
    <3>1. CASE posts' \subseteq posts
      <4> DEFINE f == [row \in posts |-> row]
      <4>1. \A row \in posts : f[row].id = row.id
        OBVIOUS
      <4>2. \A n \in posts' : \E row \in posts : n = f[row]
        BY <3>1
      <4> HIDE DEF f
      <4> QED BY <2>1, <4>1, <4>2, RewrittenFeed
    <3>2. CASE Tick
      <4> DEFINE f == [row \in posts |-> [row EXCEPT !.age = Older(@, TTL + 1)]]
      <4>1. \A row \in posts : f[row].id = row.id
        BY DEF TypeOK, LocalPost
      <4>2. \A n \in posts' : \E row \in posts : n = f[row]
        BY <3>2 DEF Tick
      <4> HIDE DEF f
      <4> QED BY <2>1, <4>1, <4>2, RewrittenFeed
    <3>3. ASSUME NEW r \in Runs, ApplyServerLike(r)
          PROVE  PostIds(posts') \subseteq KnownPosts' /\ Trimmed(posts')
      <4>1. PICK e \in Earliest(run[r].todo) :
              posts' = {IF row.id = e.post
                        THEN [row EXCEPT !.liked = run[r].ack.liked, !.count = run[r].ack.count]
                        ELSE row : row \in posts}
        BY <3>3 DEF ApplyServerLike
      <4> DEFINE f == [row \in posts |->
                         IF row.id = e.post
                         THEN [row EXCEPT !.liked = run[r].ack.liked, !.count = run[r].ack.count]
                         ELSE row]
      <4>2. \A row \in posts : f[row].id = row.id
        BY DEF TypeOK, LocalPost
      <4>3. \A n \in posts' : \E row \in posts : n = f[row]
        BY <4>1
      <4> HIDE DEF f
      <4> QED BY <2>1, <4>2, <4>3, RewrittenFeed
    <3>4. ASSUME NEW r \in Runs, Merge(r)
          PROVE  PostIds(posts') \subseteq KnownPosts' /\ Trimmed(posts')
      <4> DEFINE incoming == run[r].incoming
                 merged  == MergeDelta(posts, incoming, run[r].tombstoned)
                 dropped == DroppedIds(posts, merged)
      <4>1. posts' = Upsert(posts, merged, dropped)
        BY <3>4 DEF Merge
      <4>2. posts \in SUBSET LocalPost /\ incoming \in SUBSET RemotePost
        BY DEF TypeOK, Run
      <4>3. PostIds(posts) \subseteq KnownPosts /\ PostIds(incoming) \subseteq KnownPosts
        BY DEF FeedInv
      <4>4. IsFiniteSet(posts) /\ IsFiniteSet(incoming)
        BY <4>3, RowsFinite DEF FeedInv, PullInv
      <4> HIDE DEF incoming
      <4>5. Trimmed(merged) /\ PostIds(merged) \subseteq PostIds(posts) \cup PostIds(incoming)
        BY <4>2, <4>4, MergeTrims
      <4> HIDE DEF merged
      <4>6. posts' = merged
        BY <4>1 DEF Upsert, DroppedIds, PostIds
      <4> QED BY <2>1, <4>3, <4>5, <4>6
    <3> QED BY <3>1, <3>2, <3>3, <3>4, RowsChange
  <2> QED BY <2>1, <2>2, <2>3 DEF FeedInv
<1> QED
  BY <1>1, <1>2, TypeCorrect, PullInvHolds, PTL DEF Spec

\* When a sync ends, with nothing changed on the server since it fetched, the
\* feed is the newest posts of the server, whatever outage, crash, tap or
\* expiry came before it, unless one of them was let go of earlier.
THEOREM SyncedIsNewest == Spec => []SyncedUnlessForgotten
<1>1. TypeOK /\ PullInv /\ CursorInv /\ FeedInv => SyncedUnlessForgotten
  <2> SUFFICES ASSUME TypeOK, PullInv, CursorInv, FeedInv,
                      NEW r \in Runs, UpToDate(r), SyncedFeed \cap forgotten = {}
               PROVE  PostIds(posts) = SyncedFeed
    BY DEF SyncedUnlessForgotten
  <2> DEFINE ids == PostIds(posts)
  <2>1. Covered(server, posts, forgotten, run[r].next)
    BY DEF UpToDate, CursorInv, RunCovered, AfterMerge
  <2>2. \A p \in Posts : server[p].at < run[r].next
    BY DEF UpToDate
  <2>3. IsFiniteSet(posts) /\ IsFiniteSet(LivePosts) /\ LivePosts \in SUBSET Nat
    <3>1. LivePosts \subseteq KnownPosts /\ IsFiniteSet(KnownPosts)
      BY DEF LivePosts, KnownPosts, FeedInv
    <3>2. LivePosts \in SUBSET Nat
      BY PostsAssumption DEF LivePosts
    <3> QED BY <3>1, <3>2, RowsFinite, FS_Subset DEF FeedInv, PullInv
  <2>4. ids \subseteq LivePosts
    <3>1. \A row \in posts : row.id \in KnownPosts
      BY DEF FeedInv, PostIds
    <3>2. \A row \in posts : server[row.id].state # "deleted"
      BY <2>1, <2>2, <3>1 DEF Covered, KnownPosts
    <3>3. \A row \in posts : row.id \in LivePosts
      BY <3>1, <3>2 DEF KnownPosts, LivePosts, TypeOK, ServerPost
    <3> QED BY <3>3 DEF PostIds
  <2>5. SyncedFeed \subseteq ids
    BY <2>1, <2>2 DEF Covered, SyncedFeed, LivePosts, PostIds
  <2>6. ids \subseteq SyncedFeed
    <3> SUFFICES ASSUME NEW row \in posts,
                        ~(Cardinality({q \in LivePosts : q > row.id}) < MaxPosts)
                 PROVE  FALSE
      BY <2>4 DEF SyncedFeed, PostIds
    <3> DEFINE A == {q \in LivePosts : q > row.id}
               above == {s \in posts : s.id > row.id}
               held == {q \in ids : q > row.id}
    <3>0. row.id \in Nat
      BY <2>3, <2>4 DEF PostIds
    <3>1. IsFiniteSet(above) /\ Cardinality(above) < MaxPosts
      BY <2>3, FS_Subset DEF FeedInv, Trimmed
    <3>2. IsFiniteSet(held) /\ Cardinality(held) <= Cardinality(above)
      <4> DEFINE f == [s \in above |-> s.id]
      <4>1. \A n \in held : \E s \in above : n = f[s]
        BY DEF PostIds
      <4> HIDE DEF above, held, f
      <4> QED BY <3>1, <4>1, ImagesFewer
    <3>3. held \subseteq A /\ A \in SUBSET Nat /\ IsFiniteSet(A)
      BY <2>3, <2>4, FS_Subset
    <3>4. /\ Cardinality(held) \in Nat /\ Cardinality(above) \in Nat /\ Cardinality(A) \in Nat
      BY <3>1, <3>2, <3>3, FS_CardinalityType
    <3>5. Cardinality(held) < MaxPosts /\ ~(Cardinality(A) < MaxPosts)
      BY <3>1, <3>2, <3>4, FeedAssumption
    <3>6. A \ held # {}
      BY <3>3, <3>5
    <3>7. PICK q \in A \ held : \A t \in A \ held : t <= q
      <4>1. A \ held \in SUBSET Nat /\ IsFiniteSet(A \ held)
        BY <3>3, FS_Subset
      <4> HIDE DEF A, held
      <4> QED BY <3>6, <4>1, LargestNumber
    <3> DEFINE newer == {t \in LivePosts : t > q}
    <3>8. newer \subseteq held
      <4> SUFFICES ASSUME NEW t \in newer PROVE t \in held
        OBVIOUS
      <4>1. t \in Nat /\ q \in Nat /\ t > q /\ q > row.id /\ t \in LivePosts
        BY <2>3, <3>3
      <4>2. t \in A
        BY <3>0, <4>1
      <4> HIDE DEF A, held
      <4> QED BY <3>7, <4>1, <4>2
    <3>9. Cardinality(newer) < MaxPosts
      <4> HIDE DEF newer, held
      <4>1. IsFiniteSet(newer) /\ Cardinality(newer) <= Cardinality(held)
        BY <3>2, <3>8, FS_Subset
      <4>2. Cardinality(newer) \in Nat
        BY <4>1, FS_CardinalityType
      <4> QED BY <3>4, <3>5, <4>1, <4>2, FeedAssumption
    <3>10. q \in SyncedFeed
      BY <3>9 DEF SyncedFeed
    <3> QED BY <2>5, <3>7, <3>10
  <2> QED BY <2>5, <2>6
<1> QED
  BY <1>1, TypeCorrect, PullInvHolds, CursorInvHolds, FeedInvHolds, PTL

=============================================================================
