------------------------------- MODULE Outbox -------------------------------
(***************************************************************************)
(* The pure rules of the client's outbox (domain/outbox.ts of the          *)
(* offline-cache app): when a queued like or unlike may be sent, what a    *)
(* refusal does to it, what a new tap does to the writes already queued.   *)
(*                                                                         *)
(* The table is a set of rows.  A row's id stands for its createdAt too:   *)
(* ids are handed out in increasing order and every sort by createdAt is a *)
(* sort by id.  lastAttemptAt is kept as an age, since = now minus         *)
(* lastAttemptAt, capped at MaxDelay because no backoff is longer; it is   *)
(* read only once attempts > 0, which is when the code's is not null.      *)
(***************************************************************************)
EXTENDS Integers, FiniteSets

CONSTANTS
    Posts,        \* ids of the posts, numbered in the order of publication
    MaxTaps,      \* bound: how many rows the outbox may ever be given
    BaseDelay,    \* RETRY_POLICY.baseDelayMs, in ticks
    Factor,       \* RETRY_POLICY.factor
    MaxDelay,     \* RETRY_POLICY.maxDelayMs, in ticks
    MaxAttempts   \* RETRY_POLICY.maxAttempts

ASSUME PostsAssumption == Posts \subseteq Nat

ASSUME RetryPolicyAssumption ==
    /\ MaxTaps \in Nat
    /\ BaseDelay \in Nat
    /\ Factor \in Nat \ {0}
    /\ MaxDelay \in Nat
    /\ MaxAttempts \in Nat \ {0}

Ids == 1 .. MaxTaps

OutboxKind == {"like", "unlike"}

OutboxStatus == {"pending", "dead"}

OutboxEntry == [id : Ids, post : Posts, kind : OutboxKind, attempts : Nat,
                since : Nat, status : OutboxStatus]

-----------------------------------------------------------------------------

LesserOf(a, b) == IF a <= b THEN a ELSE b

\* An age one tick later; ages beyond cap are not told apart.
Older(age, cap) == LesserOf(age + 1, cap)

Pending(entries) == {e \in entries : e.status = "pending"}

ForPost(entries, p) == {e \in entries : e.post = p}

\* The rows created first, and last: at most one of each.
Earliest(entries) == {e \in entries : \A f \in entries : e.id <= f.id}

Latest(entries) == {e \in entries : \A f \in entries : e.id >= f.id}

-----------------------------------------------------------------------------

Backoff(attempts) ==
    IF attempts <= 0 THEN 0
    ELSE LesserOf(BaseDelay * Factor ^ (attempts - 1), MaxDelay)

IsReadyToSend(e) ==
    /\ e.status = "pending"
    /\ e.attempts = 0 \/ e.since >= Backoff(e.attempts)

\* The rows a push tries; it takes them one by one, the earliest first.
SelectSendable(entries) == {e \in entries : IsReadyToSend(e)}

\* A refusal, stamped with the instant the push began, elapsed ticks ago.
RecordFailure(e, elapsed) ==
    [e EXCEPT !.attempts = e.attempts + 1,
              !.since = elapsed,
              !.status = IF e.attempts + 1 >= MaxAttempts THEN "dead" ELSE "pending"]

\* Slip: rows already refused are taken back too.
CancellableTried(existing, next) ==
    {e \in Pending(existing) : e.kind # next.kind}

\* Compaction: the newest pending row of the opposite kind that was never
\* attempted is deleted and nothing is queued; otherwise next is queued.
Cancellable(existing, next) ==
    {e \in Pending(existing) : e.attempts = 0 /\ e.kind # next.kind}

PlanEnqueue(existing, next) ==
    LET opposite == Latest(Cancellable(existing, next))
    IN  [delete |-> opposite, insert |-> IF opposite = {} THEN {next} ELSE {}]

Orphans(entries, existing) == {e \in entries : e.post \notin existing}

=============================================================================
