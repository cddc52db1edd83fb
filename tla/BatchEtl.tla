------------------------------ MODULE BatchEtl ------------------------------
(***************************************************************************)
(* data-ingestion/batch-etl-rabbitmq: a publisher puts a batch of orders   *)
(* on a RabbitMQ queue; a worker buffers them, adds them to the daily      *)
(* totals in one statement per flush, and then acknowledges the flush.     *)
(*                                                                         *)
(* A flush takes the buffer and awaits the database, and messages go on    *)
(* arriving, so several may be under way.  What a worker has not           *)
(* acknowledged when it ends is delivered again to the next one.           *)
(***************************************************************************)
EXTENDS Naturals, FiniteSets, FiniteSetsExt

CONSTANTS
    Orders,
    Bad,         \* the records that maybeCorrupt spoilt
    Rows,        \* keys of the totals: day and SKU
    Units,       \* what an order adds to each row
    PREFETCH,    \* messages a worker may hold unacknowledged
    FLUSH_SIZE,  \* messages that are flushed without waiting
    MaxEnds      \* how often a worker ends in this instance

ASSUME BatchAssumption ==
    /\ IsFiniteSet(Orders)
    /\ Bad \subseteq Orders
    /\ Units \in [Orders -> [Rows -> Nat]]
    /\ PREFETCH \in Nat \ {0}
    /\ FLUSH_SIZE \in Nat \ {0}
    /\ MaxEnds \in Nat

VARIABLES
    published,  \* orders that the publisher has sent
    ready,      \* RabbitMQ: messages in the queue
    unacked,    \* RabbitMQ: messages delivered and not acknowledged
    worker,     \* "up", "closing" after a signal, "down"
    buffer,     \* the worker's buffer
    idleTimer,  \* whether the idle timer is armed
    loading,    \* flushes whose statement is under way
    loaded,     \* flushes whose statement is committed, the answer on its way
    closing,    \* the flush that the shutdown awaits, {} if there was none
    totals      \* Postgres: rabbitmq_sales_daily

\* History, read by no guard but that of MaxEnds.
VARIABLES
    posted,     \* how often each order was added to the totals
    cut,        \* how often a worker ended with a flush under way
    ends        \* how often a worker ended

queueVars   == <<ready, unacked>>
workerVars  == <<worker, buffer, idleTimer, loading, loaded, closing>>
historyVars == <<posted, cut, ends>>

vars == <<published, queueVars, workerVars, totals, historyVars>>

-----------------------------------------------------------------------------

\* What the totals hold is a property of its own: TotalsAreOrders.
TypeOK ==
    /\ published \subseteq Orders
    /\ ready \subseteq published
    /\ unacked \subseteq published
    /\ worker \in {"up", "closing", "down"}
    /\ buffer \subseteq Orders
    /\ idleTimer \in BOOLEAN
    /\ loading \subseteq SUBSET Orders
    /\ loaded \subseteq SUBSET Orders
    /\ closing \subseteq Orders
    /\ posted \in [Orders -> Nat]
    /\ cut \in Nat
    /\ ends \in Nat

Init ==
    /\ published = {}
    /\ ready = {}
    /\ unacked = {}
    /\ worker = "up"
    /\ buffer = {}
    /\ idleTimer = FALSE
    /\ loading = {}
    /\ loaded = {}
    /\ closing = {}
    /\ totals = [r \in Rows |-> 0]
    /\ posted = [o \in Orders |-> 0]
    /\ cut = 0
    /\ ends = 0

-----------------------------------------------------------------------------
(* The publisher *)

Publish(o) ==
    /\ o \notin published
    /\ published' = published \cup {o}
    /\ ready' = ready \cup {o}
    /\ UNCHANGED <<unacked, workerVars, totals, historyVars>>

-----------------------------------------------------------------------------
(* The worker *)

\* Every line item has a quantity and a price.
IsValid(o) == o \notin Bad

\* flush: the timer is cleared, and a buffer that is not empty is taken.
Flush(taken) ==
    /\ idleTimer' = FALSE
    /\ buffer' = {}
    /\ loading' = IF taken = {} THEN loading ELSE loading \cup {taken}

\* Slip: no idle timer, only full buffers are flushed.
BufferUntilFull(o) ==
    /\ unacked' = unacked \cup {o}
    /\ IF Cardinality(buffer \cup {o}) >= FLUSH_SIZE
       THEN Flush(buffer \cup {o})
       ELSE buffer' = buffer \cup {o} /\ UNCHANGED <<idleTimer, loading>>

\* A valid record waits for a full buffer or for the idle timer.
BufferRecord(o) ==
    /\ unacked' = unacked \cup {o}
    /\ IF Cardinality(buffer \cup {o}) >= FLUSH_SIZE
       THEN Flush(buffer \cup {o})
       ELSE /\ buffer' = buffer \cup {o}
            /\ idleTimer' = TRUE
            /\ UNCHANGED loading

\* A record that is not valid is acknowledged at once and never loaded.
DropRecord(o) == UNCHANGED <<unacked, buffer, idleTimer, loading>>

\* The consume callback; it goes on while a shutdown awaits its flush.
Consume(o) ==
    /\ worker # "down"
    /\ o \in ready
    /\ Cardinality(unacked) < PREFETCH
    /\ ready' = ready \ {o}
    /\ IF IsValid(o) THEN BufferRecord(o) ELSE DropRecord(o)
    /\ UNCHANGED <<published, worker, loaded, closing, totals, historyVars>>

IdleTimeout ==
    /\ worker # "down"
    /\ idleTimer
    /\ Flush(buffer)
    /\ UNCHANGED <<published, queueVars, worker, loaded, closing, totals, historyVars>>

-----------------------------------------------------------------------------
(* The load *)

\* aggregate: the rows of a batch.
Aggregate(S) == [r \in Rows |-> SumFunction([o \in S |-> Units[o][r]])]

\* loadAggregates: one statement adds the rows of a batch to the totals.
LoadAggregates(S) ==
    /\ totals' = [r \in Rows |-> totals[r] + Aggregate(S)[r]]
    /\ posted' = [o \in Orders |-> IF o \in S THEN posted[o] + 1 ELSE posted[o]]

\* Slip: the statement is sent again when its answer is slow.
CommitAgain(batch) ==
    /\ batch \in loading
    /\ loaded' = loaded \cup {batch}
    /\ LoadAggregates(batch)
    /\ UNCHANGED <<published, queueVars, worker, buffer, idleTimer, loading, closing, cut, ends>>

Commit(batch) ==
    /\ batch \in loading
    /\ loading' = loading \ {batch}
    /\ loaded' = loaded \cup {batch}
    /\ LoadAggregates(batch)
    /\ UNCHANGED <<published, queueVars, worker, buffer, idleTimer, closing, cut, ends>>

\* Slip: a flush acknowledges everything the worker holds (ack "all up to").
AckUpTo(batch) ==
    /\ batch \in loaded
    /\ loaded' = loaded \ {batch}
    /\ unacked' = {}
    /\ UNCHANGED <<published, ready, worker, buffer, idleTimer, loading, closing,
                   totals, historyVars>>

\* The load has succeeded, and the whole batch is acknowledged.
Ack(batch) ==
    /\ batch \in loaded
    /\ loaded' = loaded \ {batch}
    /\ unacked' = unacked \ batch
    /\ UNCHANGED <<published, ready, worker, buffer, idleTimer, loading, closing,
                   totals, historyVars>>

-----------------------------------------------------------------------------
(* The end of a worker *)

\* The channel is gone: RabbitMQ requeues what is not acknowledged.
End ==
    /\ worker' = "down"
    /\ ends' = ends + 1
    /\ cut' = IF loading \cup loaded = {} THEN cut ELSE cut + 1
    /\ ready' = ready \cup unacked
    /\ unacked' = {}
    /\ buffer' = {}
    /\ idleTimer' = FALSE
    /\ loading' = {}
    /\ loaded' = {}
    /\ closing' = {}

\* The process dies, of itself or because a load was refused (the rejection of
\* `void flush()` is handled nowhere); statements under way may still commit.
Crash ==
    /\ worker # "down"
    /\ ends < MaxEnds
    /\ \E S \in SUBSET loading : LoadAggregates(UNION S)
    /\ End
    /\ UNCHANGED published

\* SIGTERM or SIGINT: shutdown flushes and awaits that flush, and no other.
Shutdown ==
    /\ worker = "up"
    /\ ends < MaxEnds
    /\ worker' = "closing"
    /\ closing' = buffer
    /\ Flush(buffer)
    /\ UNCHANGED <<published, queueVars, loaded, totals, historyVars>>

\* The awaited flush is acknowledged: channel, connection and pool are closed.
Close ==
    /\ worker = "closing"
    /\ closing \notin loading \cup loaded
    /\ \E S \in SUBSET loading : LoadAggregates(UNION S)
    /\ End
    /\ UNCHANGED published

\* npm run rmq:worker
Start ==
    /\ worker = "down"
    /\ worker' = "up"
    /\ UNCHANGED <<published, queueVars, buffer, idleTimer, loading, loaded, closing,
                   totals, historyVars>>

-----------------------------------------------------------------------------

Next ==
    \/ \E o \in Orders : Publish(o) \/ Consume(o)
    \/ IdleTimeout
    \/ \E batch \in SUBSET Orders : Commit(batch) \/ Ack(batch)
    \/ Crash \/ Shutdown \/ Close \/ Start

Spec == Init /\ [][Next]_vars

\* The broker delivers, the timer fires, the database answers, and somebody
\* starts the worker again.
Fairness ==
    /\ \A o \in Orders : WF_vars(Consume(o))
    /\ WF_vars(IdleTimeout)
    /\ WF_vars(\E batch \in SUBSET Orders : Commit(batch))
    /\ WF_vars(\E batch \in SUBSET Orders : Ack(batch))
    /\ WF_vars(Close)
    /\ WF_vars(Start)

-----------------------------------------------------------------------------
(* Properties *)

\* The orders that ought to be in the totals.
Wanted == published \ Bad

\* Every message delivered to the worker is in the buffer or in one flush:
\* none is forgotten, which would keep it from the queue while the worker
\* lives, and none is in two flushes, which would count it twice.
HeldOnce ==
    /\ unacked = buffer \cup UNION (loading \cup loaded)
    /\ \A batch \in loading \cup loaded : batch \cap buffer = {}
    /\ \A b, c \in loading \cup loaded : b # c => b \cap c = {}

\* A message leaves the queue for good only when its order is in the totals
\* (worker.ts:102, "Ack the whole batch only after a successful load").
GoneIsPosted ==
    \A o \in Wanted \ (ready \cup unacked) : posted[o] >= 1

\* The totals are the orders' units, each as often as it was posted, and no
\* spoilt record ever reached them.
TotalsAreOrders ==
    /\ \A r \in Rows : totals[r] = SumFunction([o \in Orders |-> posted[o] * Units[o][r]])
    /\ \A o \in Bad : posted[o] = 0

\* What becomes of an order between the queue and the totals.
OrdersAccounted == HeldOnce /\ GoneIsPosted /\ TotalsAreOrders

\* An order counts once, and once more at most for each worker that ended,
\* by a crash or by a signal, with a flush under way.
Books == INSTANCE Ledger WITH offered <- Wanted, interruptions <- cut

PostsAsLedger == Books!Spec

\* Whatever workers end, the queue comes to be empty for good, and with it
\* (GoneIsPosted) every order that was published to be posted.
QueueDrains == <>[](ready \cup unacked = {})

=============================================================================
