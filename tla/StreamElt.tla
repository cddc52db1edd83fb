----------------------------- MODULE StreamElt -----------------------------
(***************************************************************************)
(* data-ingestion/streaming-elt-kafka and sql/elt_transform.sql: a         *)
(* producer appends orders to a Kafka topic of one partition; a consumer   *)
(* inserts each as it is into kafka_orders_raw; whoever runs the transform *)
(* rebuilds the rollup by minute from the raw rows, inside Postgres.       *)
(*                                                                         *)
(* Kafka delivers at least once: the client library appends a message      *)
(* again when the broker's answer is lost, and a consumer that starts goes *)
(* on from the last offset committed for its group.                        *)
(***************************************************************************)
EXTENDS Naturals, Sequences, FiniteSets, FiniteSetsExt

CONSTANTS
    Orders,
    Minutes,
    PlacedAt,    \* the minute of an order
    Total,       \* its revenue
    Transforms,  \* transforms that may run at the same time
    MaxLog,      \* messages in the topic of this instance
    MaxEnds      \* how often the consumer ends in it

VARIABLES
    log,        \* Kafka: the topic orders.placed
    committed,  \* Kafka: messages the group has committed
    running,    \* the consumer is connected
    position,   \* messages that eachMessage is through with
    inserted,   \* the row of the next message is in, the answer on its way
    raw,        \* Postgres: how many rows of kafka_orders_raw an order has
    computed,   \* what a transform under way has computed, Idle when none is
    rollup,     \* Postgres: kafka_revenue_by_minute
    ends        \* history: how often the consumer ended

vars == <<log, committed, running, position, inserted, raw, computed, rollup, ends>>

-----------------------------------------------------------------------------

Idle == <<>>

NoRow == [count |-> 0, revenue |-> 0]

\* The SELECT: counts and revenue by minute of the raw rows.
ByMinute ==
    [t \in Minutes |->
        LET placed == {o \in Orders : raw[o] > 0 /\ PlacedAt[o] = t}
        IN  [count   |-> Cardinality(placed),
             revenue |-> SumFunction([o \in placed |-> raw[o] * Total[o]])]]

\* What the transform computes has a property of its own: RollupNeverAhead.
TypeOK ==
    /\ log \in Seq(Orders)
    /\ position \in 0 .. Len(log)
    /\ committed \in 0 .. position
    /\ running \in BOOLEAN
    /\ inserted \in BOOLEAN
    /\ raw \in [Orders -> Nat]
    /\ ends \in Nat

Init ==
    /\ log = <<>>
    /\ committed = 0
    /\ running = TRUE
    /\ position = 0
    /\ inserted = FALSE
    /\ raw = [o \in Orders |-> 0]
    /\ computed = [w \in Transforms |-> Idle]
    /\ rollup = [t \in Minutes |-> NoRow]
    /\ ends = 0

-----------------------------------------------------------------------------
(* The producer *)

Produce(o) ==
    /\ Len(log) < MaxLog
    /\ \A i \in DOMAIN log : log[i] # o
    /\ log' = Append(log, o)
    /\ UNCHANGED <<committed, running, position, inserted, raw, computed, rollup, ends>>

\* The answer to the send was lost, and kafkajs sent again before it returned.
SendAgain ==
    /\ Len(log) \in 1 .. MaxLog - 1
    /\ log' = Append(log, log[Len(log)])
    /\ UNCHANGED <<committed, running, position, inserted, raw, computed, rollup, ends>>

-----------------------------------------------------------------------------
(* The consumer *)

\* Slip: a plain INSERT into a table without the primary key.
InsertAlways(o) == raw' = [raw EXCEPT ![o] = @ + 1]

\* INSERT ... ON CONFLICT (order_id) DO NOTHING
InsertRaw(o) == raw' = [raw EXCEPT ![o] = IF @ = 0 THEN 1 ELSE @]

\* Slip: an insert that fails is caught and logged.
InsertCaught ==
    /\ running /\ ~inserted
    /\ position < Len(log)
    /\ InsertRaw(log[position + 1]) \/ UNCHANGED raw
    /\ inserted' = TRUE
    /\ UNCHANGED <<log, committed, running, position, computed, rollup, ends>>

\* eachMessage: the row is inserted ...
Insert ==
    /\ running /\ ~inserted
    /\ position < Len(log)
    /\ InsertRaw(log[position + 1])
    /\ inserted' = TRUE
    /\ UNCHANGED <<log, committed, running, position, computed, rollup, ends>>

\* ... and once the database has answered the message is done with.
Done ==
    /\ running /\ inserted
    /\ position' = position + 1
    /\ inserted' = FALSE
    /\ UNCHANGED <<log, committed, running, raw, computed, rollup, ends>>

\* kafkajs commits the messages done with, now and then.
CommitOffsets ==
    /\ running
    /\ committed # position
    /\ committed' = position
    /\ UNCHANGED <<log, running, position, inserted, raw, computed, rollup, ends>>

\* The consumer is stopped, dies, or gives up on a database that refuses.
End ==
    /\ running
    /\ ends < MaxEnds
    /\ running' = FALSE
    /\ ends' = ends + 1
    /\ UNCHANGED <<log, committed, position, inserted, raw, computed, rollup>>

\* npm run kafka:consumer: on from the committed offset, 0 for a new group.
Start ==
    /\ ~running
    /\ running' = TRUE
    /\ position' = committed
    /\ inserted' = FALSE
    /\ UNCHANGED <<log, committed, raw, computed, rollup, ends>>

-----------------------------------------------------------------------------
(* npm run transform: one statement, which reads the rows committed when it *)
(* starts, and writes its own when it has the locks.                        *)

Compute(w) ==
    /\ computed[w] = Idle
    /\ computed' = [computed EXCEPT ![w] = ByMinute]
    /\ UNCHANGED <<log, committed, running, position, inserted, raw, rollup, ends>>

\* Slip: ON CONFLICT DO NOTHING.
UpsertOnce(new) ==
    rollup' = [t \in Minutes |-> IF rollup[t] = NoRow THEN new[t] ELSE rollup[t]]

\* ON CONFLICT (minute) DO UPDATE: computed rows replace, the others stay.
Upsert(new) ==
    rollup' = [t \in Minutes |-> IF new[t].count > 0 THEN new[t] ELSE rollup[t]]

Write(w) ==
    /\ computed[w] # Idle
    /\ Upsert(computed[w])
    /\ computed' = [computed EXCEPT ![w] = Idle]
    /\ UNCHANGED <<log, committed, running, position, inserted, raw, ends>>

-----------------------------------------------------------------------------

Next ==
    \/ \E o \in Orders : Produce(o)
    \/ SendAgain
    \/ Insert \/ Done \/ CommitOffsets \/ End \/ Start
    \/ \E w \in Transforms : Compute(w) \/ Write(w)

Spec == Init /\ [][Next]_vars

\* The consumer works while it runs and is started again, and somebody runs
\* the transform from time to time.
Fairness ==
    /\ WF_vars(Insert)
    /\ WF_vars(Done)
    /\ WF_vars(Start)
    /\ \A w \in Transforms : WF_vars(Compute(w)) /\ WF_vars(Write(w))

-----------------------------------------------------------------------------
(* Properties *)

Produced == {log[i] : i \in DOMAIN log}

\* An offset is committed only after the row of its message is in, so that a
\* consumer that starts there has skipped nothing.
CommittedIsLoaded == \A i \in 1 .. committed : raw[log[i]] > 0

\* The rollup never shows more than the raw rows hold, in count or revenue,
\* though transforms overlap with inserts and with each other
\* (elt_transform.sql:9, "re-run it any time").
RollupNeverAhead ==
    \A t \in Minutes :
        /\ rollup[t].count <= ByMinute[t].count
        /\ rollup[t].revenue <= ByMinute[t].revenue

\* What becomes of an order between the topic and the rollup.
StreamAccounted == CommittedIsLoaded /\ RollupNeverAhead

\* An order counts once however often Kafka has it or delivers it: this
\* pipeline admits to no interruption (consumer.ts:38, "ON CONFLICT makes
\* redelivery safe").
Books == INSTANCE Ledger WITH offered <- Produced, posted <- raw, interruptions <- 0

LoadsAsLedger == Books!Spec

\* Every order produced comes to be in the rollup for good, whatever ends and
\* however late a transform writes what it has computed.
RollupCatchesUp == <>[](rollup = ByMinute /\ \A o \in Produced : raw[o] > 0)

=============================================================================
