------------------------ MODULE OrderSagaProperties ------------------------
(***************************************************************************)
(* What placing an order promises across the two services.                 *)
(***************************************************************************)
EXTENDS OrderSaga, FiniteSetsExt

Units(S, p) == SumFunction([o \in {o \in S : order[o].product = p} |-> order[o].qty])

\* Orders the saga believes to have their units: not yet, or not any more,
\* once a release has been asked for.
Holding ==
    {o \in Orders : \/ order[o].status \in {"PaymentAuthorized", "Confirmed"}
                    \/ (order[o].status = "StockReserved" /\ saga[o] = "authorize")}

\* How many events the consumer has counted, those given to it and not still
\* in its batch.
Handled == delivered - Len(batch) + (IF acking THEN 1 ELSE 0)

-----------------------------------------------------------------------------

\* Nothing is sold that is not there: whatever sagas overlap, time out or are
\* compensated, stock and the units of the orders that go through fit into
\* what the catalog was seeded with.
StockCoversOrders ==
    ~lapsed => \A p \in Products : stock[p] + Units(Holding, p) <= Seed[p]

\* The catalog's side of an order follows the saga's: an order that goes
\* through holds its stock, and one that is cancelled holds none and will not
\* come to, unless a call of it was left without an answer (Saga.cs:3-5).
StockFollowsOrders ==
    ~lapsed =>
        /\ Holding \subseteq held
        /\ \A o \in Orders : order[o].status = "Cancelled" /\ o \notin stranded =>
             o \notin held /\ <<o, "reserve">> \notin requests

\* The units counted are those of the part of the stream the consumer has been
\* through: its events are taken in order and none is passed over.
SoldIsWhatWasHandled ==
    ~lapsed => \A p \in Products :
        sold[p] = Units({stream[i] : i \in 1 .. Handled}, p)

\* An order has one event at most, and only after it was confirmed - the
\* store may have lost it since.
OneEventPerOrder ==
    \A i \in 1 .. Len(stream) :
        /\ order[stream[i]].status \in {"Confirmed", "none"}
        /\ \A j \in 1 .. Len(stream) : stream[i] = stream[j] => i = j

-----------------------------------------------------------------------------

\* Every saga comes to an end, whatever becomes of its calls.
SagasEnd == \A o \in Orders : saga[o] = "reserve" ~> saga[o] = "over"

\* Every event of the stream is counted, unless the catalog restarted or lost
\* the answer of a read.
EventsAreHandled ==
    \A n \in 1 .. Cardinality(Orders) :
        Len(stream) >= n ~> Handled >= n \/ lapsed

=============================================================================
