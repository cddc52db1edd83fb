----------------------------- MODULE OrderSaga -----------------------------
(***************************************************************************)
(* Placing an order in backend-architecture/microservices: the saga of     *)
(* orders-service, the stock of catalog-service it reserves over HTTP, and *)
(* the Redis stream over which a confirmed order reaches the catalog's     *)
(* count of units sold.                                                    *)
(*                                                                         *)
(* A saga runs on a thread of its own and any request may read its order,  *)
(* so each change of status is a step.  Orders, stock and counts are kept  *)
(* in memory and go with their process; the stream stays.  A product the   *)
(* catalog does not know is refused as one without stock is.               *)
(***************************************************************************)
EXTENDS Integers, Sequences, FiniteSets

CONSTANTS
    Orders,      \* ids of the orders that may be placed
    Products,
    Quantities,  \* the quantities an order may ask for
    Seed,        \* the stock a product has when the catalog starts
    BatchSize,   \* how many events one XREADGROUP returns at most
    Faults       \* what goes wrong in this instance

FaultKinds == {"timeout", "refused", "payment", "ordersRestart", "catalogRestart", "lostRead"}

ASSUME SagaAssumption ==
    /\ Quantities \subseteq Nat \ {0}
    /\ Seed \in [Products -> Nat]
    /\ BatchSize \in Nat \ {0}
    /\ Faults \subseteq FaultKinds

VARIABLES
    order,      \* orders-service: the store, "none" where it holds no order
    saga,       \* what OrderSaga.Run is doing for each order
    reply,      \* the answer that has reached the call a saga awaits
    requests,   \* calls on their way: to the catalog, or to Redis
    stock,      \* catalog-service: stock_on_hand
    sold,       \* catalog-service: sold_count of the read side
    stream,     \* Redis: microservices:events
    delivered,  \* Redis: how many events the consumer group was given
    batch,      \* events the consumer holds and has not dispatched
    acking      \* the first of them is counted, its XACK under way

\* History, read by no guard.
VARIABLES
    held,       \* orders whose reservation the catalog carried out, and no release
    stranded,   \* orders whose reservation got no answer, or whose release failed
    lapsed      \* the catalog has restarted, or the answer of a read was lost

ordersVars   == <<order, saga, reply>>
catalogVars  == <<stock, sold>>
consumerVars == <<delivered, batch, acking>>
historyVars  == <<held, stranded, lapsed>>

vars == <<ordersVars, requests, catalogVars, stream, consumerVars, historyVars>>

-----------------------------------------------------------------------------

OrderStatus == {"Pending", "StockReserved", "PaymentAuthorized", "Confirmed", "Cancelled"}

Calls == {"reserve", "release", "publish"}

\* A saga is named after the call it awaits or the step it takes next.
SagaSteps == {"idle", "authorize", "confirm", "over"} \cup Calls

TypeOK ==
    /\ order \in [Orders -> [status : {"none"} \cup OrderStatus, product : Products,
                             qty : Quantities]]
    /\ saga \in [Orders -> SagaSteps]
    /\ reply \in [Orders -> {"none", "ok", "no"}]
    /\ requests \subseteq Orders \X Calls
    /\ stock \in [Products -> Nat]
    /\ sold \in [Products -> Nat]
    /\ stream \in Seq(Orders)
    /\ delivered \in 0 .. Len(stream)
    /\ batch \in Seq(Orders)
    /\ acking \in BOOLEAN
    /\ acking => batch # <<>>
    /\ held \subseteq Orders
    /\ stranded \subseteq Orders
    /\ lapsed \in BOOLEAN

Init ==
    /\ order \in [Orders -> [status : {"none"}, product : Products, qty : Quantities]]
    /\ saga = [o \in Orders |-> "idle"]
    /\ reply = [o \in Orders |-> "none"]
    /\ requests = {}
    /\ stock = Seed
    /\ sold = [p \in Products |-> 0]
    /\ stream = <<>>
    /\ delivered = 0
    /\ batch = <<>>
    /\ acking = FALSE
    /\ held = {}
    /\ stranded = {}
    /\ lapsed = FALSE

-----------------------------------------------------------------------------
(* The saga *)

\* The saga goes on to the next step, sending a request if that is a call.
Turn(o, step) ==
    /\ saga' = [saga EXCEPT ![o] = step]
    /\ reply' = [reply EXCEPT ![o] = "none"]
    /\ requests' = IF step \in Calls THEN requests \cup {<<o, step>>} ELSE requests

Becomes(o, status) == order' = [order EXCEPT ![o].status = status]

\* POST /orders: the order is saved and its stock asked for.
PlaceOrder(o) ==
    /\ saga[o] = "idle"
    /\ Becomes(o, "Pending")
    /\ Turn(o, "reserve")
    /\ UNCHANGED <<catalogVars, stream, consumerVars, historyVars>>

\* Slip: the status code of the answer is not looked at.
AnsweredAtAll(o) ==
    /\ saga[o] = "reserve"
    /\ reply[o] # "none"
    /\ Becomes(o, "StockReserved")
    /\ Turn(o, "authorize")
    /\ UNCHANGED <<catalogVars, stream, consumerVars, historyVars>>

Reserved(o) ==
    /\ saga[o] = "reserve"
    /\ reply[o] = "ok"
    /\ Becomes(o, "StockReserved")
    /\ Turn(o, "authorize")
    /\ UNCHANGED <<catalogVars, stream, consumerVars, historyVars>>

\* The catalog answered 409 or 404: no step was completed, so none is undone.
ReserveRefused(o) ==
    /\ saga[o] = "reserve"
    /\ reply[o] = "no"
    /\ Becomes(o, "Cancelled")
    /\ Turn(o, "over")
    /\ UNCHANGED <<catalogVars, stream, consumerVars, historyVars>>

\* authorizePayment: in process, a throw of dice.
Authorize(o) ==
    /\ saga[o] = "authorize"
    /\ Becomes(o, "PaymentAuthorized")
    /\ Turn(o, "confirm")
    /\ UNCHANGED <<catalogVars, stream, consumerVars, historyVars>>

\* Slip: the loop that undoes the completed steps stops one short.
DeclineKeepsStock(o) ==
    /\ saga[o] = "authorize"
    /\ "payment" \in Faults
    /\ Becomes(o, "Cancelled")
    /\ Turn(o, "over")
    /\ UNCHANGED <<catalogVars, stream, consumerVars, historyVars>>

\* The payment fails, and the one completed step is undone.
Decline(o) ==
    /\ saga[o] = "authorize"
    /\ "payment" \in Faults
    /\ Turn(o, "release")
    /\ UNCHANGED <<order, catalogVars, stream, consumerVars, historyVars>>

Released(o) ==
    /\ saga[o] = "release"
    /\ reply[o] = "ok"
    /\ Becomes(o, "Cancelled")
    /\ Turn(o, "over")
    /\ UNCHANGED <<catalogVars, stream, consumerVars, historyVars>>

Confirm(o) ==
    /\ saga[o] = "confirm"
    /\ Becomes(o, "Confirmed")
    /\ Turn(o, "publish")
    /\ UNCHANGED <<catalogVars, stream, consumerVars, historyVars>>

Published(o) ==
    /\ saga[o] = "publish"
    /\ reply[o] = "ok"
    /\ Turn(o, "over")
    /\ UNCHANGED <<order, catalogVars, stream, consumerVars, historyVars>>

\* The call never left: the breaker is open, the limiter full, the peer down.
NeverLeft(o) ==
    /\ "refused" \in Faults
    /\ <<o, saga[o]>> \in requests
    /\ requests' = requests \ {<<o, saga[o]>>}

\* Slip: no timeout is set; only an answer that breaks off ends the call.
NoTimeout(o) ==
    /\ reply[o] # "none"
    /\ UNCHANGED requests

\* Two seconds went by, or the peer restarted: the request may still be on
\* its way, have been carried out, or be lost.
NoAnswer(o) ==
    /\ \/ "timeout" \in Faults
       \/ reply[o] = "none" /\ <<o, saga[o]>> \notin requests
    /\ UNCHANGED requests

GiveUp(o) ==
    /\ saga' = [saga EXCEPT ![o] = "over"]
    /\ reply' = [reply EXCEPT ![o] = "none"]
    /\ UNCHANGED <<catalogVars, stream, consumerVars, held, lapsed>>

\* reserveStock throws: as with a refusal, nothing is undone.
ReserveFails(o) ==
    /\ saga[o] = "reserve"
    /\ Becomes(o, "Cancelled")
    /\ \/ NeverLeft(o) /\ UNCHANGED stranded
       \/ NoAnswer(o) /\ stranded' = stranded \cup {o}
    /\ GiveUp(o)

\* A compensation that fails is logged; the order is cancelled all the same.
ReleaseFails(o) ==
    /\ saga[o] = "release"
    /\ Becomes(o, "Cancelled")
    /\ NeverLeft(o) \/ NoAnswer(o)
    /\ stranded' = stranded \cup {o}
    /\ GiveUp(o)

\* Slip: a publication that fails is tried again.
PublishRetries(o) ==
    /\ saga[o] = "publish"
    /\ "timeout" \in Faults
    /\ Turn(o, "publish")
    /\ UNCHANGED <<order, catalogVars, stream, consumerVars, historyVars>>

\* The exception leaves Run, with the order confirmed.
PublishFails(o) ==
    /\ saga[o] = "publish"
    /\ NeverLeft(o) \/ NoAnswer(o)
    /\ GiveUp(o)
    /\ UNCHANGED <<order, stranded>>

-----------------------------------------------------------------------------
(* The catalog: commands behind one lock, carried out whether or not the  *)
(* saga still waits for the answer                                         *)

Answer(o, call, text) ==
    /\ <<o, call>> \in requests
    /\ requests' = requests \ {<<o, call>>}
    /\ reply' = [reply EXCEPT ![o] = IF saga[o] = call THEN text ELSE @]

DecrementStock(o) ==
    LET p == order[o].product
        enough == stock[p] >= order[o].qty
    IN  /\ Answer(o, "reserve", IF enough THEN "ok" ELSE "no")
        /\ stock' = IF enough THEN [stock EXCEPT ![p] = @ - order[o].qty] ELSE stock
        /\ held' = IF enough THEN held \cup {o} ELSE held
        /\ UNCHANGED <<order, saga, sold, stream, consumerVars, stranded, lapsed>>

ReleaseStock(o) ==
    /\ Answer(o, "release", "ok")
    /\ stock' = [stock EXCEPT ![order[o].product] = @ + order[o].qty]
    /\ held' = held \ {o}
    /\ UNCHANGED <<order, saga, sold, stream, consumerVars, stranded, lapsed>>

-----------------------------------------------------------------------------
(* The stream and its consumer *)

\* XADD, carried out by Redis.
AddEvent(o) ==
    /\ Answer(o, "publish", "ok")
    /\ stream' = Append(stream, o)
    /\ UNCHANGED <<order, saga, catalogVars, consumerVars, historyVars>>

New == SubSeq(stream, delivered + 1, Len(stream))

FirstOf(events, n) == SubSeq(events, 1, IF Len(events) < n THEN Len(events) ELSE n)

\* Slip: the read waits until a whole batch is there.
ReadWhole ==
    /\ batch = <<>>
    /\ Len(New) >= BatchSize
    /\ batch' = FirstOf(New, BatchSize)
    /\ delivered' = delivered + Len(batch')
    /\ UNCHANGED <<ordersVars, requests, catalogVars, stream, acking, historyVars>>

\* XREADGROUP with ">": only events never given to the group before.
ReadEvents ==
    /\ batch = <<>>
    /\ delivered < Len(stream)
    /\ batch' = FirstOf(New, BatchSize)
    /\ delivered' = delivered + Len(batch')
    /\ UNCHANGED <<ordersVars, requests, catalogVars, stream, acking, historyVars>>

\* The answer of XREADGROUP is lost: its events stay pending in Redis, and
\* the next read asks for newer ones.
ReadFails ==
    /\ "lostRead" \in Faults
    /\ batch = <<>>
    /\ delivered < Len(stream)
    /\ delivered' = delivered + Len(FirstOf(New, BatchSize))
    /\ lapsed' = TRUE
    /\ UNCHANGED <<ordersVars, requests, catalogVars, stream, batch, acking, held, stranded>>

ConfirmSale ==
    /\ batch # <<>>
    /\ ~acking
    /\ sold' = [sold EXCEPT ![order[Head(batch)].product] = @ + order[Head(batch)].qty]
    /\ acking' = TRUE
    /\ UNCHANGED <<ordersVars, requests, stock, stream, delivered, batch, historyVars>>

\* Slip: an event whose acknowledgement fails is handled again.
AckRetries ==
    /\ acking
    /\ acking' = FALSE
    /\ batch' \in {batch, Tail(batch)}
    /\ UNCHANGED <<ordersVars, requests, catalogVars, stream, delivered, historyVars>>

\* XACK.  It may fail, which leaves the event pending in Redis; nothing ever
\* reads what is pending, so the consumer goes on alike.
Ack ==
    /\ acking
    /\ acking' = FALSE
    /\ batch' = Tail(batch)
    /\ UNCHANGED <<ordersVars, requests, catalogVars, stream, delivered, historyVars>>

-----------------------------------------------------------------------------
(* Restarts *)

\* Orders and sagas are gone; what they sent goes its way.
OrdersRestart ==
    /\ "ordersRestart" \in Faults
    /\ \E o \in Orders : order[o].status # "none"
    /\ order' = [o \in Orders |-> [order[o] EXCEPT !.status = "none"]]
    /\ saga' = [o \in Orders |-> IF saga[o] = "idle" THEN "idle" ELSE "over"]
    /\ reply' = [o \in Orders |-> "none"]
    /\ UNCHANGED <<requests, catalogVars, stream, consumerVars, historyVars>>

\* The catalog starts from its seed, with a consumer of a new name; events
\* the old one held stay pending.
CatalogRestart ==
    /\ "catalogRestart" \in Faults
    /\ ~lapsed
    /\ requests' = {r \in requests : r[2] = "publish"}
    /\ stock' = Seed
    /\ sold' = [p \in Products |-> 0]
    /\ batch' = <<>>
    /\ acking' = FALSE
    /\ held' = {}
    /\ lapsed' = TRUE
    /\ UNCHANGED <<ordersVars, stream, delivered, stranded>>

-----------------------------------------------------------------------------

SagaStep(o) ==
    \/ Reserved(o) \/ ReserveRefused(o) \/ ReserveFails(o)
    \/ Authorize(o) \/ Decline(o) \/ Released(o) \/ ReleaseFails(o)
    \/ Confirm(o) \/ Published(o) \/ PublishFails(o)

ServerStep(o) == DecrementStock(o) \/ ReleaseStock(o) \/ AddEvent(o)

ConsumerStep == ReadEvents \/ ConfirmSale \/ Ack

Next ==
    \/ \E o \in Orders : PlaceOrder(o) \/ SagaStep(o) \/ ServerStep(o)
    \/ ConsumerStep \/ ReadFails
    \/ OrdersRestart \/ CatalogRestart

Spec == Init /\ [][Next]_vars

\* Threads run, a call ends within its two seconds, the services handle what
\* reaches them, and the consumer's loop goes round.  No order need come.
Fairness ==
    /\ \A o \in Orders : WF_vars(SagaStep(o)) /\ WF_vars(ServerStep(o))
    /\ WF_vars(ConsumerStep)

FairSpec == Spec /\ Fairness

=============================================================================
