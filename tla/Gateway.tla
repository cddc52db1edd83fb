------------------------------ MODULE Gateway ------------------------------
(***************************************************************************)
(* The gateway of backend-architecture/microservices in front of the two   *)
(* services: GET /orders/:id/full, which merges an order with its product. *)
(*                                                                         *)
(* What it passes on as it is (POST /orders, the product pages) needs no   *)
(* step here: such a request is a step of the service it reaches.          *)
(***************************************************************************)
EXTENDS OrderSaga

\* The request for a merged view that is under way: what it has read so far.
VARIABLE view

gatewayVars == <<vars, view>>

NoProduct == -1

NoRequest == [at |-> "idle", of |-> {}, status |-> "none", stock |-> NoProduct]

\* An order the store does not hold is answered with a 502, and no more is asked.
Found(o) == order[o].status # "none"

\* Slip: both are asked for at once, and the product may answer first.
ReadInParallel(o) ==
    /\ \/ /\ view.at = "idle"
          /\ view' = [view EXCEPT !.at = "product", !.of = {o},
                                  !.stock = stock[order[o].product]]
       \/ /\ view.at = "product" /\ view.of = {o} /\ Found(o)
          /\ view' = [view EXCEPT !.at = "sent", !.status = order[o].status]
    /\ UNCHANGED vars

\* The order, from orders-service.
ReadOrder(o) ==
    /\ view.at = "idle" /\ Found(o)
    /\ view' = [view EXCEPT !.at = "order", !.of = {o}, !.status = order[o].status]
    /\ UNCHANGED vars

\* Its product, from the read side of the catalog - or an entry in `errors`,
\* which is no failure of the request.
ReadProduct ==
    /\ view.at = "order"
    /\ \E o \in view.of :
         view' \in {[view EXCEPT !.at = "sent", !.stock = s] :
                       s \in {stock[order[o].product], NoProduct}}
    /\ UNCHANGED vars

\* The answer is sent, and the next request may come.
Respond ==
    /\ view.at = "sent"
    /\ view' = NoRequest
    /\ UNCHANGED vars

GatewayStep == ReadProduct \/ Respond \/ \E o \in Orders : ReadOrder(o)

GatewayInit == Init /\ view = NoRequest

GatewayNext == GatewayStep \/ (Next /\ UNCHANGED view)

GatewaySpec == GatewayInit /\ [][GatewayNext]_gatewayVars /\ Fairness

\* The merged view is of two moments, and still never contradicts itself: an
\* order it shows as paid or confirmed is out of the stock it shows, since the
\* product is read after the order - not "in parallel", as server.ts:9 has it.
FullViewAgrees ==
    \A o \in view.of :
        /\ ~lapsed
        /\ view.at = "sent" /\ view.stock # NoProduct
        /\ view.status \in {"PaymentAuthorized", "Confirmed"}
        => view.stock + order[o].qty <= Seed[order[o].product]

=============================================================================
