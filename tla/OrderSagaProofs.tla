-------------------------- MODULE OrderSagaProofs --------------------------
(***************************************************************************)
(* Theorems about the order saga: types, the agreement of the two services *)
(* on an order's stock, and the events an order has.                       *)
(***************************************************************************)
EXTENDS OrderSagaProperties, Gateway, SumTheorems, SequenceTheorems, TLAPS

-----------------------------------------------------------------------------
(* Types *)

\* What a read returns is a piece of the stream no longer than the rest of it.
LEMMA FirstOfNew ==
    ASSUME stream \in Seq(Orders), delivered \in 0 .. Len(stream),
           delivered < Len(stream)
    PROVE  /\ FirstOf(New, BatchSize) \in Seq(Orders)
           /\ delivered + Len(FirstOf(New, BatchSize)) \in 0 .. Len(stream)
<1>1. /\ New \in Seq(Orders)
      /\ Len(New) = Len(stream) - delivered
  BY SubSeqProperties DEF New
<1> DEFINE n == IF Len(New) < BatchSize THEN Len(New) ELSE BatchSize
<1>2. n \in 1 .. Len(New)
  BY <1>1, SagaAssumption
<1>3. /\ SubSeq(New, 1, n) \in Seq(Orders)
      /\ Len(SubSeq(New, 1, n)) = n
  BY <1>1, <1>2, SubSeqProperties
<1>4. FirstOf(New, BatchSize) = SubSeq(New, 1, n)
  BY DEF FirstOf
<1> QED BY <1>1, <1>2, <1>3, <1>4

LEMMA TurnType ==
    ASSUME TypeOK, NEW o \in Orders, NEW step \in SagaSteps, Turn(o, step)
    PROVE  /\ saga' \in [Orders -> SagaSteps]
           /\ reply' \in [Orders -> {"none", "ok", "no"}]
           /\ requests' \subseteq Orders \X Calls
BY DEF TypeOK, Turn

LEMMA BecomesType ==
    ASSUME TypeOK, NEW o \in Orders, NEW status \in OrderStatus, Becomes(o, status)
    PROVE  order' \in [Orders -> [status : {"none"} \cup OrderStatus,
                                 product : Products, qty : Quantities]]
BY DEF TypeOK, Becomes

LEMMA SagaTypeOK ==
    ASSUME TypeOK, NEW o \in Orders, PlaceOrder(o) \/ SagaStep(o)
    PROVE  TypeOK'
<1>0. /\ \A step \in {"reserve", "authorize", "release", "confirm", "publish", "over"} :
           step \in SagaSteps
      /\ OrderStatus = {"Pending", "StockReserved", "PaymentAuthorized", "Confirmed",
                        "Cancelled"}
  BY DEF SagaSteps, Calls, OrderStatus
<1> USE <1>0 DEF TypeOK, ordersVars, catalogVars, consumerVars, historyVars
<1>1. CASE PlaceOrder(o)
  BY <1>1, TurnType, BecomesType DEF PlaceOrder
<1>2. CASE Reserved(o)
  BY <1>2, TurnType, BecomesType DEF Reserved
<1>3. CASE ReserveRefused(o)
  BY <1>3, TurnType, BecomesType DEF ReserveRefused
<1>4. CASE Authorize(o)
  BY <1>4, TurnType, BecomesType DEF Authorize
<1>5. CASE Decline(o)
  BY <1>5, TurnType DEF Decline
<1>6. CASE Released(o)
  BY <1>6, TurnType, BecomesType DEF Released
<1>7. CASE Confirm(o)
  BY <1>7, TurnType, BecomesType DEF Confirm
<1>8. CASE Published(o)
  BY <1>8, TurnType DEF Published
<1>9. CASE ReserveFails(o)
  BY <1>9, BecomesType DEF ReserveFails, NeverLeft, NoAnswer, GiveUp
<1>10. CASE ReleaseFails(o)
  BY <1>10, BecomesType DEF ReleaseFails, NeverLeft, NoAnswer, GiveUp
<1>11. CASE PublishFails(o)
  BY <1>11, <1>0 DEF PublishFails, NeverLeft, NoAnswer, GiveUp
<1> QED
  BY <1>1, <1>2, <1>3, <1>4, <1>5, <1>6, <1>7, <1>8, <1>9, <1>10, <1>11
     DEF SagaStep

LEMMA ServerTypeOK ==
    ASSUME TypeOK, NEW o \in Orders, ServerStep(o)
    PROVE  TypeOK'
<1> USE DEF TypeOK, Answer, Calls, ordersVars, catalogVars, consumerVars, historyVars
<1>0. order[o].product \in Products /\ order[o].qty \in Nat
  BY SagaAssumption
<1>1. CASE DecrementStock(o)
  BY <1>0, <1>1 DEF DecrementStock
<1>2. CASE ReleaseStock(o)
  BY <1>0, <1>2 DEF ReleaseStock
<1>3. CASE AddEvent(o)
  <2>1. stream' \in Seq(Orders) /\ Len(stream') = Len(stream) + 1
    BY <1>3 DEF AddEvent
  <2> QED BY <1>3, <2>1 DEF AddEvent
<1> QED BY <1>1, <1>2, <1>3 DEF ServerStep

LEMMA ConsumerTypeOK ==
    ASSUME TypeOK, ConsumerStep \/ ReadFails
    PROVE  TypeOK'
<1> USE DEF TypeOK, ordersVars, catalogVars, consumerVars, historyVars
<1>1. CASE ReadEvents
  BY <1>1, FirstOfNew DEF ReadEvents
<1>2. CASE ReadFails
  BY <1>2, FirstOfNew DEF ReadFails
<1>3. CASE ConfirmSale
  <2>1. Head(batch) \in Orders
    BY <1>3 DEF ConfirmSale
  <2>2. order[Head(batch)].product \in Products /\ order[Head(batch)].qty \in Nat
    BY <2>1, SagaAssumption
  <2> QED BY <1>3, <2>2 DEF ConfirmSale
<1>4. CASE Ack
  <2>1. Tail(batch) \in Seq(Orders)
    BY <1>4, HeadTailProperties DEF Ack
  <2> QED BY <1>4, <2>1 DEF Ack
<1> QED BY <1>1, <1>2, <1>3, <1>4 DEF ConsumerStep

LEMMA RestartTypeOK ==
    ASSUME TypeOK, OrdersRestart \/ CatalogRestart
    PROVE  TypeOK'
<1> USE DEF TypeOK, ordersVars, catalogVars, consumerVars, historyVars
<1>1. CASE OrdersRestart
  BY <1>1 DEF OrdersRestart, SagaSteps
<1>2. CASE CatalogRestart
  <2>1. stock' \in [Products -> Nat] /\ sold' \in [Products -> Nat]
    BY <1>2, SagaAssumption DEF CatalogRestart
  <2>2. batch' \in Seq(Orders)
    BY <1>2 DEF CatalogRestart
  <2> QED BY <1>2, <2>1, <2>2 DEF CatalogRestart
<1> QED BY <1>1, <1>2

\* Stock and counts stay natural numbers, the group's position stays in the
\* stream, whatever happens in whatever order: DecrementStock never lets the
\* last unit go twice.
THEOREM TypeCorrect == Spec => []TypeOK
<1>1. Init => TypeOK
  <2> SUFFICES ASSUME Init PROVE TypeOK
    OBVIOUS
  <2>1. stock \in [Products -> Nat] /\ sold \in [Products -> Nat]
    BY SagaAssumption DEF Init
  <2>2. order \in [Orders -> [status : {"none"} \cup OrderStatus, product : Products,
                             qty : Quantities]]
    BY DEF Init
  <2>3. saga \in [Orders -> SagaSteps] /\ reply \in [Orders -> {"none", "ok", "no"}]
    BY DEF Init, SagaSteps
  <2>4. stream \in Seq(Orders) /\ Len(stream) = 0 /\ batch \in Seq(Orders)
    BY DEF Init
  <2>5. delivered \in 0 .. Len(stream) /\ acking = FALSE /\ lapsed = FALSE
    BY <2>4 DEF Init
  <2>6. requests = {} /\ held = {} /\ stranded = {}
    BY DEF Init
  <2> QED BY <2>1, <2>2, <2>3, <2>4, <2>5, <2>6 DEF TypeOK
<1>2. TypeOK /\ [Next]_vars => TypeOK'
  <2> SUFFICES ASSUME TypeOK, [Next]_vars PROVE TypeOK'
    OBVIOUS
  <2>1. CASE UNCHANGED vars
    BY <2>1 DEF TypeOK, vars, ordersVars, catalogVars, consumerVars, historyVars
  <2> QED
    BY <2>1, SagaTypeOK, ServerTypeOK, ConsumerTypeOK, RestartTypeOK DEF Next
<1> QED BY <1>1, <1>2, PTL DEF Spec

-----------------------------------------------------------------------------
(* The two services agree *)

\* The calls of an order that may still be carried out are among cs.
OnItsWay(o, cs) == \A c \in Calls \ cs : <<o, c>> \notin requests

Unpublished(o) == \A i \in 1 .. Len(stream) : stream[i] # o

Has(o) == lapsed \/ o \in held

HasNone(o) == lapsed \/ (o \notin held /\ <<o, "reserve">> \notin requests)

\* A saga whose call is on its way, or answered.
ReserveStage(o) ==
    /\ order[o].status = "Pending"
    /\ OnItsWay(o, {"reserve"})
    /\ <<o, "reserve">> \in requests => reply[o] = "none" /\ (lapsed \/ o \notin held)
    /\ reply[o] = "ok" => Has(o)
    /\ reply[o] = "no" => HasNone(o)

ReleaseStage(o) ==
    /\ order[o].status = "StockReserved"
    /\ OnItsWay(o, {"release"})
    /\ <<o, "release">> \in requests => reply[o] = "none"
    /\ reply[o] = "ok" => HasNone(o)

\* What the saga of an order, its status, its calls and the catalog's record of
\* it have to do with each other at every step.
StageInv(o) ==
    /\ saga[o] = "idle" =>
         /\ order[o].status = "none" /\ OnItsWay(o, {}) /\ (lapsed \/ o \notin held)
    /\ saga[o] = "reserve" => ReserveStage(o)
    /\ saga[o] = "authorize" =>
         /\ order[o].status = "StockReserved" /\ OnItsWay(o, {}) /\ Has(o)
    /\ saga[o] = "release" => ReleaseStage(o)
    /\ saga[o] = "confirm" =>
         /\ order[o].status = "PaymentAuthorized" /\ OnItsWay(o, {}) /\ Has(o)
    /\ saga[o] = "publish" => order[o].status = "Confirmed"
    /\ saga[o] = "over" => order[o].status \in {"none", "Confirmed", "Cancelled"}
    /\ order[o].status = "Confirmed" => OnItsWay(o, {"publish"}) /\ Has(o)
    /\ order[o].status = "Cancelled" /\ o \notin stranded => HasNone(o)
    /\ order[o].status \in {"none", "Confirmed"} \/ Unpublished(o)
    /\ <<o, "publish">> \in requests =>
         order[o].status \in {"none", "Confirmed"} /\ Unpublished(o)
    /\ saga[o] \in {"idle", "confirm"} => Unpublished(o)

Once == \A i, j \in 1 .. Len(stream) : stream[i] = stream[j] => i = j

SagaInv == Once /\ \A o \in Orders : StageInv(o)

\* An order whose saga, calls and record nothing touches keeps its part of the
\* invariant.
LEMMA Untouched ==
    ASSUME NEW o \in Orders, StageInv(o),
           order'[o].status = order[o].status, saga'[o] = saga[o], reply'[o] = reply[o],
           \A c \in Calls : <<o, c>> \in requests' <=> <<o, c>> \in requests,
           o \in held' <=> o \in held,
           o \in stranded' <=> o \in stranded,
           lapsed' = lapsed,
           Unpublished(o) => Unpublished(o)'
    PROVE  StageInv(o)'
<1>1. \A cs : OnItsWay(o, cs) => OnItsWay(o, cs)'
  BY DEF OnItsWay
<1>2. /\ Has(o) => Has(o)'
      /\ HasNone(o) => HasNone(o)'
  BY DEF Has, HasNone, Calls
<1>3. /\ ReserveStage(o) => ReserveStage(o)'
      /\ ReleaseStage(o) => ReleaseStage(o)'
  BY <1>1, <1>2 DEF ReserveStage, ReleaseStage, Calls
<1> QED BY <1>1, <1>2, <1>3 DEF StageInv, Calls

\* A step of one saga leaves the other orders alone.
LEMMA OthersUntouched ==
    ASSUME TypeOK, NEW o \in Orders, NEW p \in Orders, p # o, StageInv(p),
           PlaceOrder(o) \/ SagaStep(o)
    PROVE  StageInv(p)'
<1> USE DEF TypeOK, ordersVars, catalogVars, consumerVars, historyVars, Unpublished
<1>1. CASE PlaceOrder(o)
  BY <1>1, Untouched DEF PlaceOrder, Turn, Becomes
<1>2. CASE Reserved(o)
  BY <1>2, Untouched DEF Reserved, Turn, Becomes
<1>3. CASE ReserveRefused(o)
  BY <1>3, Untouched DEF ReserveRefused, Turn, Becomes
<1>4. CASE Authorize(o)
  BY <1>4, Untouched DEF Authorize, Turn, Becomes
<1>5. CASE Decline(o)
  BY <1>5, Untouched DEF Decline, Turn, Becomes
<1>6. CASE Released(o)
  BY <1>6, Untouched DEF Released, Turn, Becomes
<1>7. CASE Confirm(o)
  BY <1>7, Untouched DEF Confirm, Turn, Becomes
<1>8. CASE Published(o)
  BY <1>8, Untouched DEF Published, Turn, Becomes
<1>9. CASE ReserveFails(o)
  BY <1>9, Untouched DEF ReserveFails, NeverLeft, NoAnswer, GiveUp, Becomes
<1>10. CASE ReleaseFails(o)
  BY <1>10, Untouched DEF ReleaseFails, NeverLeft, NoAnswer, GiveUp, Becomes
<1>11. CASE PublishFails(o)
  BY <1>11, Untouched DEF PublishFails, NeverLeft, NoAnswer, GiveUp, Becomes
<1> QED
  BY <1>1, <1>2, <1>3, <1>4, <1>5, <1>6, <1>7, <1>8, <1>9, <1>10, <1>11
     DEF SagaStep

\* A step of a saga leaves its own order's part intact.
LEMMA OwnStep ==
    ASSUME TypeOK, NEW o \in Orders, StageInv(o), PlaceOrder(o) \/ SagaStep(o)
    PROVE  StageInv(o)'
<1> USE DEF TypeOK, ordersVars, catalogVars, consumerVars, historyVars, Calls, StageInv,
            ReserveStage, ReleaseStage, OnItsWay, Has, HasNone, Unpublished
<1>1. CASE PlaceOrder(o)
  BY <1>1 DEF PlaceOrder, Turn, Becomes
<1>2. CASE Reserved(o)
  BY <1>2 DEF Reserved, Turn, Becomes
<1>3. CASE ReserveRefused(o)
  BY <1>3 DEF ReserveRefused, Turn, Becomes
<1>4. CASE Authorize(o)
  BY <1>4 DEF Authorize, Turn, Becomes
<1>5. CASE Decline(o)
  BY <1>5 DEF Decline, Turn, Becomes
<1>6. CASE Released(o)
  BY <1>6 DEF Released, Turn, Becomes
<1>7. CASE Confirm(o)
  BY <1>7 DEF Confirm, Turn, Becomes
<1>8. CASE Published(o)
  BY <1>8 DEF Published, Turn, Becomes
<1>9. CASE ReserveFails(o)
  BY <1>9 DEF ReserveFails, NeverLeft, NoAnswer, GiveUp, Becomes
<1>10. CASE ReleaseFails(o)
  BY <1>10 DEF ReleaseFails, NeverLeft, NoAnswer, GiveUp, Becomes
<1>11. CASE PublishFails(o)
  BY <1>11 DEF PublishFails, NeverLeft, NoAnswer, GiveUp, Becomes
<1> QED
  BY <1>1, <1>2, <1>3, <1>4, <1>5, <1>6, <1>7, <1>8, <1>9, <1>10, <1>11
     DEF SagaStep

\* A server carries out a call of o: it was sent once and answered never.
LEMMA ServerKeeps ==
    ASSUME TypeOK, SagaInv, NEW o \in Orders, ServerStep(o)
    PROVE  SagaInv'
<1> USE DEF TypeOK, ordersVars, catalogVars, consumerVars, historyVars
<1>1. ASSUME NEW p \in Orders, p # o, StageInv(p)
      PROVE  StageInv(p)'
  <2>1. CASE DecrementStock(o)
    BY <1>1, <2>1, Untouched DEF DecrementStock, Answer, Unpublished
  <2>2. CASE ReleaseStock(o)
    BY <1>1, <2>2, Untouched DEF ReleaseStock, Answer, Unpublished
  <2>3. CASE AddEvent(o)
    <3>1. Unpublished(p) => Unpublished(p)'
      BY <1>1, <2>3 DEF AddEvent, Unpublished
    <3> QED BY <1>1, <2>3, <3>1, Untouched DEF AddEvent, Answer
  <2> QED BY <2>1, <2>2, <2>3 DEF ServerStep
<1>2. StageInv(o) => StageInv(o)'
  <2> USE DEF Calls, StageInv, ReserveStage, ReleaseStage, OnItsWay, Has, HasNone,
              Unpublished
  <2>1. CASE DecrementStock(o)
    BY <2>1 DEF DecrementStock, Answer
  <2>2. CASE ReleaseStock(o)
    BY <2>2 DEF ReleaseStock, Answer
  <2>3. CASE AddEvent(o)
    BY <2>3 DEF AddEvent, Answer
  <2> QED BY <2>1, <2>2, <2>3 DEF ServerStep
<1>3. Once'
  <2>1. CASE AddEvent(o)
    <3>1. Unpublished(o)
      BY <2>1 DEF AddEvent, Answer, SagaInv, StageInv
    <3> QED BY <2>1, <3>1 DEF AddEvent, SagaInv, Once, Unpublished
  <2>2. CASE DecrementStock(o) \/ ReleaseStock(o)
    BY <2>2 DEF DecrementStock, ReleaseStock, SagaInv, Once
  <2> QED BY <2>1, <2>2 DEF ServerStep
<1> QED BY <1>1, <1>2, <1>3 DEF SagaInv

LEMMA RestartKeeps ==
    ASSUME TypeOK, SagaInv, OrdersRestart \/ CatalogRestart
    PROVE  SagaInv'
<1> USE DEF TypeOK, ordersVars, catalogVars, consumerVars, historyVars, Calls, StageInv,
            ReserveStage, ReleaseStage, OnItsWay, Has, HasNone, Unpublished
<1>1. ASSUME NEW o \in Orders, StageInv(o)
      PROVE  StageInv(o)'
  <2>1. CASE OrdersRestart
    BY <1>1, <2>1 DEF OrdersRestart
  <2>2. CASE CatalogRestart
    BY <1>1, <2>2 DEF CatalogRestart
  <2> QED BY <2>1, <2>2
<1>2. Once'
  BY DEF OrdersRestart, CatalogRestart, SagaInv, Once
<1> QED BY <1>1, <1>2 DEF SagaInv

LEMMA ConsumerKeeps ==
    ASSUME TypeOK, SagaInv, ConsumerStep \/ ReadFails \/ UNCHANGED vars
    PROVE  SagaInv'
<1> USE DEF vars, ordersVars, catalogVars, consumerVars, historyVars
<1>1. /\ UNCHANGED <<order, saga, reply, requests, stream, held, stranded>>
      /\ lapsed' = lapsed \/ lapsed'
  BY DEF ConsumerStep, ReadEvents, ConfirmSale, Ack, ReadFails
<1> QED
  BY <1>1 DEF SagaInv, Once, StageInv, ReserveStage, ReleaseStage, OnItsWay, Has,
              HasNone, Unpublished

-----------------------------------------------------------------------------

LEMMA SagaInvInit == Init => SagaInv
BY DEF Init, SagaInv, Once, StageInv, OnItsWay, Unpublished

LEMMA SagaInvNext == TypeOK /\ SagaInv /\ [Next]_vars => SagaInv'
<1> SUFFICES ASSUME TypeOK, SagaInv, [Next]_vars PROVE SagaInv'
  OBVIOUS
<1>1. ASSUME NEW o \in Orders, PlaceOrder(o) \/ SagaStep(o)
      PROVE  SagaInv'
  <2>1. \A p \in Orders : StageInv(p)'
    BY <1>1, OwnStep, OthersUntouched DEF SagaInv
  <2>2. stream' = stream
    BY <1>1 DEF PlaceOrder, SagaStep, Reserved, ReserveRefused, ReserveFails, Authorize,
                Decline, Released, ReleaseFails, Confirm, Published, PublishFails, GiveUp
  <2> QED BY <2>1, <2>2 DEF SagaInv, Once
<1> QED BY <1>1, ServerKeeps, RestartKeeps, ConsumerKeeps DEF Next

\* The invariant both theorems follow from.
LEMMA SagaInvHolds == Spec => [](TypeOK /\ SagaInv)
BY SagaInvInit, SagaInvNext, TypeCorrect, PTL DEF Spec

\* An order that goes through holds its stock, and one that was cancelled with
\* every call answered holds none and never will (Saga.cs:3-5).
THEOREM ServicesAgree == Spec => []StockFollowsOrders
<1>1. TypeOK /\ SagaInv => StockFollowsOrders
  <2> SUFFICES ASSUME TypeOK, SagaInv, ~lapsed, NEW o \in Orders
               PROVE  /\ o \in Holding => o \in held
                      /\ order[o].status = "Cancelled" /\ o \notin stranded =>
                           o \notin held /\ <<o, "reserve">> \notin requests
    BY DEF StockFollowsOrders, Holding
  <2>1. saga[o] \in {"idle", "reserve", "authorize", "release", "confirm", "publish", "over"}
    BY DEF TypeOK, SagaSteps, Calls
  <2> QED
    BY <2>1 DEF SagaInv, StageInv, ReserveStage, ReleaseStage, Has, HasNone, Holding
<1> QED BY <1>1, SagaInvHolds, PTL

\* However sagas fail, time out or are lost in a restart, an order has one event
\* at most, and none before it was confirmed.
THEOREM PublishedOnce == Spec => []OneEventPerOrder
<1>1. TypeOK /\ SagaInv => OneEventPerOrder
  <2> SUFFICES ASSUME TypeOK, SagaInv, NEW i \in 1 .. Len(stream)
               PROVE  order[stream[i]].status \in {"Confirmed", "none"}
    BY DEF OneEventPerOrder, SagaInv, Once
  <2>1. stream[i] \in Orders /\ ~Unpublished(stream[i])
    BY DEF TypeOK, Unpublished
  <2> QED BY <2>1 DEF SagaInv, StageInv
<1> QED BY <1>1, SagaInvHolds, PTL

-----------------------------------------------------------------------------
(* Units                                                                   *)

\* The units that the orders in S, as ord has them, take of a product.
UnitsIn(ord, S, p) == SumFunction([o \in {o \in S : ord[o].product = p} |-> ord[o].qty])

UnitsOf(ord, o, p) == IF ord[o].product = p THEN ord[o].qty ELSE 0

LEMMA UnitsAreUnitsIn == \A S, p : Units(S, p) = UnitsIn(order, S, p)
BY DEF Units, UnitsIn

LEMMA UnitsType ==
    ASSUME NEW ord, NEW S, NEW p, IsFiniteSet(S), \A o \in S : ord[o].qty \in Nat
    PROVE  UnitsIn(ord, S, p) \in Nat
<1> DEFINE T == {o \in S : ord[o].product = p}
           f == [o \in T |-> ord[o].qty]
<1>1. IsFiniteSet(T)
  BY FS_Subset
<1>2. \A o \in T : f[o] \in Nat
  OBVIOUS
<1>3. DOMAIN f = T
  OBVIOUS
<1> HIDE DEF f, T
<1>4. SumFunctionOnSet(f, DOMAIN f) \in Nat
  BY <1>1, <1>2, <1>3, SumIsNat
<1> QED BY <1>4 DEF UnitsIn, SumFunction, f, T

\* Nobody changes what an order is for.
LEMMA UnitsOfSameOrders ==
    ASSUME NEW ord, NEW new, NEW S, NEW p,
           \A o \in S : new[o].product = ord[o].product /\ new[o].qty = ord[o].qty
    PROVE  UnitsIn(new, S, p) = UnitsIn(ord, S, p)
<1>1. {o \in S : ord[o].product = p} = {o \in S : new[o].product = p}
  OBVIOUS
<1>2. [o \in {o \in S : new[o].product = p} |-> new[o].qty]
        = [o \in {o \in S : ord[o].product = p} |-> ord[o].qty]
  BY <1>1
<1> QED BY <1>2 DEF UnitsIn

LEMMA UnitsAdd ==
    ASSUME NEW ord, NEW S, NEW p, IsFiniteSet(S), NEW x, x \notin S,
           \A o \in S \cup {x} : ord[o].qty \in Nat
    PROVE  UnitsIn(ord, S \cup {x}, p) = UnitsIn(ord, S, p) + UnitsOf(ord, x, p)
<1> DEFINE T == {o \in S : ord[o].product = p}
           U == {o \in S \cup {x} : ord[o].product = p}
           f == [o \in T |-> ord[o].qty]
           g == [o \in U |-> ord[o].qty]
<1>1. IsFiniteSet(T) /\ x \notin T
  BY FS_Subset
<1>2. UnitsIn(ord, S, p) = SumFunctionOnSet(f, T) /\ UnitsIn(ord, S \cup {x}, p) = SumFunctionOnSet(g, U)
  BY DEF UnitsIn, SumFunction
<1>3. \A o \in T : f[o] = g[o] /\ g[o] \in Int
  OBVIOUS
<1>4. CASE ord[x].product = p
  <2>1. U = T \cup {x} /\ g[x] = ord[x].qty /\ g[x] \in Int
    BY <1>4
  <2> HIDE DEF T, U, f, g
  <2>2. SumFunctionOnSet(g, T \cup {x}) = g[x] + SumFunctionOnSet(g, T)
    BY <1>1, <1>3, <2>1, SumAdds
  <2>3. SumFunctionOnSet(f, T) = SumFunctionOnSet(g, T)
    BY <1>1, <1>3, SumOfSameValues
  <2>4. SumFunctionOnSet(g, T) \in Int
    BY <1>1, <1>3, SumIsInt
  <2> QED BY <1>2, <1>4, <2>1, <2>2, <2>3, <2>4 DEF UnitsOf
<1>5. CASE ord[x].product # p
  <2>1. U = T
    BY <1>5
  <2>2. g = f
    BY <2>1
  <2>3. UnitsIn(ord, S, p) \in Nat
    BY UnitsType
  <2> HIDE DEF T, U, f, g
  <2> QED BY <1>2, <1>5, <2>1, <2>2, <2>3 DEF UnitsOf
<1> QED BY <1>4, <1>5

LEMMA UnitsDrop ==
    ASSUME NEW ord, NEW S, NEW p, IsFiniteSet(S), NEW x \in S,
           \A o \in S : ord[o].qty \in Nat
    PROVE  UnitsIn(ord, S, p) = UnitsIn(ord, S \ {x}, p) + UnitsOf(ord, x, p)
<1>1. IsFiniteSet(S \ {x})
  BY FS_Subset
<1>2. (S \ {x}) \cup {x} = S
  OBVIOUS
<1>3. UnitsIn(ord, (S \ {x}) \cup {x}, p) = UnitsIn(ord, S \ {x}, p) + UnitsOf(ord, x, p)
  <2> DEFINE R == S \ {x}
  <2>1. x \notin R /\ IsFiniteSet(R) /\ \A o \in R \cup {x} : ord[o].qty \in Nat
    BY <1>1
  <2> HIDE DEF R
  <2>2. UnitsIn(ord, R \cup {x}, p) = UnitsIn(ord, R, p) + UnitsOf(ord, x, p)
    BY <2>1, UnitsAdd
  <2> QED BY <2>2 DEF R
<1> QED BY <1>2, <1>3

LEMMA UnitsOfPart ==
    ASSUME NEW ord, NEW S, NEW p, IsFiniteSet(S), \A o \in S : ord[o].qty \in Nat,
           NEW R \in SUBSET S
    PROVE  UnitsIn(ord, R, p) <= UnitsIn(ord, S, p)
<1> DEFINE T == {o \in S : ord[o].product = p}
           U == {o \in R : ord[o].product = p}
           f == [o \in T |-> ord[o].qty]
           g == [o \in U |-> ord[o].qty]
<1>1. IsFiniteSet(T) /\ IsFiniteSet(U) /\ U \in SUBSET T
  BY FS_Subset
<1>2. UnitsIn(ord, S, p) = SumFunctionOnSet(f, T) /\ UnitsIn(ord, R, p) = SumFunctionOnSet(g, U)
  BY DEF UnitsIn, SumFunction
<1>3. (\A o \in T : f[o] \in Nat) /\ (\A o \in U : g[o] = f[o])
  OBVIOUS
<1> HIDE DEF T, U, f, g
<1>4. SumFunctionOnSet(g, U) = SumFunctionOnSet(f, U)
  BY <1>1, <1>3, SumOfSameValues
<1>5. SumFunctionOnSet(f, U) <= SumFunctionOnSet(f, T)
  BY <1>1, <1>3, SumOfPart
<1> QED BY <1>2, <1>4, <1>5

-----------------------------------------------------------------------------
(* Stock                                                                   *)

\* A reservation on its way is for an order without stock, a release for one
\* that has it, and the two are never on their way together: what the catalog
\* does with a call that nobody waits for any more is right all the same.
FlightInv(o) ==
    /\ <<o, "reserve">> \in requests => lapsed \/ o \notin held
    /\ <<o, "release">> \in requests =>
         /\ lapsed \/ o \in held
         /\ <<o, "reserve">> \notin requests

\* What is not in stock is held for an order.
StockInv ==
    /\ \A o \in Orders : FlightInv(o)
    /\ IsFiniteSet(held)
    /\ ~lapsed => \A p \in Products : stock[p] + Units(held, p) = Seed[p]

\* The events of the batch are those before the group's position.
ConsumerInv ==
    ~lapsed =>
        /\ Len(batch) <= delivered
        /\ \A i \in 1 .. Len(batch) : batch[i] = stream[delivered - Len(batch) + i]
        /\ SoldIsWhatWasHandled

\* An order that was seen paid keeps its stock, though orders-service may
\* forget it.
Kept(o) ==
    \/ lapsed
    \/ /\ o \in held /\ <<o, "release">> \notin requests
       /\ saga[o] \in {"confirm", "publish", "over"}

ViewInv ==
    /\ view \in [at : {"idle", "order", "sent"}, of : SUBSET Orders,
                 status : {"none"} \cup OrderStatus, stock : Nat \cup {NoProduct}]
    /\ \A o, p \in view.of : o = p
    /\ \A o \in view.of : view.status \in {"PaymentAuthorized", "Confirmed"} => Kept(o)
    /\ FullViewAgrees

-----------------------------------------------------------------------------

LEMMA OrdersKept ==
    ASSUME TypeOK, [Next]_vars
    PROVE  \A o \in Orders : /\ order'[o].product = order[o].product
                             /\ order'[o].qty = order[o].qty
<1> USE DEF TypeOK, ordersVars, catalogVars, consumerVars, historyVars
<1>1. ASSUME NEW o \in Orders, NEW status, Becomes(o, status)
      PROVE  \A p \in Orders : /\ order'[p].product = order[p].product
                               /\ order'[p].qty = order[p].qty
  BY <1>1 DEF Becomes
<1>2. ASSUME NEW o \in Orders, PlaceOrder(o) \/ SagaStep(o)
      PROVE  \/ UNCHANGED order
             \/ \E status : Becomes(o, status)
  BY <1>2 DEF PlaceOrder, SagaStep, Reserved, ReserveRefused, ReserveFails, Authorize, Decline,
              Released, ReleaseFails, Confirm, Published, PublishFails
<1>3. ASSUME NEW o \in Orders, ServerStep(o)
      PROVE  UNCHANGED order
  BY <1>3 DEF ServerStep, DecrementStock, ReleaseStock, AddEvent
<1>4. CASE ConsumerStep \/ ReadFails \/ CatalogRestart \/ UNCHANGED vars
  BY <1>4 DEF ConsumerStep, ReadEvents, ConfirmSale, Ack, ReadFails, CatalogRestart, vars
<1>5. CASE OrdersRestart
  BY <1>5 DEF OrdersRestart
<1> QED BY <1>1, <1>2, <1>3, <1>4, <1>5 DEF Next

\* What a step of a saga leaves alone.
LEMMA SagaLeaves ==
    ASSUME NEW o \in Orders, PlaceOrder(o) \/ SagaStep(o)
    PROVE  UNCHANGED <<stock, sold, stream, delivered, batch, acking, held, lapsed>>
BY DEF PlaceOrder, SagaStep, Reserved, ReserveRefused, ReserveFails, Authorize, Decline,
       Released, ReleaseFails, Confirm, Published, PublishFails, GiveUp, catalogVars,
       consumerVars, historyVars

LEMMA SagaFlight ==
    ASSUME TypeOK, SagaInv, StockInv, NEW o \in Orders, PlaceOrder(o) \/ SagaStep(o),
           NEW p \in Orders
    PROVE  FlightInv(p)'
<1> USE DEF TypeOK, ordersVars, catalogVars, consumerVars, historyVars, FlightInv
<1>0. FlightInv(p) /\ StageInv(o) /\ UNCHANGED <<held, lapsed>>
  BY SagaLeaves DEF StockInv, SagaInv
<1>1. CASE PlaceOrder(o)
  <2>1. requests' = requests \cup {<<o, "reserve">>}
    BY <1>1 DEF PlaceOrder, Turn, Calls
  <2>2. (lapsed \/ o \notin held) /\ <<o, "release">> \notin requests
    BY <1>0, <1>1 DEF PlaceOrder, StageInv, OnItsWay, Calls
  <2> QED BY <1>0, <2>1, <2>2
<1>2. CASE Decline(o)
  <2>1. requests' = requests \cup {<<o, "release">>}
    BY <1>2 DEF Decline, Turn, Calls
  <2>2. (lapsed \/ o \in held) /\ <<o, "reserve">> \notin requests
    BY <1>0, <1>2 DEF Decline, StageInv, OnItsWay, Calls, Has
  <2> QED BY <1>0, <2>1, <2>2
<1>3. CASE Confirm(o)
  BY <1>0, <1>3 DEF Confirm, Turn
<1>4. CASE Reserved(o) \/ ReserveRefused(o) \/ Authorize(o) \/ Released(o) \/ Published(o)
  BY <1>0, <1>4 DEF Reserved, ReserveRefused, Authorize, Released, Published, Turn, Calls
<1>5. CASE ReserveFails(o) \/ ReleaseFails(o) \/ PublishFails(o)
  <2>1. requests' \subseteq requests
    BY <1>5 DEF ReserveFails, ReleaseFails, PublishFails, NeverLeft, NoAnswer
  <2> QED BY <1>0, <2>1
<1> QED BY <1>1, <1>2, <1>3, <1>4, <1>5 DEF SagaStep

LEMMA UnitsHeld ==
    ASSUME TypeOK, StockInv, [Next]_vars, NEW p \in Products
    PROVE  /\ Units(held, p) \in Nat
           /\ UnitsIn(order', held, p) = Units(held, p)
           /\ \A o \in Orders : order[o].qty \in Nat /\ order'[o].qty \in Nat
<1>1. held \subseteq Orders /\ IsFiniteSet(held)
  BY DEF TypeOK, StockInv
<1>2. \A o \in Orders : order[o].qty \in Nat /\ order'[o].qty \in Nat
  BY OrdersKept, SagaAssumption DEF TypeOK
<1>3. UnitsIn(order, held, p) \in Nat
  BY <1>1, <1>2, UnitsType
<1>4. UnitsIn(order', held, p) = UnitsIn(order, held, p)
  <2>1. \A o \in held : order'[o].product = order[o].product /\ order'[o].qty = order[o].qty
    BY <1>1, OrdersKept
  <2> QED BY <2>1, UnitsOfSameOrders
<1> QED BY <1>2, <1>3, <1>4, UnitsAreUnitsIn

LEMMA PrimedUnits == ASSUME NEW CONSTANT p PROVE Units(held, p)' = UnitsIn(order', held', p)
BY UnitsAreUnitsIn DEF Units, UnitsIn

LEMMA StockKept ==
    ASSUME TypeOK, StockInv, [Next]_vars, UNCHANGED <<stock, held>>
    PROVE  /\ IsFiniteSet(held)'
           /\ ~lapsed => \A p \in Products : stock'[p] + Units(held, p)' = Seed[p]
<1>1. IsFiniteSet(held')
  BY DEF StockInv
<1>2. ASSUME ~lapsed, NEW p \in Products PROVE stock'[p] + Units(held, p)' = Seed[p]
  BY <1>2, UnitsHeld, PrimedUnits DEF StockInv
<1> QED BY <1>1, <1>2

LEMMA ServerStock ==
    ASSUME TypeOK, SagaInv, StockInv, NEW o \in Orders, ServerStep(o)
    PROVE  StockInv'
<1>0. [Next]_vars
  BY DEF Next
<1> DEFINE q == order[o].product
<1>1. /\ q \in Products /\ order[o].qty \in Nat /\ held \subseteq Orders
      /\ stock \in [Products -> Nat] /\ Seed \in [Products -> Nat]
  BY SagaAssumption DEF TypeOK
<1>2. CASE DecrementStock(o)
  <2>1. CASE stock[q] >= order[o].qty
    <3>1. /\ <<o, "reserve">> \in requests /\ requests' = requests \ {<<o, "reserve">>}
          /\ stock' = [stock EXCEPT ![q] = @ - order[o].qty]
          /\ held' = held \cup {o} /\ lapsed' = lapsed /\ order' = order
      BY <1>2, <2>1 DEF DecrementStock, Answer
    <3>2. \A p \in Orders : FlightInv(p)'
      BY <3>1 DEF StockInv, FlightInv
    <3>3. IsFiniteSet(held')
      BY <3>1, FS_AddElement DEF StockInv
    <3>4. ASSUME ~lapsed, NEW p \in Products PROVE stock'[p] + Units(held, p)' = Seed[p]
      <4>1. o \notin held /\ IsFiniteSet(held) /\ stock[p] + Units(held, p) = Seed[p]
        BY <3>1, <3>4 DEF StockInv, FlightInv
      <4>2. \A x \in held \cup {o} : order[x].qty \in Nat
        BY <1>0, <1>1, UnitsHeld
      <4>3. UnitsIn(order, held \cup {o}, p) = UnitsIn(order, held, p) + UnitsOf(order, o, p)
        BY <4>1, <4>2, UnitsAdd
      <4>4. Units(held, p)' = Units(held, p) + UnitsOf(order, o, p)
        BY <3>1, <4>3, PrimedUnits, UnitsAreUnitsIn
      <4>5. Units(held, p) \in Nat
        BY <1>0, UnitsHeld
      <4>6. stock'[p] = stock[p] - UnitsOf(order, o, p)
        BY <1>1, <3>1 DEF UnitsOf
      <4>7. UnitsOf(order, o, p) \in Nat /\ stock[p] \in Nat
        BY <1>1 DEF UnitsOf
      <4> QED BY <4>1, <4>4, <4>5, <4>6, <4>7
    <3> QED BY <3>1, <3>2, <3>3, <3>4 DEF StockInv
  <2>2. CASE ~(stock[q] >= order[o].qty)
    <3>1. requests' \subseteq requests /\ UNCHANGED <<stock, held, lapsed>>
      BY <1>2, <2>2 DEF DecrementStock, Answer
    <3>2. \A p \in Orders : FlightInv(p)'
      BY <3>1 DEF StockInv, FlightInv
    <3> QED BY <1>0, <3>1, <3>2, StockKept DEF StockInv
  <2> QED BY <2>1, <2>2
<1>3. CASE ReleaseStock(o)
  <2>1. /\ <<o, "release">> \in requests /\ requests' = requests \ {<<o, "release">>}
        /\ stock' = [stock EXCEPT ![q] = @ + order[o].qty]
        /\ held' = held \ {o} /\ lapsed' = lapsed /\ order' = order
    BY <1>3 DEF ReleaseStock, Answer
  <2>2. \A p \in Orders : FlightInv(p)'
    BY <2>1 DEF StockInv, FlightInv
  <2>3. IsFiniteSet(held')
    BY <2>1, FS_Subset DEF StockInv
  <2>4. ASSUME ~lapsed, NEW p \in Products PROVE stock'[p] + Units(held, p)' = Seed[p]
    <3>1. o \in held /\ IsFiniteSet(held) /\ stock[p] + Units(held, p) = Seed[p]
      BY <2>1, <2>4 DEF StockInv, FlightInv
    <3>2. \A x \in held : order[x].qty \in Nat
      BY <1>0, <1>1, UnitsHeld
    <3>3. UnitsIn(order, held, p) = UnitsIn(order, held \ {o}, p) + UnitsOf(order, o, p)
      BY <3>1, <3>2, UnitsDrop
    <3>4. Units(held, p) = Units(held, p)' + UnitsOf(order, o, p)
      BY <2>1, <3>3, PrimedUnits, UnitsAreUnitsIn
    <3>5. Units(held, p)' \in Nat
      <4>1. IsFiniteSet(held \ {o}) /\ \A x \in held \ {o} : order[x].qty \in Nat
        BY <3>1, <3>2, FS_Subset
      <4>2. UnitsIn(order, held \ {o}, p) \in Nat
        BY <4>1, UnitsType
      <4> QED BY <2>1, <4>2, PrimedUnits
    <3>6. stock'[p] = stock[p] + UnitsOf(order, o, p)
      BY <1>1, <2>1 DEF UnitsOf
    <3>7. UnitsOf(order, o, p) \in Nat /\ stock[p] \in Nat
      BY <1>1 DEF UnitsOf
    <3> QED BY <3>1, <3>4, <3>5, <3>6, <3>7
  <2> QED BY <2>1, <2>2, <2>3, <2>4 DEF StockInv
<1>4. CASE AddEvent(o)
  <2>1. requests' \subseteq requests /\ UNCHANGED <<stock, held, lapsed>>
    BY <1>4 DEF AddEvent, Answer, catalogVars, historyVars
  <2>2. \A p \in Orders : FlightInv(p)'
    BY <2>1 DEF StockInv, FlightInv
  <2> QED BY <1>0, <2>1, <2>2, StockKept DEF StockInv
<1> QED BY <1>2, <1>3, <1>4 DEF ServerStep

LEMMA StockInvNext ==
    ASSUME TypeOK, SagaInv, StockInv, [Next]_vars
    PROVE  StockInv'
<1>1. ASSUME NEW o \in Orders, PlaceOrder(o) \/ SagaStep(o)
      PROVE  StockInv'
  <2>1. UNCHANGED <<stock, held, lapsed>>
    BY <1>1, SagaLeaves
  <2>2. \A p \in Orders : FlightInv(p)'
    BY <1>1, SagaFlight
  <2> QED BY <2>1, <2>2, StockKept DEF StockInv
<1>2. CASE CatalogRestart
  <2>1. requests' \subseteq requests /\ held' = {} /\ lapsed'
    BY <1>2 DEF CatalogRestart
  <2>2. \A p \in Orders : FlightInv(p)'
    <3>1. \A p \in Orders : <<p, "release">> \notin requests'
      BY <1>2 DEF CatalogRestart
    <3> QED BY <2>1, <3>1 DEF FlightInv
  <2> QED BY <2>1, <2>2, FS_EmptySet DEF StockInv
<1>3. CASE ConsumerStep \/ ReadFails \/ OrdersRestart \/ UNCHANGED vars
  <2>1. UNCHANGED <<requests, stock, held>> /\ (lapsed => lapsed')
    BY <1>3 DEF ConsumerStep, ReadEvents, ConfirmSale, Ack, ReadFails, OrdersRestart, vars,
                catalogVars, historyVars, TypeOK
  <2>2. \A p \in Orders : FlightInv(p)'
    BY <2>1 DEF StockInv, FlightInv
  <2> QED BY <2>1, <2>2, StockKept DEF StockInv
<1> QED BY <1>1, <1>2, <1>3, ServerStock DEF Next

-----------------------------------------------------------------------------
(* Units sold                                                              *)

FirstEvents(str, n) == {str[i] : i \in 1 .. n}

LEMMA HandledType ==
    ASSUME TypeOK, ConsumerInv, ~lapsed
    PROVE  /\ delivered \in 0 .. Len(stream) /\ Len(stream) \in Nat /\ Len(batch) \in Nat
           /\ Handled \in 0 .. delivered
           /\ ~acking => Handled = delivered - Len(batch)
           /\ acking => Handled = delivered - Len(batch) + 1 /\ batch # <<>>
<1>1. delivered \in 0 .. Len(stream) /\ Len(stream) \in Nat /\ Len(batch) \in Nat
  BY DEF TypeOK
<1>2. acking \in BOOLEAN /\ (acking => Len(batch) > 0)
  <2>1. batch \in Seq(Orders) /\ acking \in BOOLEAN /\ (acking => batch # <<>>)
    BY DEF TypeOK
  <2> QED BY <2>1, EmptySeq
<1>3. Len(batch) <= delivered
  BY DEF ConsumerInv
<1>4. Handled = delivered - Len(batch) + (IF acking THEN 1 ELSE 0)
  BY DEF Handled
<1>5. acking => batch # <<>>
  BY DEF TypeOK
<1> QED BY <1>1, <1>2, <1>3, <1>4, <1>5

LEMMA EventsFinite ==
    ASSUME TypeOK, NEW n \in 0 .. Len(stream)
    PROVE  FirstEvents(stream, n) \subseteq Orders /\ IsFiniteSet(FirstEvents(stream, n))
<1>1. stream \in Seq(Orders) /\ Len(stream) \in Nat
  BY DEF TypeOK
<1>2. FirstEvents(stream, n) \subseteq Orders
  BY <1>1 DEF FirstEvents
<1>3. IsFiniteSet(1 .. n)
  BY <1>1, FS_Interval
<1>4. IsFiniteSet(FirstEvents(stream, n))
  <2> DEFINE f == [i \in 1 .. n |-> stream[i]]
  <2>1. f \in Surjection(1 .. n, FirstEvents(stream, n))
    BY DEF Surjection, FirstEvents
  <2> HIDE DEF f
  <2> QED BY <1>3, <2>1, FS_Surjection
<1> QED BY <1>2, <1>4

LEMMA SoldKept ==
    ASSUME TypeOK, ConsumerInv, ~lapsed, [Next]_vars, Handled' = Handled, UNCHANGED sold,
           \A i \in 1 .. delivered : stream'[i] = stream[i]
    PROVE  SoldIsWhatWasHandled'
<1> SUFFICES ASSUME NEW p \in Products
             PROVE  sold'[p] = Units({stream[i] : i \in 1 .. Handled}, p)'
  BY DEF SoldIsWhatWasHandled
<1>1. Handled \in 0 .. delivered /\ delivered \in 0 .. Len(stream) /\ Len(stream) \in Nat
  BY HandledType
<1>2. FirstEvents(stream', Handled') = FirstEvents(stream, Handled)
  BY <1>1 DEF FirstEvents
<1>3. UnitsIn(order', FirstEvents(stream, Handled), p) = UnitsIn(order, FirstEvents(stream, Handled), p)
  <2>1. FirstEvents(stream, Handled) \subseteq Orders
    BY <1>1, EventsFinite
  <2>2. \A o \in FirstEvents(stream, Handled) :
          order'[o].product = order[o].product /\ order'[o].qty = order[o].qty
    BY <2>1, OrdersKept
  <2> QED BY <2>2, UnitsOfSameOrders
<1>4. sold[p] = UnitsIn(order, FirstEvents(stream, Handled), p)
  BY UnitsAreUnitsIn DEF ConsumerInv, SoldIsWhatWasHandled, FirstEvents
<1>5. Units({stream[i] : i \in 1 .. Handled}, p)'
        = UnitsIn(order', FirstEvents(stream', Handled'), p)
  BY DEF Units, UnitsIn, FirstEvents
<1> QED BY <1>2, <1>3, <1>4, <1>5

LEMMA ReadKeeps ==
    ASSUME TypeOK, ConsumerInv, ~lapsed, ReadEvents
    PROVE  ConsumerInv'
<1> USE DEF ordersVars, catalogVars, historyVars
<1>1. /\ stream \in Seq(Orders) /\ delivered \in 0 .. Len(stream) /\ Len(stream) \in Nat
      /\ batch = <<>> /\ acking = FALSE /\ delivered < Len(stream)
      /\ UNCHANGED <<order, sold, stream, acking, lapsed>>
  BY DEF TypeOK, ReadEvents
<1> DEFINE m == Len(stream) - delivered
           n == IF m < BatchSize THEN m ELSE BatchSize
<1>2. New \in Seq(Orders) /\ Len(New) = m /\ \A i \in 1 .. m : New[i] = stream[delivered + i]
  BY <1>1, SubSeqProperties DEF New
<1>3. n \in 1 .. m
  BY <1>1, SagaAssumption
<1>4. /\ Len(SubSeq(New, 1, n)) = n
      /\ \A i \in 1 .. n : SubSeq(New, 1, n)[i] = New[i]
  BY <1>2, <1>3, SubSeqProperties
<1>5. batch' = SubSeq(New, 1, n) /\ delivered' = delivered + Len(batch')
  BY <1>2 DEF ReadEvents, FirstOf
<1>6. Len(batch') = n /\ \A i \in 1 .. n : batch'[i] = stream[delivered + i]
  BY <1>2, <1>3, <1>4, <1>5
<1> HIDE DEF n, m
<1>7. /\ Len(batch') <= delivered'
      /\ \A i \in 1 .. Len(batch') : batch'[i] = stream'[delivered' - Len(batch') + i]
  <2>1. n \in Nat /\ delivered \in Nat /\ delivered' = delivered + n
    BY <1>1, <1>3, <1>5, <1>6 DEF m
  <2>2. delivered' - n = delivered
    BY <2>1
  <2> QED BY <1>1, <1>6, <2>1, <2>2
<1>8. Handled' = Handled
  <2>1. Len(batch) = 0
    BY <1>1
  <2>2. n \in Nat /\ delivered \in Nat /\ delivered' = delivered + n
    BY <1>1, <1>3, <1>5, <1>6 DEF m
  <2>3. Handled = delivered /\ Handled' = delivered' - n
    BY <1>1, <1>6, <2>1, <2>2 DEF Handled
  <2> QED BY <2>2, <2>3
<1>9. SoldIsWhatWasHandled'
  BY <1>1, <1>8, SoldKept DEF Next, ConsumerStep
<1> QED BY <1>7, <1>9 DEF ConsumerInv

LEMMA SaleKeeps ==
    ASSUME TypeOK, SagaInv, ConsumerInv, ~lapsed, ConfirmSale
    PROVE  ConsumerInv'
<1> USE DEF ordersVars, catalogVars, historyVars
<1> DEFINE o == Head(batch)
           h == Handled
<1>1. /\ batch \in Seq(Orders) /\ batch # <<>> /\ ~acking /\ acking'
      /\ sold' = [sold EXCEPT ![order[o].product] = @ + order[o].qty]
      /\ UNCHANGED <<order, stream, delivered, batch, lapsed>>
  BY DEF TypeOK, ConfirmSale
<1>2. Len(batch) \in Nat \ {0} /\ o = batch[1] /\ o \in Orders
  BY <1>1, HeadTailProperties, EmptySeq
<1>3. h = delivered - Len(batch) /\ h \in Nat /\ delivered \in Nat /\ Len(batch) <= delivered
      /\ delivered <= Len(stream) /\ Len(stream) \in Nat
  BY <1>1, HandledType DEF ConsumerInv
<1>4. o = stream[h + 1]
  BY <1>2, <1>3 DEF ConsumerInv
<1>5. Handled' = h + 1 /\ h + 1 <= Len(stream)
  BY <1>1, <1>2, <1>3 DEF Handled
<1>6. FirstEvents(stream, h + 1) = FirstEvents(stream, h) \cup {o}
  <2>1. 1 .. (h + 1) = (1 .. h) \cup {h + 1}
    BY <1>3
  <2> QED BY <1>4, <2>1 DEF FirstEvents
<1>7. o \notin FirstEvents(stream, h)
  BY <1>3, <1>4, <1>5 DEF FirstEvents, SagaInv, Once
<1>8. FirstEvents(stream, h) \subseteq Orders /\ IsFiniteSet(FirstEvents(stream, h))
  BY <1>3, EventsFinite
<1>9. \A x \in Orders : order[x].qty \in Nat /\ order[x].product \in Products
  BY SagaAssumption DEF TypeOK
<1>10. ASSUME NEW p \in Products
       PROVE  sold'[p] = Units({stream[i] : i \in 1 .. Handled}, p)'
  <2>1. sold[p] = UnitsIn(order, FirstEvents(stream, h), p)
    BY <1>1, UnitsAreUnitsIn DEF ConsumerInv, SoldIsWhatWasHandled, FirstEvents
  <2>2. Units({stream[i] : i \in 1 .. Handled}, p)' = UnitsIn(order', FirstEvents(stream', Handled'), p)
    BY DEF Units, UnitsIn, FirstEvents
  <2>3. UnitsIn(order, FirstEvents(stream, h) \cup {o}, p)
          = UnitsIn(order, FirstEvents(stream, h), p) + UnitsOf(order, o, p)
    <3>1. \A x \in FirstEvents(stream, h) \cup {o} : order[x].qty \in Nat
      BY <1>2, <1>8, <1>9
    <3> QED BY <1>7, <1>8, <3>1, UnitsAdd
  <2>4. sold \in [Products -> Nat]
    BY DEF TypeOK
  <2>5. sold'[p] = sold[p] + UnitsOf(order, o, p)
    BY <1>1, <1>2, <1>9, <2>4 DEF UnitsOf
  <2> QED BY <1>1, <1>5, <1>6, <2>1, <2>2, <2>3, <2>5
<1> QED BY <1>1, <1>10 DEF ConsumerInv, SoldIsWhatWasHandled

LEMMA AckKeeps ==
    ASSUME TypeOK, ConsumerInv, ~lapsed, Ack
    PROVE  ConsumerInv'
<1> USE DEF ordersVars, catalogVars, historyVars
<1>1. /\ batch \in Seq(Orders) /\ batch # <<>> /\ acking /\ ~acking' /\ batch' = Tail(batch)
      /\ UNCHANGED <<order, sold, stream, delivered, lapsed>>
  BY DEF TypeOK, Ack
<1>2. /\ Len(batch) \in Nat \ {0} /\ Len(batch') = Len(batch) - 1
      /\ \A i \in 1 .. Len(batch') : batch'[i] = batch[i + 1]
  BY <1>1, HeadTailProperties, EmptySeq
<1>3. delivered \in Nat /\ Len(batch) <= delivered
  BY HandledType DEF ConsumerInv
<1>4. \A i \in 1 .. Len(batch') : batch'[i] = stream'[delivered' - Len(batch') + i]
  <2> TAKE i \in 1 .. Len(batch')
  <2>1. i + 1 \in 1 .. Len(batch) /\ delivered - Len(batch) + (i + 1) = delivered' - Len(batch') + i
    BY <1>1, <1>2, <1>3
  <2>2. batch[i + 1] = stream[delivered - Len(batch) + (i + 1)]
    BY <2>1 DEF ConsumerInv
  <2> QED BY <1>1, <1>2, <2>1, <2>2
<1>5. Handled' = Handled
  BY <1>1, <1>2, <1>3 DEF Handled
<1>6. SoldIsWhatWasHandled'
  BY <1>1, <1>5, SoldKept DEF Next, ConsumerStep
<1> QED BY <1>1, <1>2, <1>3, <1>4, <1>6 DEF ConsumerInv

LEMMA OthersKeepConsumer ==
    ASSUME TypeOK, ConsumerInv, ~lapsed, [Next]_vars,
           UNCHANGED <<sold, delivered, batch, acking, lapsed>>,
           \A i \in 1 .. delivered : stream'[i] = stream[i]
    PROVE  ConsumerInv'
<1>1. Handled' = Handled
  BY DEF Handled
<1>2. SoldIsWhatWasHandled'
  BY <1>1, SoldKept
<1>3. Len(batch) \in Nat /\ delivered \in Nat /\ Len(batch) <= delivered
  BY HandledType DEF ConsumerInv
<1>4. \A i \in 1 .. Len(batch) : delivered - Len(batch) + i \in 1 .. delivered
  BY <1>3
<1> QED BY <1>2, <1>4 DEF ConsumerInv

LEMMA ConsumerInvNext ==
    ASSUME TypeOK, SagaInv, ConsumerInv, [Next]_vars
    PROVE  ConsumerInv'
<1> USE DEF ordersVars, catalogVars, consumerVars, historyVars
<1>1. CASE lapsed'
  BY <1>1 DEF ConsumerInv, SoldIsWhatWasHandled
<1>2. CASE ~lapsed'
  <2>1. ~lapsed
    BY <1>2 DEF Next, vars, ReadFails, CatalogRestart, ConsumerStep, ReadEvents, ConfirmSale,
                Ack, OrdersRestart, ServerStep, DecrementStock, ReleaseStock, AddEvent,
                PlaceOrder, SagaStep, Reserved, ReserveRefused, ReserveFails, Authorize,
                Decline, Released, ReleaseFails, Confirm, Published, PublishFails, GiveUp, TypeOK
  <2>2. ASSUME NEW o \in Orders, PlaceOrder(o) \/ SagaStep(o)
        PROVE  ConsumerInv'
    BY <2>1, <2>2, SagaLeaves, OthersKeepConsumer
  <2>3. ASSUME NEW o \in Orders, ServerStep(o)
        PROVE  ConsumerInv'
    <3>1. stream \in Seq(Orders) /\ delivered \in 0 .. Len(stream)
      BY DEF TypeOK
    <3>2. UNCHANGED stream \/ stream' = Append(stream, o)
      BY <2>3 DEF ServerStep, DecrementStock, ReleaseStock, AddEvent
    <3>3. \A i \in 1 .. delivered : stream'[i] = stream[i]
      BY <3>1, <3>2
    <3>4. UNCHANGED <<sold, delivered, batch, acking, lapsed>>
      BY <2>3 DEF ServerStep, DecrementStock, ReleaseStock, AddEvent
    <3> QED BY <2>1, <3>3, <3>4, OthersKeepConsumer
  <2>4. CASE OrdersRestart \/ UNCHANGED vars
    <3>1. UNCHANGED <<sold, stream, delivered, batch, acking, lapsed>>
      BY <2>4 DEF OrdersRestart, vars
    <3> QED BY <2>1, <3>1, OthersKeepConsumer
  <2>5. CASE ReadFails \/ CatalogRestart
    BY <1>2, <2>5 DEF ReadFails, CatalogRestart
  <2> QED
    BY <2>1, <2>2, <2>3, <2>4, <2>5, ReadKeeps, SaleKeeps, AckKeeps DEF Next, ConsumerStep
<1> QED BY <1>1, <1>2

-----------------------------------------------------------------------------
(* What the run checks about stock and counts                              *)

LEMMA InitialUnits == ASSUME NEW p PROVE Units({}, p) = 0
<1> DEFINE f == [o \in {o \in {} : order[o].product = p} |-> order[o].qty]
<1>1. DOMAIN f = {}
  OBVIOUS
<1> HIDE DEF f
<1>2. SumFunction(f) = 0
  BY <1>1, SumOfNothing DEF SumFunction
<1> QED BY <1>2 DEF Units, f

LEMMA UnitsInvInit == Init => StockInv /\ ConsumerInv
<1> SUFFICES ASSUME Init PROVE StockInv /\ ConsumerInv
  OBVIOUS
<1>1. StockInv
  <2>1. ASSUME NEW p \in Products PROVE stock[p] + Units(held, p) = Seed[p]
    BY InitialUnits, SagaAssumption DEF Init
  <2> QED BY <2>1, FS_EmptySet DEF Init, StockInv, FlightInv
<1>2. Handled = 0 /\ Len(batch) = 0 /\ delivered = 0
  BY DEF Init, Handled
<1>3. ASSUME NEW p \in Products
      PROVE  sold[p] = Units({stream[i] : i \in 1 .. Handled}, p)
  <2>1. {stream[i] : i \in 1 .. Handled} = {}
    BY <1>2
  <2> QED BY <2>1, InitialUnits DEF Init
<1> QED BY <1>1, <1>2, <1>3 DEF ConsumerInv, SoldIsWhatWasHandled

\* All of it holds together.
LEMMA UnitsInvHolds == Spec => [](TypeOK /\ SagaInv /\ StockInv /\ ConsumerInv)
BY UnitsInvInit, SagaInvInit, SagaInvNext, StockInvNext, ConsumerInvNext, TypeCorrect, PTL
   DEF Spec

LEMMA HeldUnits ==
    ASSUME TypeOK, StockInv, ~lapsed, NEW p \in Products, NEW S \in SUBSET held
    PROVE  /\ Units(S, p) \in Nat
           /\ stock[p] + Units(S, p) <= Seed[p]
<1>1. /\ IsFiniteSet(held) /\ IsFiniteSet(S) /\ \A o \in held : order[o].qty \in Nat
      /\ stock[p] \in Nat /\ stock[p] + Units(held, p) = Seed[p]
  BY FS_Subset, SagaAssumption DEF TypeOK, StockInv
<1>2. UnitsIn(order, S, p) \in Nat /\ UnitsIn(order, held, p) \in Nat
  BY <1>1, UnitsType
<1>3. UnitsIn(order, S, p) <= UnitsIn(order, held, p)
  BY <1>1, UnitsOfPart
<1> QED BY <1>1, <1>2, <1>3, UnitsAreUnitsIn

\* Nothing is sold that is not there, however sagas overlap, time out or are
\* compensated: until the catalog restarts, its stock and the units of the
\* orders that go through are within the seed (catalog-service/app/domain.py).
THEOREM StockIsEnough == Spec => []StockCoversOrders
<1>1. TypeOK /\ StockInv /\ StockFollowsOrders => StockCoversOrders
  <2> SUFFICES ASSUME TypeOK, StockInv, StockFollowsOrders, ~lapsed, NEW p \in Products
               PROVE  stock[p] + Units(Holding, p) <= Seed[p]
    BY DEF StockCoversOrders
  <2>1. Holding \subseteq held
    BY DEF StockFollowsOrders
  <2> QED BY <2>1, HeldUnits
<1> QED BY <1>1, UnitsInvHolds, ServicesAgree, PTL

\* The units counted are those of the part of the stream the consumer has been
\* through, whatever its batches, until a read's answer is lost or the catalog
\* restarts (events.py).  That no event is read twice is XREADGROUP's doing.
THEOREM CountsEachSale == Spec => []SoldIsWhatWasHandled
<1>1. ConsumerInv => SoldIsWhatWasHandled
  BY DEF ConsumerInv, SoldIsWhatWasHandled
<1> QED BY <1>1, UnitsInvHolds, PTL

-----------------------------------------------------------------------------
(* The merged view                                                         *)

LEMMA PaidIsKept ==
    ASSUME TypeOK, SagaInv, NEW o \in Orders,
           order[o].status \in {"PaymentAuthorized", "Confirmed"}
    PROVE  Kept(o)
<1>1. saga[o] \in {"idle", "reserve", "authorize", "release", "confirm", "publish", "over"}
  BY DEF TypeOK, SagaSteps, Calls
<1>2. StageInv(o)
  BY DEF SagaInv
<1>3. saga[o] \in {"confirm", "publish", "over"}
  BY <1>1, <1>2 DEF StageInv, ReserveStage, ReleaseStage
<1>4. Has(o) /\ <<o, "release">> \notin requests
  BY <1>1, <1>2, <1>3 DEF StageInv, OnItsWay, Calls
<1> QED BY <1>3, <1>4 DEF Kept, Has

\* From then on no call takes the stock back.
LEMMA StaysKept ==
    ASSUME TypeOK, SagaInv, [Next]_vars, NEW o \in Orders, Kept(o)
    PROVE  Kept(o)'
<1> USE DEF ordersVars, catalogVars, consumerVars, historyVars, TypeOK
<1>1. ASSUME NEW p \in Orders, PlaceOrder(p) \/ SagaStep(p)
      PROVE  Kept(o)'
  <2>1. UNCHANGED <<held, lapsed>>
    BY <1>1, SagaLeaves
  <2>2. lapsed \/ (<<o, "release">> \notin requests'
                   /\ saga'[o] \in {"confirm", "publish", "over"})
    BY <1>1 DEF PlaceOrder, SagaStep, Reserved, ReserveRefused, ReserveFails, Authorize,
                Decline, Released, ReleaseFails, Confirm, Published, PublishFails, GiveUp,
                NeverLeft, NoAnswer, Turn, Kept
  <2> QED BY <2>1, <2>2 DEF Kept
<1>2. ASSUME NEW p \in Orders, ServerStep(p)
      PROVE  Kept(o)'
  BY <1>2 DEF ServerStep, DecrementStock, ReleaseStock, AddEvent, Answer, Kept
<1>3. CASE ConsumerStep \/ ReadFails \/ UNCHANGED vars
  BY <1>3 DEF ConsumerStep, ReadEvents, ConfirmSale, Ack, ReadFails, vars, Kept
<1>4. CASE OrdersRestart
  BY <1>4 DEF OrdersRestart, Kept
<1>5. CASE CatalogRestart
  BY <1>5 DEF CatalogRestart, Kept
<1> QED BY <1>1, <1>2, <1>3, <1>4, <1>5 DEF Next

LEMMA ViewStep ==
    ASSUME TypeOK, SagaInv, StockInv, ViewInv, GatewayStep
    PROVE  ViewInv'
<1> USE DEF vars, ordersVars, catalogVars, consumerVars, historyVars, ViewInv
<1>0. UNCHANGED vars
  BY DEF GatewayStep, ReadOrder, ReadProduct, Respond
<1>1. ASSUME NEW o \in Orders, ReadOrder(o)
      PROVE  ViewInv'
  <2>1. /\ view' = [view EXCEPT !.at = "order", !.of = {o}, !.status = order[o].status]
        /\ order[o].status \in {"none"} \cup OrderStatus
    BY <1>1 DEF ReadOrder, TypeOK
  <2>2. view'.status \in {"PaymentAuthorized", "Confirmed"} => Kept(o)'
    BY <1>0, <2>1, PaidIsKept DEF Kept
  <2>3. FullViewAgrees'
    BY <2>1 DEF FullViewAgrees
  <2> QED BY <2>1, <2>2, <2>3
<1>2. CASE ReadProduct
  <2>1. PICK o \in view.of :
          view' \in {[view EXCEPT !.at = "sent", !.stock = s] :
                        s \in {stock[order[o].product], NoProduct}}
    BY <1>2 DEF ReadProduct
  <2> DEFINE p == order[o].product
  <2>2. /\ view'.of = {o} /\ view'.status = view.status
        /\ view'.stock \in {stock[p], NoProduct}
        /\ stock[p] \in Nat /\ p \in Products /\ o \in Orders /\ view.of = {o}
    <3>1. o \in Orders /\ view.of = {o}
      BY <2>1
    <3>2. stock[p] \in Nat /\ p \in Products
      BY <3>1 DEF TypeOK
    <3>3. view'.of = view.of /\ view'.status = view.status
          /\ view'.stock \in {stock[p], NoProduct}
      BY <2>1
    <3> QED BY <3>1, <3>2, <3>3
  <2>3. /\ view' \in [at : {"idle", "order", "sent"}, of : SUBSET Orders,
                      status : {"none"} \cup OrderStatus, stock : Nat \cup {NoProduct}]
        /\ \A x, y \in view'.of : x = y
    BY <2>1, <2>2
  <2>4. \A x \in view'.of : view'.status \in {"PaymentAuthorized", "Confirmed"} => Kept(x)'
    <3>1. Kept(o) => Kept(o)'
      BY <1>0 DEF Kept
    <3> QED BY <2>2, <3>1
  <2>5. ASSUME ~lapsed, view'.stock # NoProduct,
               view'.status \in {"PaymentAuthorized", "Confirmed"}
        PROVE  view'.stock + order[o].qty <= Seed[p]
    <3>1. o \in held /\ {o} \in SUBSET held
      BY <2>2, <2>5 DEF Kept
    <3>2. stock[p] + Units({o}, p) <= Seed[p] /\ Units({o}, p) \in Nat
      BY <2>2, <2>5, <3>1, HeldUnits
    <3>3. Units({o}, p) = order[o].qty
      <4>1. order[o].qty \in Nat
        BY <2>2, SagaAssumption DEF TypeOK
      <4>2. UnitsIn(order, {} \cup {o}, p) = UnitsIn(order, {}, p) + UnitsOf(order, o, p)
        <5>1. \A x \in {} \cup {o} : order[x].qty \in Nat
          BY <4>1
        <5>2. IsFiniteSet({}) /\ o \notin {}
          BY FS_EmptySet
        <5> QED BY <5>1, <5>2, UnitsAdd
      <4>3. {} \cup {o} = {o} /\ UnitsOf(order, o, p) = order[o].qty
        BY DEF UnitsOf
      <4>4. UnitsIn(order, {}, p) = 0
        BY InitialUnits, UnitsAreUnitsIn
      <4> QED BY <4>1, <4>2, <4>3, <4>4, UnitsAreUnitsIn
    <3> QED BY <2>2, <2>5, <3>2, <3>3
  <2>6. FullViewAgrees'
    BY <1>0, <2>2, <2>5 DEF FullViewAgrees
  <2> QED BY <2>3, <2>4, <2>6
<1>3. CASE Respond
  BY <1>0, <1>3 DEF Respond, NoRequest, FullViewAgrees
<1> QED BY <1>1, <1>2, <1>3 DEF GatewayStep

\* What a view has read stays true of the order: it is still out of the stock
\* that was read.
LEMMA ViewStays ==
    ASSUME TypeOK, SagaInv, StockInv, ViewInv, [Next]_vars, UNCHANGED view
    PROVE  ViewInv'
<1>1. \A o \in view.of : Kept(o) => Kept(o)'
  BY StaysKept DEF ViewInv
<1>2. lapsed => lapsed'
  BY DEF Next, vars, ReadFails, CatalogRestart, ConsumerStep, ReadEvents, ConfirmSale,
         Ack, OrdersRestart, ServerStep, DecrementStock, ReleaseStock, AddEvent,
         PlaceOrder, SagaStep, Reserved, ReserveRefused, ReserveFails, Authorize,
         Decline, Released, ReleaseFails, Confirm, Published, PublishFails, GiveUp, TypeOK,
         ordersVars, catalogVars, consumerVars, historyVars
<1>3. FullViewAgrees'
  BY <1>2, OrdersKept DEF ViewInv, FullViewAgrees
<1> QED BY <1>1, <1>3 DEF ViewInv

\* GET /orders/:id/full asks for the product after the order, so the view never
\* shows a paid order beside a stock that still has its units (gateway
\* server.ts): whatever happens between the two reads.
THEOREM MergedViewAgrees == GatewaySpec => []FullViewAgrees
<1>1. GatewayInit => Init /\ ViewInv
  BY DEF GatewayInit, ViewInv, NoRequest, FullViewAgrees
<1>2. [GatewayNext]_gatewayVars => [Next]_vars
  BY DEF GatewayNext, GatewayStep, gatewayVars, ReadOrder, ReadProduct, Respond
<1>3. TypeOK /\ SagaInv /\ StockInv /\ ViewInv /\ [GatewayNext]_gatewayVars => ViewInv'
  <2> SUFFICES ASSUME TypeOK, SagaInv, StockInv, ViewInv, [GatewayNext]_gatewayVars
               PROVE  ViewInv'
    OBVIOUS
  <2>1. CASE GatewayStep
    BY <2>1, ViewStep
  <2>2. CASE Next /\ UNCHANGED view
    BY <2>2, ViewStays
  <2>3. CASE UNCHANGED gatewayVars
    BY <2>3, ViewStays DEF gatewayVars
  <2> QED BY <2>1, <2>2, <2>3 DEF GatewayNext
<1>4. GatewaySpec => Spec
  BY <1>1, <1>2, PTL DEF GatewaySpec, Spec
<1>5. ViewInv => FullViewAgrees
  BY DEF ViewInv
<1> QED BY <1>1, <1>3, <1>4, <1>5, UnitsInvHolds, PTL DEF GatewaySpec

=============================================================================
