---------------------------- MODULE MCOrderSaga ----------------------------
(* Instances of the order saga for the model checker. *)
EXTENDS OrderSagaProperties, Gateway

\* Two units of every product.
TwoEach == [p \in Products |-> 2]

=============================================================================
