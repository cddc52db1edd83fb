---------------------------- MODULE MCIngestion ----------------------------
(***************************************************************************)
(* The two pipelines for the model checker.  They share a database and no  *)
(* table, so it is enough to explore the behaviours of either.  Orders are *)
(* numbers here, which tell how much each holds.                           *)
(***************************************************************************)
EXTENDS BatchEtl, Sequences

CONSTANTS StreamOrders, Minutes, PlacedAt, Total, Transforms, MaxLog

\* A topic carries finitely many orders, and an order's revenue is what its
\* lines cost, never less than nothing.
ASSUME StreamAssumption ==
    /\ IsFiniteSet(StreamOrders)
    /\ PlacedAt \in [StreamOrders -> Minutes]
    /\ Total \in [StreamOrders -> Nat]

VARIABLES log, committed, running, position, inserted, raw, computed, rollup, stops

VARIABLE pipeline  \* the one that runs

\* Orders of different size, which meet in one row.
SomeUnits == [o \in Orders |-> [r \in Rows |-> IF r = "mug" THEN o ELSE o % 2]]

SomeMinutes == [o \in StreamOrders |-> 0]

SomeTotals == [o \in StreamOrders |-> o]

Stream == INSTANCE StreamElt
    WITH Orders <- StreamOrders,
         ends <- stops

streamVars == <<log, committed, running, position, inserted, raw, computed, rollup, stops>>

bothVars == <<vars, streamVars, pipeline>>

BothInit ==
    /\ pipeline \in {"batch", "stream"}
    /\ Init
    /\ Stream!Init

BothNext ==
    \/ pipeline = "batch" /\ Next /\ UNCHANGED <<streamVars, pipeline>>
    \/ pipeline = "stream" /\ Stream!Next /\ UNCHANGED <<vars, pipeline>>

BothSpec ==
    /\ BothInit
    /\ [][BothNext]_bothVars
    /\ pipeline = "batch" => Fairness
    /\ pipeline = "stream" => Stream!Fairness

-----------------------------------------------------------------------------
(* Properties of the stream, restated for the run.                         *)

\* Offsets are committed after the rows are in, and the rollup is never ahead
\* of the raw rows (StreamElt).
StreamAccounted == Stream!StreamAccounted

\* The streaming pipeline implements the ledger, idempotently (StreamElt).
LoadsAsLedger == Stream!LoadsAsLedger

\* The rollup catches up with the raw rows (StreamElt).
RollupCatchesUp == Stream!RollupCatchesUp

=============================================================================
