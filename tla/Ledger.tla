------------------------------- MODULE Ledger -------------------------------
(***************************************************************************)
(* What loading orders into the warehouse promises, whatever lies between: *)
(* only orders that were handed over are posted, and an order is posted    *)
(* once, or once more for every interruption that the pipeline admits to.  *)
(* A pipeline that is idempotent admits to none.                           *)
(***************************************************************************)
EXTENDS Naturals

CONSTANT Orders

VARIABLES
    offered,        \* orders handed over to the pipeline
    posted,         \* how often each counts in the warehouse
    interruptions   \* how often the pipeline owns to having been cut short

vars == <<offered, posted, interruptions>>

Init ==
    /\ offered = {}
    /\ posted = [o \in Orders |-> 0]
    /\ interruptions = 0

Offer(S) ==
    /\ offered' = offered \cup S
    /\ UNCHANGED <<posted, interruptions>>

Post(S) ==
    /\ S \subseteq {o \in offered : posted[o] <= interruptions'}
    /\ posted' = [o \in Orders |-> IF o \in S THEN posted[o] + 1 ELSE posted[o]]
    /\ UNCHANGED offered

\* What was under way when the pipeline was cut short may yet be posted.
Interrupt ==
    /\ interruptions' = interruptions + 1
    /\ \E S \in SUBSET Orders : Post(S)

Next ==
    \/ \E S \in SUBSET Orders : Offer(S)
    \/ \E S \in SUBSET Orders : Post(S) /\ UNCHANGED interruptions
    \/ Interrupt

Spec == Init /\ [][Next]_vars

=============================================================================
