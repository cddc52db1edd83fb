--------------------------- MODULE IngestionProofs ---------------------------
(***************************************************************************)
(* Theorems about the two pipelines, for every number of orders, flushes,  *)
(* transforms, messages and restarts.                                      *)
(*                                                                         *)
(* Batch: no order is forgotten or held twice on its way, the totals are   *)
(* what the orders hold, and the pipeline implements the ledger.  An order *)
(* that the broker or the worker still has and whose flush is not          *)
(* committed was posted at most once for each end with a flush under way,  *)
(* and every other order once more at most.                                *)
(*                                                                         *)
(* Stream: offsets never get ahead of the rows, the rollup never shows     *)
(* more than the rows hold, and the pipeline implements the ledger without *)
(* owning to a single interruption.                                        *)
(***************************************************************************)
EXTENDS MCIngestion, SumTheorems, TLAPS

\* The messages of the flushes whose statement is not known to be committed,
\* and of those whose statement is.
InLoading == UNION loading
InLoaded  == UNION loaded

\* A message is in one place: the queue, the buffer, or one flush.
OnePlace ==
    /\ ready \cap unacked = {}
    /\ unacked \cap Bad = {}
    /\ unacked = buffer \cup InLoading \cup InLoaded
    /\ buffer \cap (InLoading \cup InLoaded) = {}
    /\ InLoading \cap InLoaded = {}
    /\ \A b, c \in loading : b # c => b \cap c = {}
    /\ \A b, c \in loaded : b # c => b \cap c = {}

\* Orders that no committed statement stands for at the moment.
ToBePosted == (Orders \ published) \cup ready \cup buffer \cup InLoading

\* How often orders were posted, against the ends that cut a flush short.
PostedEnough == \A o \in (Wanted \ (ready \cup unacked)) \cup InLoaded : posted[o] >= 1

PostedAtMost ==
    /\ \A o \in Orders : posted[o] <= cut + 1
    /\ \A o \in ToBePosted : posted[o] <= cut

Inv == TypeOK /\ OnePlace /\ PostedEnough /\ PostedAtMost

-----------------------------------------------------------------------------

\* Splitting a flush off the others of its kind.
LEMMA SplitOff ==
    ASSUME NEW F, NEW batch \in F, \A b, c \in F : b # c => b \cap c = {}
    PROVE  UNION (F \ {batch}) = (UNION F) \ batch
<1>1. ASSUME NEW x \in UNION (F \ {batch}) PROVE x \in UNION F /\ x \notin batch
  <2>1. PICK b \in F \ {batch} : x \in b  BY <1>1
  <2> QED BY <2>1
<1>2. ASSUME NEW x \in (UNION F) \ batch PROVE x \in UNION (F \ {batch})
  BY <1>2
<1> QED BY <1>1, <1>2

LEMMA PutIn ==
    ASSUME NEW F, NEW batch
    PROVE  UNION (F \cup {batch}) = (UNION F) \cup batch
OBVIOUS

LEMMA InitInv == ASSUME Init PROVE Inv
<1>1. InLoading = {} /\ InLoaded = {}
  BY DEF Init, InLoading, InLoaded
<1>2. TypeOK
  BY DEF Init, TypeOK
<1>3. OnePlace
  BY <1>1 DEF Init, OnePlace
<1>4. PostedEnough /\ PostedAtMost
  BY <1>1 DEF Init, PostedEnough, PostedAtMost, ToBePosted, Wanted
<1> QED BY <1>2, <1>3, <1>4 DEF Inv

LEMMA PublishInv == ASSUME Inv, NEW o \in Orders, Publish(o) PROVE Inv'
BY BatchAssumption
DEF Publish, Inv, TypeOK, OnePlace, PostedEnough, PostedAtMost, ToBePosted, InLoading,
    InLoaded, Wanted, workerVars, historyVars

\* A flush moves the buffer, with the message that filled it, to a place of
\* its own.
LEMMA FlushMoves ==
    ASSUME TypeOK, OnePlace, NEW taken \in SUBSET Orders, Flush(taken),
           taken \cap (InLoading \cup InLoaded) = {}
    PROVE  /\ InLoading' = InLoading \cup taken
           /\ loading' \subseteq SUBSET Orders
           /\ \A b, c \in loading' : b # c => b \cap c = {}
           /\ buffer' = {} /\ idleTimer' = FALSE
<1>1. CASE taken = {}
  BY <1>1 DEF Flush, TypeOK, OnePlace, InLoading
<1>2. CASE taken # {}
  <2>1. loading' = loading \cup {taken}
    BY <1>2 DEF Flush
  <2>2. \A b \in loading : b \cap taken = {}
    BY DEF InLoading
  <2>3. InLoading' = InLoading \cup taken
    BY <2>1, PutIn DEF InLoading
  <2>4. \A b, c \in loading' : b # c => b \cap c = {}
    BY <2>1, <2>2 DEF OnePlace
  <2> QED BY <2>1, <2>3, <2>4 DEF Flush, TypeOK
<1> QED BY <1>1, <1>2

LEMMA ConsumeInv == ASSUME Inv, NEW o \in Orders, Consume(o) PROVE Inv'
<1> USE DEF Inv, workerVars, historyVars
<1>1. /\ o \in ready /\ ready' = ready \ {o}
      /\ UNCHANGED <<published, worker, loaded, closing, posted, cut, ends>>
      /\ InLoaded' = InLoaded
  BY DEF Consume, InLoaded
<1>2. CASE ~IsValid(o)
  <2>1. UNCHANGED <<unacked, buffer, idleTimer, loading>> /\ InLoading' = InLoading
    BY <1>2 DEF Consume, DropRecord, InLoading
  <2> QED
    BY <1>1, <1>2, <2>1
    DEF TypeOK, OnePlace, PostedEnough, PostedAtMost, ToBePosted, Wanted, IsValid
<1>3. CASE IsValid(o)
  <2>1. o \notin Bad /\ unacked' = unacked \cup {o} /\ o \notin unacked /\ o \in published
    BY <1>1, <1>3 DEF Consume, BufferRecord, IsValid, OnePlace, TypeOK
  <2>2. CASE Flush(buffer \cup {o})
    <3>1. /\ InLoading' = InLoading \cup buffer \cup {o}
          /\ loading' \subseteq SUBSET Orders
          /\ \A b, c \in loading' : b # c => b \cap c = {}
          /\ buffer' = {} /\ idleTimer' = FALSE
      <4>1. buffer \cup {o} \in SUBSET Orders
        BY DEF TypeOK
      <4>2. (buffer \cup {o}) \cap (InLoading \cup InLoaded) = {}
        BY <2>1 DEF OnePlace
      <4> HIDE DEF Inv
      <4>3. TypeOK /\ OnePlace
        BY DEF Inv
      <4> QED BY <2>2, <4>1, <4>2, <4>3, FlushMoves
    <3>2. TypeOK'
      <4>1. ready' \subseteq published' /\ unacked' \subseteq published'
        BY <1>1, <2>1 DEF TypeOK
      <4>2. idleTimer' \in BOOLEAN /\ buffer' \subseteq Orders
        BY <3>1
      <4> QED BY <1>1, <3>1, <4>1, <4>2 DEF TypeOK
    <3>3. OnePlace'
      BY <1>1, <2>1, <3>1 DEF OnePlace
    <3> QED
      BY <1>1, <2>1, <3>1, <3>2, <3>3 DEF TypeOK, PostedEnough, PostedAtMost, ToBePosted, Wanted
  <2>3. CASE ~Flush(buffer \cup {o})
    <3>1. /\ buffer' = buffer \cup {o} /\ idleTimer' = TRUE
          /\ loading' = loading /\ InLoading' = InLoading
      BY <1>3, <2>3 DEF Consume, BufferRecord, InLoading
    <3>2. TypeOK'
      BY <1>1, <2>1, <3>1 DEF TypeOK
    <3>3. OnePlace'
      BY <1>1, <2>1, <3>1 DEF OnePlace
    <3> QED
      BY <1>1, <2>1, <3>1, <3>2, <3>3 DEF TypeOK, PostedEnough, PostedAtMost, ToBePosted, Wanted
  <2> QED BY <2>2, <2>3
<1> QED BY <1>2, <1>3

\* The idle timer, and the flush a shutdown starts.
LEMMA FlushInv ==
    ASSUME Inv, Flush(buffer), worker' \in {"up", "closing", "down"}, closing' \in SUBSET Orders,
           UNCHANGED <<published, queueVars, loaded, totals, historyVars>>
    PROVE  Inv'
<1> USE DEF Inv, queueVars, historyVars
<1>1. InLoaded' = InLoaded
  BY DEF InLoaded
<1>2. /\ InLoading' = InLoading \cup buffer
      /\ loading' \subseteq SUBSET Orders
      /\ \A b, c \in loading' : b # c => b \cap c = {}
      /\ buffer' = {} /\ idleTimer' = FALSE
  BY FlushMoves DEF TypeOK, OnePlace
<1>3. TypeOK' /\ OnePlace'
  BY <1>1, <1>2 DEF TypeOK, OnePlace
<1> QED
  BY <1>1, <1>2, <1>3 DEF TypeOK, PostedEnough, PostedAtMost, ToBePosted, Wanted

LEMMA CommitInv == ASSUME Inv, NEW batch, Commit(batch) PROVE Inv'
<1> USE DEF Inv, queueVars
<1>1. /\ InLoading' = InLoading \ batch
      /\ InLoaded' = InLoaded \cup batch
      /\ batch \subseteq InLoading /\ batch \subseteq Orders
  BY SplitOff, PutIn DEF Commit, OnePlace, TypeOK, InLoading, InLoaded
<1>2. /\ UNCHANGED <<published, ready, unacked, worker, buffer, idleTimer, closing, cut, ends>>
      /\ posted' = [o \in Orders |-> IF o \in batch THEN posted[o] + 1 ELSE posted[o]]
      /\ loading' \subseteq loading /\ loaded' = loaded \cup {batch}
  BY DEF Commit, LoadAggregates
<1>3. TypeOK'
  BY <1>1, <1>2 DEF TypeOK
<1>4. OnePlace'
  <2>1. \A b \in loaded : b \cap batch = {}
    BY <1>1 DEF OnePlace, InLoaded
  <2> QED BY <1>1, <1>2, <2>1 DEF OnePlace
<1>5. PostedEnough'
  <2>1. \A o \in batch : posted'[o] >= 1
    BY <1>1, <1>2 DEF TypeOK
  <2>2. \A o \in Orders : posted'[o] >= posted[o] /\ posted'[o] \in Nat /\ posted[o] \in Nat
    BY <1>1, <1>2 DEF TypeOK
  <2>3. Wanted \subseteq Orders /\ InLoaded \subseteq Orders /\ Wanted' = Wanted
    BY <1>2 DEF TypeOK, Wanted, InLoaded
  <2> QED BY <1>1, <1>2, <2>1, <2>2, <2>3 DEF PostedEnough
<1>6. PostedAtMost'
  <2>1. ToBePosted' \subseteq ToBePosted /\ ToBePosted' \cap batch = {}
    BY <1>1, <1>2 DEF ToBePosted, OnePlace, TypeOK
  <2>2. \A o \in batch : o \in ToBePosted
    BY <1>1 DEF ToBePosted
  <2>3. ToBePosted \subseteq Orders
    BY <1>1 DEF ToBePosted, TypeOK, InLoading
  <2> QED BY <1>1, <1>2, <2>1, <2>2, <2>3 DEF PostedAtMost, TypeOK
<1> QED BY <1>3, <1>4, <1>5, <1>6

LEMMA AckInv == ASSUME Inv, NEW batch, Ack(batch) PROVE Inv'
<1> USE DEF Inv, historyVars
<1>1. /\ InLoaded' = InLoaded \ batch
      /\ InLoading' = InLoading
      /\ batch \subseteq InLoaded
  BY SplitOff DEF Ack, OnePlace, InLoading, InLoaded
<1>2. /\ UNCHANGED <<published, ready, worker, buffer, idleTimer, loading, closing, posted, cut,
                     ends>>
      /\ unacked' = unacked \ batch /\ loaded' \subseteq loaded
  BY DEF Ack
<1>3. TypeOK'
  BY <1>1, <1>2 DEF TypeOK
<1>4. OnePlace'
  BY <1>1, <1>2 DEF OnePlace
<1> QED
  BY <1>1, <1>2, <1>3, <1>4 DEF PostedEnough, PostedAtMost, ToBePosted, Wanted, OnePlace

\* A worker ends, and some statements that were under way commit.
LEMMA EndInv ==
    ASSUME Inv, NEW S \in SUBSET loading, LoadAggregates(UNION S), End, UNCHANGED published
    PROVE  Inv'
<1> USE DEF Inv
<1>1. InLoading' = {} /\ InLoaded' = {} /\ UNION S \subseteq InLoading
  BY DEF End, InLoading, InLoaded
<1>2. /\ ready' = ready \cup unacked /\ unacked' = {} /\ buffer' = {} /\ loading' = {}
      /\ loaded' = {} /\ closing' = {} /\ idleTimer' = FALSE /\ worker' = "down"
      /\ ends' = ends + 1 /\ published' = published
      /\ posted' = [o \in Orders |-> IF o \in UNION S THEN posted[o] + 1 ELSE posted[o]]
      /\ cut' = IF loading \cup loaded = {} THEN cut ELSE cut + 1
  BY DEF End, LoadAggregates
<1>3. TypeOK'
  <2>1. posted' \in [Orders -> Nat]
    BY <1>2 DEF TypeOK
  <2>2. cut' \in Nat /\ ends' \in Nat
    BY <1>2 DEF TypeOK
  <2>3. /\ idleTimer' \in BOOLEAN
        /\ loading' \subseteq SUBSET Orders /\ loaded' \subseteq SUBSET Orders
    BY <1>2
  <2>4. ready' \subseteq published' /\ unacked' \subseteq published' /\ published' \subseteq Orders
    BY <1>2 DEF TypeOK
  <2> QED BY <1>2, <2>1, <2>2, <2>3, <2>4 DEF TypeOK
<1>4. OnePlace'
  BY <1>1, <1>2 DEF OnePlace
<1>5. PostedEnough'
  BY <1>1, <1>2 DEF PostedEnough, TypeOK, Wanted
<1>6. InLoading \subseteq ToBePosted /\ ToBePosted \subseteq Orders
  BY DEF ToBePosted, TypeOK, InLoading
<1>7. CASE loading \cup loaded = {}
  <2>1. InLoading = {} /\ InLoaded = {} /\ UNION S = {}
    BY <1>7 DEF InLoading, InLoaded
  <2>2. cut' = cut /\ \A o \in Orders : posted'[o] = posted[o]
    BY <1>2, <1>7, <2>1 DEF TypeOK
  <2>3. ToBePosted' = ToBePosted
    BY <1>1, <1>2, <2>1 DEF ToBePosted, OnePlace
  <2> QED BY <1>3, <1>4, <1>5, <1>6, <2>2, <2>3 DEF PostedAtMost
<1>8. CASE loading \cup loaded # {}
  <2>1. cut' = cut + 1
    BY <1>2, <1>8
  <2>2. \A o \in Orders : posted'[o] <= cut'
    BY <1>1, <1>2, <1>6, <2>1 DEF PostedAtMost, TypeOK
  <2>3. ToBePosted' \subseteq Orders
    BY <1>3, <1>1, <1>2 DEF ToBePosted, TypeOK
  <2>4. \A o \in Orders : posted'[o] <= cut' + 1
    BY <1>3, <2>2 DEF TypeOK
  <2> QED BY <1>3, <1>4, <1>5, <2>2, <2>3, <2>4 DEF PostedAtMost
<1> QED BY <1>7, <1>8

LEMMA NextInv == ASSUME Inv, [Next]_vars PROVE Inv'
<1>1. ASSUME NEW o \in Orders, Publish(o) \/ Consume(o) PROVE Inv'
  BY <1>1, PublishInv, ConsumeInv
<1>2. CASE IdleTimeout
  BY <1>2, FlushInv DEF IdleTimeout, Inv, TypeOK
<1>3. ASSUME NEW batch \in SUBSET Orders, Commit(batch) \/ Ack(batch) PROVE Inv'
  BY <1>3, CommitInv, AckInv
<1>4. CASE Crash
  BY <1>4, EndInv DEF Crash
<1>5. CASE Close
  BY <1>5, EndInv DEF Close
<1>6. CASE Shutdown
  BY <1>6, FlushInv DEF Shutdown, Inv, TypeOK
<1>7. CASE Start
  BY <1>7
  DEF Start, Inv, TypeOK, OnePlace, PostedEnough, PostedAtMost, ToBePosted, InLoading,
      InLoaded, Wanted, queueVars, historyVars
<1>8. CASE UNCHANGED vars
  BY <1>8
  DEF vars, Inv, TypeOK, OnePlace, PostedEnough, PostedAtMost, ToBePosted, InLoading,
      InLoaded, Wanted, queueVars, workerVars, historyVars
<1> QED BY <1>1, <1>2, <1>3, <1>4, <1>5, <1>6, <1>7, <1>8 DEF Next

LEMMA SpecInv == Spec => []Inv
<1>1. Init => Inv  BY InitInv
<1>2. Inv /\ [Next]_vars => Inv'  BY NextInv
<1> QED BY <1>1, <1>2, PTL DEF Spec

-----------------------------------------------------------------------------

\* The variables have the values that their names say (worker.ts).
THEOREM TypeCorrect == Spec => []TypeOK
<1>1. Inv => TypeOK  BY DEF Inv
<1> QED BY <1>1, SpecInv, PTL

\* Every message that the worker was given and has not acknowledged is in the
\* buffer or in exactly one flush, so that none is forgotten and none counted
\* twice (worker.ts:96-107).
THEOREM EveryMessageHeldOnce == Spec => []HeldOnce
<1>1. ASSUME Inv PROVE HeldOnce
  <2>1. UNION (loading \cup loaded) = InLoading \cup InLoaded
    BY DEF InLoading, InLoaded
  <2>2. \A batch \in loading \cup loaded : batch \subseteq InLoading \cup InLoaded
    BY DEF InLoading, InLoaded
  <2>3. \A b \in loading, c \in loaded : b \cap c = {}
    BY <1>1 DEF Inv, OnePlace, InLoading, InLoaded
  <2> QED BY <1>1, <2>1, <2>2, <2>3 DEF Inv, OnePlace, HeldOnce
<1> QED BY <1>1, SpecInv, PTL

\* A message leaves the queue for good only when its order is in the totals
\* (worker.ts:102, "Ack the whole batch only after a successful load").
THEOREM AcknowledgedIsPosted == Spec => []GoneIsPosted
<1>1. Inv => GoneIsPosted  BY DEF Inv, PostedEnough, GoneIsPosted
<1> QED BY <1>1, SpecInv, PTL

-----------------------------------------------------------------------------
(* The refinement *)

LEMMA StepPosts == ASSUME Inv, [Next]_vars PROVE [Books!Next]_(Books!vars)
<1> USE DEF Books!Next, Books!vars
<1>1. ASSUME NEW o \in Orders, Publish(o) PROVE Books!Offer({o} \ Bad)
  BY <1>1 DEF Publish, Wanted, Books!Offer, historyVars
<1>2. ASSUME NEW batch \in SUBSET Orders, Commit(batch)
      PROVE  Books!Post(batch) /\ UNCHANGED cut
  <2>1. \A o \in batch : o \in Wanted /\ posted[o] <= cut
    BY <1>2
    DEF Commit, Inv, OnePlace, TypeOK, PostedAtMost, ToBePosted, InLoading, Wanted
  <2> QED BY <1>2, <2>1 DEF Commit, LoadAggregates, Books!Post, Wanted, queueVars
<1>3. ASSUME NEW S \in SUBSET loading, LoadAggregates(UNION S), End, UNCHANGED published
      PROVE  Books!Interrupt \/ UNCHANGED <<Wanted, posted, cut>>
  <2>1. UNCHANGED Wanted
    BY <1>3 DEF Wanted
  <2>2. CASE loading \cup loaded = {}
    <3>1. UNION S = {}
      BY <2>2
    <3>2. posted' = posted
      BY <1>3, <3>1 DEF LoadAggregates, Inv, TypeOK
    <3> QED BY <1>3, <2>1, <2>2, <3>2 DEF End
  <2>3. CASE loading \cup loaded # {}
    <3>1. cut' = cut + 1
      BY <1>3, <2>3 DEF End
    <3>2. UNION S \in SUBSET Orders
      BY DEF Inv, TypeOK
    <3>3. \A o \in UNION S : o \in Wanted /\ posted[o] <= cut'
      BY <3>1 DEF Inv, OnePlace, TypeOK, PostedAtMost, ToBePosted, InLoading, Wanted
    <3>4. Books!Post(UNION S)
      BY <1>3, <2>1, <3>3 DEF LoadAggregates, Books!Post
    <3> QED BY <3>1, <3>2, <3>4 DEF Books!Interrupt
  <2> QED BY <2>2, <2>3
<1>4. CASE UNCHANGED <<published, posted, cut>>
  BY <1>4 DEF Wanted
<1>5. ASSUME NEW o \in Orders, Consume(o) PROVE UNCHANGED <<published, posted, cut>>
  BY <1>5 DEF Consume, historyVars
<1>6. IdleTimeout \/ Shutdown \/ Start \/ UNCHANGED vars => UNCHANGED <<published, posted, cut>>
  BY DEF IdleTimeout, Shutdown, Start, vars, historyVars
<1>7. ASSUME NEW batch \in SUBSET Orders, Ack(batch) PROVE UNCHANGED <<published, posted, cut>>
  BY <1>7 DEF Ack, historyVars
<1> QED
  BY <1>1, <1>2, <1>3, <1>4, <1>5, <1>6, <1>7, BatchAssumption DEF Next, Crash, Close

\* The pipeline implements the ledger: an order is in the totals once, and
\* once more at most for each time a worker ended with a flush under way
\* (worker.ts:100-131).
THEOREM ImplementsLedger == Spec => PostsAsLedger
<1>1. Init => Books!Init
  BY DEF Init, Books!Init, Wanted
<1>2. Inv /\ [Next]_vars => [Books!Next]_(Books!vars)
  BY StepPosts
<1> QED BY <1>1, <1>2, SpecInv, PTL DEF Spec, PostsAsLedger, Books!Spec

-----------------------------------------------------------------------------
(* The totals.  A statement adds the units of a flush and counts one post  *)
(* more of each of its orders, none of them spoilt; so the totals stay the *)
(* sum over all orders of posts times units.                               *)

\* What the totals have of an order.
PostedUnits(r) == [o \in Orders |-> posted[o] * Units[o][r]]

TotalsInv == totals \in [Rows -> Nat] /\ TotalsAreOrders

LEMMA OneMore == \A p, n \in Nat : p * n \in Nat /\ (p + 1) * n = (p * n) + n
OBVIOUS

LEMMA LoadKeepsTotals ==
    ASSUME TypeOK, TypeOK', TotalsInv, NEW S \in SUBSET Orders, S \cap Bad = {}, LoadAggregates(S)
    PROVE  TotalsInv'
<1>1. Units \in [Orders -> [Rows -> Nat]] /\ IsFiniteSet(Orders) /\ Bad \subseteq Orders
  BY BatchAssumption
<1>2. posted \in [Orders -> Nat] /\ posted' \in [Orders -> Nat]
  BY DEF TypeOK
<1>3. /\ totals' = [r \in Rows |-> totals[r] + Aggregate(S)[r]]
      /\ posted' = [o \in Orders |-> IF o \in S THEN posted[o] + 1 ELSE posted[o]]
  BY DEF LoadAggregates
<1>4. ASSUME NEW r \in Rows
      PROVE  /\ totals'[r] \in Nat
             /\ totals'[r] = SumFunction([o \in Orders |-> posted'[o] * Units[o][r]])
  <2> DEFINE f == [o \in Orders |-> posted[o] * Units[o][r]]
             g == [o \in Orders |-> posted'[o] * Units[o][r]]
             u == [o \in Orders |-> IF o \in S THEN Units[o][r] ELSE 0]
             v == [o \in S |-> Units[o][r]]
  <2>1. \A o \in Orders : posted[o] \in Nat /\ posted'[o] \in Nat /\ Units[o][r] \in Nat
    BY <1>1, <1>2
  <2>2. \A o \in Orders : f[o] \in Nat /\ g[o] \in Nat /\ u[o] \in Nat
    BY <2>1, OneMore
  <2>3. \A o \in Orders : g[o] = f[o] + u[o]
    <3> TAKE o \in Orders
    <3>1. CASE o \in S
      BY <1>3, <2>1, <3>1, OneMore
    <3>2. CASE o \notin S
      <4>1. g[o] = f[o] /\ u[o] = 0
        BY <1>3, <3>2
      <4> QED BY <2>2, <4>1
    <3> QED BY <3>1, <3>2
  <2>4. /\ totals[r] \in Nat
        /\ totals[r] = SumFunctionOnSet(f, Orders)
    BY DEF TotalsInv, TotalsAreOrders, SumFunction
  <2>5. SumFunction([o \in Orders |-> posted'[o] * Units[o][r]]) = SumFunctionOnSet(g, Orders)
    BY DEF SumFunction
  <2>6. Aggregate(S)[r] = SumFunctionOnSet(v, S)
    BY DEF Aggregate, SumFunction
  <2>7. IsFiniteSet(S) /\ IsFiniteSet(Orders \ S)
    BY <1>1, FS_Subset, FS_Difference
  <2>8. SumFunctionOnSet(v, S) = SumFunctionOnSet(u, S)
    <3>1. \A o \in S : v[o] = u[o]
      OBVIOUS
    <3> HIDE DEF u, v
    <3> QED BY <2>7, <3>1, SumOfSameValues
  <2>9. SumFunctionOnSet(u, Orders \ S) = 0
    <3>1. \A o \in Orders \ S : u[o] = 0
      OBVIOUS
    <3> HIDE DEF u
    <3> QED BY <2>7, <3>1, SumOfZeros
  <2> HIDE DEF f, g, u, v
  <2>10. SumFunctionOnSet(u, Orders) = SumFunctionOnSet(u, S) + SumFunctionOnSet(u, Orders \ S)
    <3>1. S \cup (Orders \ S) = Orders /\ S \cap (Orders \ S) = {}
      OBVIOUS
    <3>2. \A o \in S \cup (Orders \ S) : u[o] \in Int
      BY <2>2
    <3> HIDE <2>2
    <3> QED BY <2>7, <3>1, <3>2, SumOfTwoSets
  <2>11. SumFunctionOnSet(u, S) \in Nat
    BY <2>2, <2>7, SumIsNat
  <2>12. SumFunctionOnSet(g, Orders) = SumFunctionOnSet(f, Orders) + SumFunctionOnSet(u, Orders)
    <3>1. \A o \in Orders : f[o] \in Int /\ u[o] \in Int /\ g[o] = f[o] + u[o]
      BY <2>2, <2>3
    <3> QED BY <1>1, <3>1, SumOfSums
  <2>13. totals'[r] = totals[r] + Aggregate(S)[r]
    BY <1>3
  <2> QED BY <2>4, <2>5, <2>6, <2>8, <2>9, <2>10, <2>11, <2>12, <2>13
<1>5. totals' \in [Rows -> Nat]
  BY <1>3, <1>4
<1>6. \A o \in Bad : posted'[o] = 0
  BY <1>1, <1>3 DEF TotalsInv, TotalsAreOrders
<1> QED BY <1>4, <1>5, <1>6 DEF TotalsInv, TotalsAreOrders

LEMMA InitTotals == ASSUME Init PROVE TotalsInv
<1>1. totals = [r \in Rows |-> 0] /\ posted = [o \in Orders |-> 0]
  BY DEF Init
<1>2. ASSUME NEW r \in Rows
      PROVE  totals[r] = SumFunction([o \in Orders |-> posted[o] * Units[o][r]])
  <2> DEFINE f == [o \in Orders |-> posted[o] * Units[o][r]]
  <2>1. \A o \in Orders : f[o] = 0
    BY <1>1, BatchAssumption
  <2>2. SumFunction([o \in Orders |-> posted[o] * Units[o][r]]) = SumFunctionOnSet(f, Orders)
    BY DEF SumFunction
  <2> HIDE DEF f
  <2> QED BY <1>1, <2>1, <2>2, BatchAssumption, SumOfZeros
<1> QED BY <1>1, <1>2, BatchAssumption DEF TotalsInv, TotalsAreOrders

LEMMA NextTotals == ASSUME Inv, Inv', TotalsInv, [Next]_vars PROVE TotalsInv'
<1>1. TypeOK /\ TypeOK' /\ InLoading \cap Bad = {}
  BY DEF Inv, OnePlace
<1>2. ASSUME NEW batch \in SUBSET Orders, Commit(batch) PROVE TotalsInv'
  <2>1. batch \cap Bad = {} /\ LoadAggregates(batch)
    BY <1>1, <1>2 DEF Commit, InLoading
  <2> QED BY <1>1, <2>1, LoadKeepsTotals
<1>3. ASSUME NEW S \in SUBSET loading, LoadAggregates(UNION S) PROVE TotalsInv'
  <2>1. UNION S \in SUBSET Orders /\ (UNION S) \cap Bad = {}
    BY <1>1 DEF InLoading, TypeOK
  <2> QED BY <1>1, <1>3, <2>1, LoadKeepsTotals
<1>4. CASE UNCHANGED <<totals, posted>>
  BY <1>4 DEF TotalsInv, TotalsAreOrders
<1>5. ASSUME NEW o \in Orders, Publish(o) \/ Consume(o) PROVE UNCHANGED <<totals, posted>>
  BY <1>5 DEF Publish, Consume, historyVars
<1>6. ASSUME NEW batch \in SUBSET Orders, Ack(batch) PROVE UNCHANGED <<totals, posted>>
  BY <1>6 DEF Ack, historyVars
<1>7. IdleTimeout \/ Shutdown \/ Start \/ UNCHANGED vars => UNCHANGED <<totals, posted>>
  BY DEF IdleTimeout, Shutdown, Start, vars, historyVars
<1> QED BY <1>2, <1>3, <1>4, <1>5, <1>6, <1>7 DEF Next, Crash, Close

\* What becomes of an order between the queue and the totals: it is held once,
\* it leaves the queue only when it is in the totals, and the totals are what
\* the orders hold, each as often as it was posted, with nothing of a spoilt
\* record (worker.ts:58-131).
THEOREM TotalsAccountForOrders == Spec => []OrdersAccounted
<1>1. Init => TotalsInv
  BY InitTotals
<1>2. Inv /\ Inv' /\ TotalsInv /\ [Next]_vars => TotalsInv'
  BY NextTotals
<1>3. TotalsInv => TotalsAreOrders
  BY DEF TotalsInv
<1> QED
  BY <1>1, <1>2, <1>3, SpecInv, EveryMessageHeldOnce, AcknowledgedIsPosted, PTL
  DEF Spec, OrdersAccounted

-----------------------------------------------------------------------------
(* The stream *)

\* A row for every message done with, one row at most for an order, and the
\* row of the next message once the consumer has inserted it.
RowsFollow ==
    /\ \A o \in StreamOrders : raw[o] <= 1
    /\ \A i \in 1 .. position : raw[log[i]] > 0
    /\ inserted => position < Len(log) /\ raw[log[position + 1]] > 0

StreamInv == Stream!TypeOK /\ RowsFollow

-----------------------------------------------------------------------------

\* What is appended to the log changes nothing that was there.
LEMMA AppendInv ==
    ASSUME StreamInv, NEW o \in StreamOrders, log' = Append(log, o),
           UNCHANGED <<committed, running, position, inserted, raw, computed, rollup, stops>>
    PROVE  StreamInv' /\ Stream!Produced' = Stream!Produced \cup {o}
<1> USE DEF StreamInv
<1>1. /\ log' \in Seq(StreamOrders) /\ Len(log') = Len(log) + 1 /\ Len(log) \in Nat
      /\ \A i \in 1 .. Len(log) : log'[i] = log[i]
      /\ log'[Len(log) + 1] = o
  BY DEF Stream!TypeOK
<1>2. Stream!TypeOK'
  BY <1>1 DEF Stream!TypeOK
<1>3. RowsFollow'
  BY <1>1 DEF RowsFollow, Stream!TypeOK
<1>4. DOMAIN log = 1 .. Len(log) /\ DOMAIN log' = 1 .. Len(log')
  BY <1>1 DEF Stream!TypeOK
<1>5. Stream!Produced' = Stream!Produced \cup {o}
  BY <1>1, <1>4 DEF Stream!Produced
<1> QED BY <1>2, <1>3, <1>5

\* The order of the next message.
LEMMA NextMessage ==
    ASSUME StreamInv, position < Len(log)
    PROVE  /\ position + 1 \in 1 .. Len(log)
           /\ log[position + 1] \in StreamOrders
           /\ log[position + 1] \in Stream!Produced
BY DEF StreamInv, Stream!TypeOK, Stream!Produced

LEMMA InsertInv == ASSUME StreamInv, Stream!Insert PROVE StreamInv'
<1> USE DEF StreamInv
<1>1. /\ position < Len(log) /\ inserted' = TRUE
      /\ UNCHANGED <<log, committed, running, position, stops>>
      /\ log[position + 1] \in StreamOrders
      /\ raw' = [raw EXCEPT ![log[position + 1]] = IF @ = 0 THEN 1 ELSE @]
  BY NextMessage DEF Stream!Insert, Stream!InsertRaw
<1>2. /\ raw' \in [StreamOrders -> Nat]
      /\ \A o \in StreamOrders : raw'[o] >= raw[o] /\ raw'[o] <= 1
      /\ raw'[log[position + 1]] > 0
  BY <1>1 DEF Stream!TypeOK, RowsFollow
<1>3. \A i \in 1 .. position : log[i] \in StreamOrders
  BY <1>1 DEF Stream!TypeOK
<1>4. Stream!TypeOK'
  BY <1>1, <1>2 DEF Stream!TypeOK
<1>5. RowsFollow'
  BY <1>1, <1>2, <1>3 DEF RowsFollow, Stream!TypeOK
<1> QED BY <1>4, <1>5

LEMMA StreamNextInv == ASSUME StreamInv, [Stream!Next]_(Stream!vars) PROVE StreamInv'
<1> USE DEF StreamInv
<1>1. ASSUME NEW o \in StreamOrders, Stream!Produce(o) PROVE StreamInv'
  BY <1>1, AppendInv DEF Stream!Produce
<1>2. CASE Stream!SendAgain
  <2>1. log[Len(log)] \in StreamOrders
    BY <1>2 DEF Stream!SendAgain, Stream!TypeOK
  <2> QED BY <1>2, <2>1, AppendInv DEF Stream!SendAgain
<1>3. CASE Stream!Insert
  BY <1>3, InsertInv
<1>4. CASE Stream!Done
  <2>1. /\ inserted /\ inserted' = FALSE /\ position' = position + 1
        /\ UNCHANGED <<log, committed, running, raw, stops>>
    BY <1>4 DEF Stream!Done
  <2>2. inserted' \in BOOLEAN
    BY <2>1
  <2>3. position < Len(log) /\ raw[log[position + 1]] > 0
    BY <2>1 DEF RowsFollow
  <2>4. Stream!TypeOK'
    BY <2>1, <2>2, <2>3 DEF Stream!TypeOK
  <2>5. \A i \in 1 .. position' : i \in 1 .. position \/ i = position + 1
    BY <2>1 DEF Stream!TypeOK
  <2> QED BY <2>1, <2>3, <2>4, <2>5 DEF RowsFollow
<1>5. CASE Stream!CommitOffsets
  BY <1>5 DEF Stream!CommitOffsets, Stream!TypeOK, RowsFollow
<1>6. CASE Stream!End
  <2>1. Stream!TypeOK'
    <3>1. running' \in BOOLEAN /\ stops' = stops + 1
      BY <1>6 DEF Stream!End
    <3> QED BY <1>6, <3>1 DEF Stream!End, Stream!TypeOK
  <2> QED BY <1>6, <2>1 DEF Stream!End, RowsFollow
<1>7. CASE Stream!Start
  <2>1. /\ inserted' = FALSE /\ running' = TRUE /\ position' = committed
        /\ UNCHANGED <<log, committed, raw, stops>>
    BY <1>7 DEF Stream!Start
  <2>2. inserted' \in BOOLEAN /\ running' \in BOOLEAN
    BY <2>1
  <2>3. Stream!TypeOK'
    BY <2>1, <2>2 DEF Stream!TypeOK
  <2>4. \A i \in 1 .. committed : i \in 1 .. position
    BY DEF Stream!TypeOK
  <2> QED BY <2>1, <2>3, <2>4 DEF RowsFollow
<1>8. ASSUME NEW w \in Transforms, Stream!Compute(w) \/ Stream!Write(w) PROVE StreamInv'
  BY <1>8 DEF Stream!Compute, Stream!Write, Stream!TypeOK, RowsFollow
<1>9. CASE UNCHANGED Stream!vars
  BY <1>9 DEF Stream!vars, Stream!TypeOK, RowsFollow
<1> QED BY <1>1, <1>2, <1>3, <1>4, <1>5, <1>6, <1>7, <1>8, <1>9 DEF Stream!Next

LEMMA StreamSpecInv == Stream!Spec => []StreamInv
<1>1. Stream!Init => StreamInv
  <2>1. ASSUME Stream!Init PROVE Stream!TypeOK
    <3>1. log \in Seq(StreamOrders) /\ Len(log) = 0
      BY <2>1 DEF Stream!Init
    <3>2. running \in BOOLEAN /\ inserted \in BOOLEAN
      BY <2>1 DEF Stream!Init
    <3> QED BY <2>1, <3>1, <3>2 DEF Stream!Init, Stream!TypeOK
  <2>2. Stream!Init => RowsFollow  BY DEF Stream!Init, RowsFollow
  <2> QED BY <2>1, <2>2 DEF StreamInv
<1>2. StreamInv /\ [Stream!Next]_(Stream!vars) => StreamInv'
  BY StreamNextInv
<1> QED BY <1>1, <1>2, PTL DEF Stream!Spec

-----------------------------------------------------------------------------

\* The variables have the values that their names say, the committed offset
\* never ahead of the consumer's position, nor that of the topic.
THEOREM StreamTypeCorrect == Stream!Spec => []Stream!TypeOK
<1>1. StreamInv => Stream!TypeOK  BY DEF StreamInv
<1> QED BY <1>1, StreamSpecInv, PTL

\* An offset is committed only after the row of its message is in: a consumer
\* that starts there has skipped nothing (consumer.ts:31-42).
THEOREM CommittedRowsAreIn == Stream!Spec => []Stream!CommittedIsLoaded
<1>1. StreamInv => Stream!CommittedIsLoaded
  BY DEF StreamInv, Stream!TypeOK, RowsFollow, Stream!CommittedIsLoaded
<1> QED BY <1>1, StreamSpecInv, PTL

LEMMA StreamStepPosts ==
    ASSUME StreamInv, [Stream!Next]_(Stream!vars)
    PROVE  [Stream!Books!Next]_(Stream!Books!vars)
<1> USE DEF Stream!Books!Next, Stream!Books!vars
<1>1. ASSUME NEW o \in StreamOrders, Stream!Produce(o) PROVE Stream!Books!Offer({o})
  BY <1>1, AppendInv DEF Stream!Produce, Stream!Books!Offer
<1>2. CASE Stream!SendAgain
  <2>1. log[Len(log)] \in StreamOrders /\ log[Len(log)] \in Stream!Produced
    BY <1>2 DEF Stream!SendAgain, StreamInv, Stream!TypeOK, Stream!Produced
  <2> QED BY <1>2, <2>1, AppendInv DEF Stream!SendAgain
<1>3. CASE Stream!Insert
  <2> DEFINE o == log[position + 1]
  <2>1. /\ o \in StreamOrders /\ o \in Stream!Produced
        /\ raw' = [raw EXCEPT ![o] = IF @ = 0 THEN 1 ELSE @]
        /\ Stream!Produced' = Stream!Produced
    BY <1>3, NextMessage DEF Stream!Insert, Stream!InsertRaw, Stream!Produced
  <2>2. CASE raw[o] = 0
    <3>1. raw' = [x \in StreamOrders |-> IF x \in {o} THEN raw[x] + 1 ELSE raw[x]]
      <4>1. raw \in [StreamOrders -> Nat]
        BY DEF StreamInv, Stream!TypeOK
      <4>2. raw' = [raw EXCEPT ![o] = 1]
        BY <2>1, <2>2
      <4>3. \A x \in {o} : raw[x] + 1 = 1
        BY <2>2
      <4> HIDE DEF o
      <4> QED BY <2>1, <4>1, <4>2, <4>3
    <3>2. {o} \in SUBSET StreamOrders /\ {o} \subseteq {x \in Stream!Produced : raw[x] <= 0}
      BY <2>1, <2>2
    <3>3. Stream!Books!Post({o})
      BY <2>1, <3>1, <3>2 DEF Stream!Books!Post
    <3> QED BY <3>2, <3>3
  <2>3. CASE raw[o] # 0
    BY <2>1, <2>3 DEF StreamInv, Stream!TypeOK
  <2> QED BY <2>2, <2>3
<1>4. Stream!Done \/ Stream!CommitOffsets \/ Stream!End \/ Stream!Start \/ UNCHANGED Stream!vars
      => UNCHANGED <<log, raw>>
  BY DEF Stream!Done, Stream!CommitOffsets, Stream!End, Stream!Start, Stream!vars
<1>5. ASSUME NEW w \in Transforms, Stream!Compute(w) \/ Stream!Write(w) PROVE UNCHANGED <<log, raw>>
  BY <1>5 DEF Stream!Compute, Stream!Write
<1>6. UNCHANGED <<log, raw>> => UNCHANGED <<Stream!Produced, raw, 0>>
  BY DEF Stream!Produced
<1> QED BY <1>1, <1>2, <1>3, <1>4, <1>5, <1>6 DEF Stream!Next

\* However often Kafka holds an order or delivers it, it counts once
\* (consumer.ts:38, "ON CONFLICT makes redelivery safe").
THEOREM StreamImplementsLedger == Stream!Spec => LoadsAsLedger
<1>1. Stream!Init => Stream!Books!Init
  BY DEF Stream!Init, Stream!Books!Init, Stream!Produced
<1>2. StreamInv /\ [Stream!Next]_(Stream!vars) => [Stream!Books!Next]_(Stream!Books!vars)
  BY StreamStepPosts
<1> QED BY <1>1, <1>2, StreamSpecInv, PTL
        DEF Stream!Spec, LoadsAsLedger, Stream!LoadsAsLedger, Stream!Books!Spec

-----------------------------------------------------------------------------
(* The rollup.  Rows of kafka_orders_raw are never taken away, so what a   *)
(* transform has computed is at most what the raw rows hold when it writes *)
(* it, however many transforms and inserts come between.                   *)

\* The orders of a minute among the rows, and their revenue.
PlacedIn(rows, t) == {o \in StreamOrders : rows[o] > 0 /\ PlacedAt[o] = t}

RevenueOf(rows, t) == [o \in PlacedIn(rows, t) |-> rows[o] * Total[o]]

MinuteRow == [count : Nat, revenue : Nat]

\* A row of the rollup that shows no more than another.
Within(a, b) == a.count <= b.count /\ a.revenue <= b.revenue

RollupInv ==
    /\ rollup \in [Minutes -> MinuteRow]
    /\ computed \in [Transforms -> {Stream!Idle} \cup [Minutes -> MinuteRow]]
    /\ \A t \in Minutes : Within(rollup[t], Stream!ByMinute[t])
    /\ \A w \in Transforms : computed[w] # Stream!Idle =>
          /\ computed[w] \in [Minutes -> MinuteRow]
          /\ \A t \in Minutes : Within(computed[w][t], Stream!ByMinute[t])

LEMMA MoreRowsMore ==
    ASSUME NEW rows \in [StreamOrders -> Nat], NEW more \in [StreamOrders -> Nat],
           \A o \in StreamOrders : rows[o] <= more[o], NEW t
    PROVE  /\ Cardinality(PlacedIn(rows, t)) \in Nat
           /\ SumFunction(RevenueOf(rows, t)) \in Nat
           /\ Cardinality(PlacedIn(rows, t)) <= Cardinality(PlacedIn(more, t))
           /\ SumFunction(RevenueOf(rows, t)) <= SumFunction(RevenueOf(more, t))
<1> DEFINE P == PlacedIn(rows, t)
           Q == PlacedIn(more, t)
           f == RevenueOf(rows, t)
           g == RevenueOf(more, t)
<1>1. P \in SUBSET Q /\ Q \in SUBSET StreamOrders
  BY DEF PlacedIn
<1>2. IsFiniteSet(P) /\ IsFiniteSet(Q) /\ Cardinality(P) <= Cardinality(Q) /\ Cardinality(P) \in Nat
  BY <1>1, FS_Subset, FS_CardinalityType, StreamAssumption
<1>3. \A o \in StreamOrders : rows[o] \in Nat /\ more[o] \in Nat /\ Total[o] \in Nat
  BY StreamAssumption
<1>4. \A o \in P : f[o] = rows[o] * Total[o]
  BY DEF RevenueOf
<1>5. \A o \in Q : g[o] = more[o] * Total[o]
  BY DEF RevenueOf
<1>6. \A a, b, c \in Nat : a * c \in Nat /\ (a <= b => a * c <= b * c)
  OBVIOUS
<1>7. \A o \in P : f[o] \in Nat /\ f[o] <= g[o]
  BY <1>1, <1>3, <1>4, <1>5, <1>6
<1>8. \A o \in Q : g[o] \in Nat
  BY <1>1, <1>3, <1>5, <1>6
<1>9. SumFunction(f) = SumFunctionOnSet(f, P) /\ SumFunction(g) = SumFunctionOnSet(g, Q)
  BY DEF SumFunction, RevenueOf
<1> HIDE DEF P, Q, f, g
<1>10. SumFunctionOnSet(f, P) \in Nat /\ SumFunctionOnSet(g, P) \in Nat
       /\ SumFunctionOnSet(g, Q) \in Nat
  BY <1>1, <1>2, <1>7, <1>8, SumIsNat
<1>11. SumFunctionOnSet(f, P) <= SumFunctionOnSet(g, P)
  <2>1. \A o \in P : f[o] \in Int /\ g[o] \in Int /\ f[o] <= g[o]
    BY <1>1, <1>7, <1>8
  <2> QED BY <1>2, <2>1, SumOfLargerValues
<1>12. SumFunctionOnSet(g, P) <= SumFunctionOnSet(g, Q)
  BY <1>1, <1>2, <1>8, SumOfPart
<1>13. SumFunction(f) \in Nat /\ SumFunction(f) <= SumFunction(g)
  BY <1>9, <1>10, <1>11, <1>12
<1> QED BY <1>2, <1>13 DEF P, Q, f, g

\* The operators of the library are the same seen through the instance.
LEMMA SameOperators ==
    /\ \A S : Stream!Cardinality(S) = Cardinality(S)
    /\ \A f : Stream!SumFunction(f) = SumFunction(f)
<1>1. \A S : Stream!Cardinality(S) = Cardinality(S)
  BY DEF Stream!Cardinality, Cardinality
<1>2. \A f : Stream!SumFunction(f) = SumFunction(f)
  BY DEF Stream!SumFunction, Stream!SumFunctionOnSet, Stream!FoldFunctionOnSet,
         Stream!MapThenFoldSet, SumFunction, SumFunctionOnSet, FoldFunctionOnSet, MapThenFoldSet
<1> QED BY <1>1, <1>2

LEMMA ByMinuteIs ==
    \A t \in Minutes : Stream!ByMinute[t] = [count   |-> Cardinality(PlacedIn(raw, t)),
                                             revenue |-> SumFunction(RevenueOf(raw, t))]
BY SameOperators DEF Stream!ByMinute, PlacedIn, RevenueOf

LEMMA ByMinuteType == ASSUME Stream!TypeOK PROVE Stream!ByMinute \in [Minutes -> MinuteRow]
<1>1. ASSUME NEW t \in Minutes PROVE Stream!ByMinute[t] \in MinuteRow
  <2>1. Cardinality(PlacedIn(raw, t)) \in Nat /\ SumFunction(RevenueOf(raw, t)) \in Nat
    BY MoreRowsMore DEF Stream!TypeOK
  <2>2. Stream!ByMinute[t] = [count   |-> Cardinality(PlacedIn(raw, t)),
                              revenue |-> SumFunction(RevenueOf(raw, t))]
    BY ByMinuteIs
  <2>3. \A n, m \in Nat : [count |-> n, revenue |-> m] \in MinuteRow
    BY DEF MinuteRow
  <2> QED BY <2>1, <2>2, <2>3
<1>2. Stream!ByMinute = [t \in Minutes |-> Stream!ByMinute[t]]
  BY DEF Stream!ByMinute
<1> QED BY <1>1, <1>2

\* What was within the raw rows stays within them.
LEMMA RowsKeepWithin ==
    ASSUME Stream!TypeOK, Stream!TypeOK', \A o \in StreamOrders : raw[o] <= raw'[o],
           NEW a \in MinuteRow, NEW t \in Minutes, Within(a, Stream!ByMinute[t])
    PROVE  Within(a, Stream!ByMinute'[t])
<1>1. Stream!ByMinute'[t] = [count   |-> Cardinality(PlacedIn(raw', t)),
                             revenue |-> SumFunction(RevenueOf(raw', t))]
  BY SameOperators DEF Stream!ByMinute, PlacedIn, RevenueOf
<1>2. /\ Cardinality(PlacedIn(raw, t)) <= Cardinality(PlacedIn(raw', t))
      /\ SumFunction(RevenueOf(raw, t)) <= SumFunction(RevenueOf(raw', t))
      /\ Cardinality(PlacedIn(raw, t)) \in Nat /\ SumFunction(RevenueOf(raw, t)) \in Nat
  BY MoreRowsMore DEF Stream!TypeOK
<1>3. Cardinality(PlacedIn(raw', t)) \in Nat /\ SumFunction(RevenueOf(raw', t)) \in Nat
  <2>1. raw' \in [StreamOrders -> Nat] /\ \A o \in StreamOrders : raw'[o] <= raw'[o]
    BY DEF Stream!TypeOK
  <2> QED BY <2>1, MoreRowsMore
<1>4. a.count \in Nat /\ a.revenue \in Nat
  BY DEF MinuteRow
<1>5. Stream!ByMinute[t] = [count   |-> Cardinality(PlacedIn(raw, t)),
                            revenue |-> SumFunction(RevenueOf(raw, t))]
  BY ByMinuteIs
<1>6. /\ a.count <= Cardinality(PlacedIn(raw, t))
      /\ a.revenue <= SumFunction(RevenueOf(raw, t))
  BY <1>5 DEF Within
<1>7. /\ a.count <= Cardinality(PlacedIn(raw', t))
      /\ a.revenue <= SumFunction(RevenueOf(raw', t))
  <2>1. \A x, y, z \in Nat : x <= y /\ y <= z => x <= z
    OBVIOUS
  <2> QED BY <1>2, <1>3, <1>4, <1>6, <2>1
<1> QED BY <1>1, <1>7 DEF Within

LEMMA RowsKeepRollup ==
    ASSUME Stream!TypeOK, Stream!TypeOK', RollupInv, \A o \in StreamOrders : raw[o] <= raw'[o],
           UNCHANGED <<computed, rollup>>
    PROVE  RollupInv'
<1>1. Stream!Idle' = Stream!Idle
  BY DEF Stream!Idle
<1>2. \A t \in Minutes : Within(rollup'[t], Stream!ByMinute'[t])
  BY RowsKeepWithin DEF RollupInv
<1>3. ASSUME NEW w \in Transforms, computed[w] # Stream!Idle, NEW t \in Minutes
      PROVE  Within(computed[w][t], Stream!ByMinute'[t])
  BY <1>3, RowsKeepWithin DEF RollupInv
<1> QED BY <1>1, <1>2, <1>3 DEF RollupInv

LEMMA ComputeRollup ==
    ASSUME Stream!TypeOK, RollupInv, NEW w \in Transforms, Stream!Compute(w)
    PROVE  RollupInv'
<1>1. /\ computed' = [computed EXCEPT ![w] = Stream!ByMinute]
      /\ raw' = raw /\ rollup' = rollup
  BY DEF Stream!Compute
<1>2. Stream!ByMinute' = Stream!ByMinute /\ Stream!Idle' = Stream!Idle
  BY <1>1 DEF Stream!ByMinute, Stream!Idle
<1>3. Stream!ByMinute \in [Minutes -> MinuteRow]
  BY ByMinuteType
<1>4. \A t \in Minutes : Within(Stream!ByMinute[t], Stream!ByMinute[t])
  BY <1>3 DEF Within, MinuteRow
<1> QED BY <1>1, <1>2, <1>3, <1>4 DEF RollupInv

LEMMA WriteRollup ==
    ASSUME RollupInv, NEW w \in Transforms, Stream!Write(w)
    PROVE  RollupInv'
<1>1. /\ computed[w] # Stream!Idle
      /\ rollup' = [t \in Minutes |-> IF computed[w][t].count > 0
                                   THEN computed[w][t]
                                   ELSE rollup[t]]
      /\ computed' = [computed EXCEPT ![w] = Stream!Idle]
      /\ raw' = raw
  BY DEF Stream!Write, Stream!Upsert
<1>2. Stream!ByMinute' = Stream!ByMinute /\ Stream!Idle' = Stream!Idle
  BY <1>1 DEF Stream!ByMinute, Stream!Idle
<1>3. /\ computed[w] \in [Minutes -> MinuteRow]
      /\ \A t \in Minutes : Within(computed[w][t], Stream!ByMinute[t])
  BY <1>1 DEF RollupInv
<1>4. /\ rollup' \in [Minutes -> MinuteRow]
      /\ \A t \in Minutes : Within(rollup'[t], Stream!ByMinute[t])
  BY <1>1, <1>3 DEF RollupInv
<1>5. computed' \in [Transforms -> {Stream!Idle} \cup [Minutes -> MinuteRow]]
  BY <1>1 DEF RollupInv
<1> QED BY <1>1, <1>2, <1>4, <1>5 DEF RollupInv

LEMMA NextRollup ==
    ASSUME StreamInv, StreamInv', RollupInv, [Stream!Next]_(Stream!vars)
    PROVE  RollupInv'
<1>1. Stream!TypeOK /\ Stream!TypeOK'
  BY DEF StreamInv
<1>2. ASSUME NEW w \in Transforms, Stream!Compute(w) \/ Stream!Write(w) PROVE RollupInv'
  BY <1>1, <1>2, ComputeRollup, WriteRollup
<1>3. ASSUME UNCHANGED raw PROVE \A o \in StreamOrders : raw[o] <= raw'[o]
  BY <1>1, <1>3 DEF Stream!TypeOK
<1>4. CASE Stream!Insert
  <2>1. \A o \in StreamOrders : raw[o] <= raw'[o]
    <3>1. raw' = [raw EXCEPT ![log[position + 1]] = IF @ = 0 THEN 1 ELSE @]
      BY <1>4 DEF Stream!Insert, Stream!InsertRaw
    <3> QED BY <1>1, <3>1 DEF Stream!TypeOK
  <2>2. UNCHANGED <<computed, rollup>>
    BY <1>4 DEF Stream!Insert
  <2> QED BY <1>1, <2>1, <2>2, RowsKeepRollup
<1>5. ASSUME NEW o \in StreamOrders, Stream!Produce(o) PROVE UNCHANGED <<raw, computed, rollup>>
  BY <1>5 DEF Stream!Produce
<1>6. \/ Stream!SendAgain \/ Stream!Done \/ Stream!CommitOffsets \/ Stream!End \/ Stream!Start
      \/ UNCHANGED Stream!vars
      => UNCHANGED <<raw, computed, rollup>>
  BY DEF Stream!SendAgain, Stream!Done, Stream!CommitOffsets, Stream!End, Stream!Start, Stream!vars
<1>7. CASE UNCHANGED <<raw, computed, rollup>>
  BY <1>1, <1>3, <1>7, RowsKeepRollup
<1> QED BY <1>2, <1>4, <1>5, <1>6, <1>7 DEF Stream!Next

LEMMA InitRollup == ASSUME Stream!Init PROVE RollupInv
<1>1. /\ raw = [o \in StreamOrders |-> 0]
      /\ computed = [w \in Transforms |-> Stream!Idle]
      /\ rollup = [t \in Minutes |-> [count |-> 0, revenue |-> 0]]
  BY DEF Stream!Init, Stream!NoRow
<1>2. \A t \in Minutes :
        Cardinality(PlacedIn(raw, t)) \in Nat /\ SumFunction(RevenueOf(raw, t)) \in Nat
  <2>1. raw \in [StreamOrders -> Nat]
    BY <1>1
  <2>2. \A o \in StreamOrders : raw[o] <= raw[o]
    BY <2>1
  <2> QED BY <2>1, <2>2, MoreRowsMore
<1>3. \A t \in Minutes : Within([count |-> 0, revenue |-> 0], Stream!ByMinute[t])
  <2> TAKE t \in Minutes
  <2>1. Stream!ByMinute[t] = [count   |-> Cardinality(PlacedIn(raw, t)),
                              revenue |-> SumFunction(RevenueOf(raw, t))]
    BY ByMinuteIs
  <2>2. 0 <= Cardinality(PlacedIn(raw, t)) /\ 0 <= SumFunction(RevenueOf(raw, t))
    <3>1. \A n \in Nat : 0 <= n
      OBVIOUS
    <3> QED BY <1>2, <3>1
  <2> QED BY <2>1, <2>2 DEF Within
<1>4. rollup \in [Minutes -> MinuteRow]
  BY <1>1 DEF MinuteRow
<1>5. computed \in [Transforms -> {Stream!Idle} \cup [Minutes -> MinuteRow]]
  BY <1>1
<1> QED BY <1>1, <1>3, <1>4, <1>5 DEF RollupInv

\* What becomes of an order between the topic and the rollup: an offset is
\* committed only after its row is in, and the rollup never shows more than
\* the raw rows hold, though transforms overlap with inserts and with each
\* other (elt_transform.sql:9, "re-run it any time").
THEOREM RollupWithinRows == Stream!Spec => []StreamAccounted
<1>1. Stream!Init => RollupInv
  BY InitRollup
<1>2. StreamInv /\ StreamInv' /\ RollupInv /\ [Stream!Next]_(Stream!vars) => RollupInv'
  BY NextRollup
<1>3. RollupInv => Stream!RollupNeverAhead
  BY DEF RollupInv, Stream!RollupNeverAhead, Within
<1> QED
  BY <1>1, <1>2, <1>3, StreamSpecInv, CommittedRowsAreIn, PTL
  DEF Stream!Spec, StreamAccounted, Stream!StreamAccounted

=============================================================================
