-------------------------- MODULE ImageCacheProofs --------------------------
(***************************************************************************)
(* Theorems about the image cache: types, and the agreement of the index   *)
(* in memory, the files on disk and the downloads under way.               *)
(***************************************************************************)
EXTENDS ImageCacheProperties, SumTheorems, TLAPS

-----------------------------------------------------------------------------
(* Types *)

\* An eviction takes what the index has, and spares what is protected.
LEMMA PlanIsIndexed ==
    ASSUME NEW index, NEW protected
    PROVE  PlanEviction(index, protected) \subseteq DOMAIN index \ protected
BY DEF PlanEviction

LEMMA WithoutIndexed ==
    ASSUME NEW S, items' = Without(items, S)
    PROVE  /\ DOMAIN items' = DOMAIN items \ S
           /\ \A k \in DOMAIN items' : items'[k] = items[k]
BY DEF Without, Restrict

\* What a batch begins with.
LEMMA BeginFacts ==
    ASSUME NEW c \in Callers, NEW rest, Begin(c, rest)
    PROVE  \E b \in SUBSET rest :
              /\ call' = [call EXCEPT ![c] =
                            [rest |-> rest \ b, batch |-> b, left |-> b, arrived |-> {}]]
              /\ files' = files \ b
              /\ inFlight' = inFlight \cup b
              /\ torn' = (torn \ b) \cup (b \cap (Arrived \cup DOMAIN items))
              /\ gone' = gone \ b
              /\ UNCHANGED <<items, initialized, now, overdue>>
BY DEF Begin, kSubset

LEMMA BeginTypeOK ==
    ASSUME TypeOK, NEW c \in Callers, NEW rest \in SUBSET Keys, Begin(c, rest)
    PROVE  TypeOK'
<1>1. PICK b \in SUBSET rest :
         /\ call' = [call EXCEPT ![c] =
                       [rest |-> rest \ b, batch |-> b, left |-> b, arrived |-> {}]]
         /\ files' = files \ b
         /\ inFlight' = inFlight \cup b
         /\ torn' = (torn \ b) \cup (b \cap (Arrived \cup DOMAIN items))
         /\ gone' = gone \ b
         /\ UNCHANGED <<items, initialized, now, overdue>>
  BY BeginFacts
<1>2. call' \in [Callers -> Call]
  BY <1>1 DEF TypeOK, Call
<1>3. torn' \subseteq Keys
  BY <1>1 DEF TypeOK
<1> QED BY <1>1, <1>2, <1>3 DEF TypeOK, Item

LEMMA SettleType ==
    ASSUME TypeOK, NEW c \in Callers, NEW k \in Keys, Settle(c, k)
    PROVE  call' \in [Callers -> Call]
BY DEF TypeOK, Settle, Call

LEMMA CallTypeOK ==
    ASSUME TypeOK, NEW c \in Callers,
           CallStep(c) \/ \E wanted \in Requests : Ensure(c, wanted)
    PROVE  TypeOK'
<1>1. CASE \E wanted \in Requests : Ensure(c, wanted)
  <2>1. PICK wanted \in Requests : Ensure(c, wanted)
    BY <1>1
  <2>2. Missing(wanted) \in SUBSET Keys
    BY CacheAssumption DEF Missing
  <2> QED BY <2>1, <2>2, BeginTypeOK DEF Ensure
<1>2. CASE NextBatch(c)
  <2>1. call[c].rest \in SUBSET Keys
    BY DEF TypeOK, Call
  <2> QED BY <1>2, <2>1, BeginTypeOK DEF NextBatch
<1>3. CASE EnforceBudget(c)
  <2> DEFINE evicted == PlanEviction(items, call[c].batch)
  <2>1. evicted \subseteq DOMAIN items
    BY PlanIsIndexed
  <2>2. /\ DOMAIN items' = DOMAIN items \ evicted
        /\ \A k \in DOMAIN items' : items'[k] = items[k]
    <3>1. items' = Without(items, evicted)
      BY <1>3 DEF EnforceBudget
    <3> HIDE DEF evicted
    <3> QED BY <3>1, WithoutIndexed
  <2>3. call' \in [Callers -> Call]
    BY <1>3 DEF EnforceBudget, TypeOK, Call
  <2>4. files' \subseteq Keys /\ torn' \subseteq Keys /\ overdue' \in BOOLEAN
    BY <1>3, <2>1 DEF EnforceBudget, TypeOK
  <2>5. UNCHANGED <<inFlight, initialized, now, gone>>
    BY <1>3 DEF EnforceBudget
  <2> QED BY <2>2, <2>3, <2>4, <2>5 DEF TypeOK, Item
<1>4. CASE \E k \in Keys : FileArrives(c, k)
  <2>1. PICK k \in Keys : FileArrives(c, k)
    BY <1>4
  <2>2. call' \in [Callers -> Call]
    BY <2>1 DEF FileArrives, TypeOK, Call
  <2> QED BY <2>1, <2>2 DEF FileArrives, TypeOK, Item
<1>5. CASE \E k \in Keys : Downloaded(c, k)
  <2>1. PICK k \in Keys : Downloaded(c, k)
    BY <1>5
  <2>2. [sizeBytes |-> IF k \in files THEN Size[k] ELSE 0, lastAccessAt |-> now] \in Item
    BY CacheAssumption DEF Item, TypeOK
  <2>3. DOMAIN items' \subseteq Keys /\ \A j \in DOMAIN items' : items'[j] \in Item
    BY <2>1, <2>2 DEF Downloaded, Indexed, TypeOK
  <2> QED BY <2>1, <2>3, SettleType DEF Downloaded, TypeOK, Item, historyVars
<1>6. CASE \E k \in Keys : DownloadFails(c, k)
  BY <1>6, SettleType DEF DownloadFails, TypeOK, Item, historyVars
<1> QED BY <1>1, <1>2, <1>3, <1>4, <1>5, <1>6 DEF CallStep

LEMMA OtherTypeOK ==
    ASSUME TypeOK,
           \/ \E ks \in Requests : Touch(ks)
           \/ \E ks \in Drops : Drop(ks)
           \/ Clear \/ Start \/ Crash \/ Tick
    PROVE  TypeOK'
<1>1. CASE \E ks \in Requests : Touch(ks)
  <2>1. PICK ks \in Requests : Touch(ks)
    BY <1>1
  <2>2. DOMAIN items' = DOMAIN items
    BY <2>1 DEF Touch
  <2>3. \A k \in DOMAIN items : items'[k] \in Item
    BY <2>1 DEF Touch, TypeOK, Item
  <2> QED BY <2>1, <2>2, <2>3 DEF Touch, TypeOK, Item, historyVars
<1>2. CASE \E ks \in Drops : Drop(ks)
  <2>1. PICK ks \in Drops : Drop(ks)
    BY <1>2
  <2>2. ks \subseteq Keys
    BY CacheAssumption
  <2>3. /\ DOMAIN items' = DOMAIN items \ ks
        /\ \A k \in DOMAIN items' : items'[k] = items[k]
    BY <2>1, WithoutIndexed DEF Drop
  <2> QED BY <2>1, <2>2, <2>3 DEF Drop, TypeOK, Item
<1>3. CASE Clear
  <2>1. DOMAIN items' = {}
    BY <1>3, WithoutIndexed DEF Clear
  <2> QED BY <1>3, <2>1 DEF Clear, TypeOK, Item
<1>4. CASE Start
  <2>1. PICK at \in [files -> 0 .. now] :
          items' = [k \in files |-> [sizeBytes |-> Size[k], lastAccessAt |-> at[k]]]
    BY <1>4 DEF Start
  <2>2. \A k \in files : items'[k] \in Item
    <3> SUFFICES ASSUME NEW k \in files PROVE items'[k] \in Item
      OBVIOUS
    <3>1. at[k] \in 0 .. MaxNow
      BY <2>1, CacheAssumption DEF TypeOK
    <3>2. Size[k] \in Nat
      BY CacheAssumption DEF TypeOK
    <3> QED BY <2>1, <3>1, <3>2 DEF Item
  <2> QED BY <1>4, <2>1, <2>2 DEF Start, TypeOK, Item, historyVars
<1>5. CASE Crash
  <2>1. DOMAIN items' = {}
    BY <1>5 DEF Crash, Empty
  <2>2. call' \in [Callers -> Call]
    BY <1>5 DEF Crash, Idle, Call
  <2>3. overdue' \in BOOLEAN
    BY <1>5, Zenon DEF Crash
  <2> QED BY <1>5, <2>1, <2>2, <2>3 DEF Crash, TypeOK, Item
<1>6. CASE Tick
  <2>1. now' \in 0 .. MaxNow
    BY <1>6, CacheAssumption DEF Tick, TypeOK
  <2> QED BY <1>6, <2>1 DEF Tick, TypeOK, memoryVars, historyVars
<1> QED BY <1>1, <1>2, <1>3, <1>4, <1>5, <1>6

LEMMA InitTypeOK == Init => TypeOK
<1> SUFFICES ASSUME Init PROVE TypeOK
  OBVIOUS
<1>1. DOMAIN items = {}
  BY DEF Init, Empty
<1>2. call \in [Callers -> Call]
  BY DEF Init, Idle, Call
<1>3. now \in 0 .. MaxNow
  BY CacheAssumption DEF Init
<1> QED BY <1>1, <1>2, <1>3 DEF Init, TypeOK

LEMMA NextTypeOK == TypeOK /\ [Next]_vars => TypeOK'
<1> SUFFICES ASSUME TypeOK, [Next]_vars PROVE TypeOK'
  OBVIOUS
<1>1. CASE Next
  BY <1>1, CallTypeOK, OtherTypeOK DEF Next
<1>2. CASE UNCHANGED vars
  BY <1>2 DEF vars, memoryVars, historyVars, TypeOK, Item
<1> QED BY <1>1, <1>2

\* Every variable keeps its type, whatever overlaps, fails or is killed.
THEOREM TypeCorrect == Spec => []TypeOK
BY InitTypeOK, NextTypeOK, PTL DEF Spec

-----------------------------------------------------------------------------
(* Index, disk and downloads *)

\* What a call awaits belongs to its batch, and what has arrived is awaited.
Nested == \A c \in Callers : /\ call[c].arrived \subseteq call[c].left
                             /\ call[c].left \subseteq call[c].batch

\* The disk from both sides: a file is indexed or about to be, and whatever is
\* indexed or about to be is a file or was taken away.
DiskInv == /\ initialized => files \subseteq DOMAIN items \cup Arrived
           /\ DOMAIN items \cup Arrived \subseteq files \cup torn

\* What is gone is neither on disk nor on its way there.
GoneInv == gone \cap (files \cup Awaited) = {}

CacheInv == Nested /\ DiskInv /\ GoneInv /\ NoStuckKey

LEMMA BeginKeeps ==
    ASSUME TypeOK, CacheInv, NEW c \in Callers, NEW rest \in SUBSET Keys,
           call[c].batch = {}, Begin(c, rest)
    PROVE  CacheInv'
<1>1. PICK b \in SUBSET rest :
         /\ call' = [call EXCEPT ![c] =
                       [rest |-> rest \ b, batch |-> b, left |-> b, arrived |-> {}]]
         /\ files' = files \ b
         /\ inFlight' = inFlight \cup b
         /\ torn' = (torn \ b) \cup (b \cap (Arrived \cup DOMAIN items))
         /\ gone' = gone \ b
         /\ UNCHANGED <<items, initialized, now, overdue>>
  BY BeginFacts
<1>2. call[c].left = {} /\ call[c].arrived = {}
  BY DEF CacheInv, Nested
<1>3. /\ call'[c].batch = b /\ call'[c].left = b /\ call'[c].arrived = {}
      /\ \A d \in Callers \ {c} : call'[d] = call[d]
  BY <1>1 DEF TypeOK
<1>4. Awaited' = Awaited \cup b /\ Arrived' = Arrived
  BY <1>2, <1>3 DEF Awaited, Arrived
<1>5. Nested'
  BY <1>3 DEF CacheInv, Nested
<1> QED BY <1>1, <1>4, <1>5 DEF CacheInv, DiskInv, GoneInv, NoStuckKey

\* A download that ends, well or not, is not awaited by this call any more.
LEMMA SettleFacts ==
    ASSUME TypeOK, CacheInv, NEW c \in Callers, NEW k \in Keys, Settle(c, k)
    PROVE  /\ Nested'
           /\ Awaited' \subseteq Awaited /\ Awaited \ {k} \subseteq Awaited'
           /\ Arrived' \subseteq Arrived /\ Arrived \ {k} \subseteq Arrived'
           /\ k \notin call[c].arrived => Arrived' = Arrived
<1>1. /\ call'[c].left = call[c].left \ {k}
      /\ call'[c].arrived = call[c].arrived \ {k}
      /\ call'[c].batch = call[c].batch
      /\ \A d \in Callers \ {c} : call'[d] = call[d]
  BY DEF Settle, TypeOK, Call
<1>2. Nested'
  BY <1>1 DEF CacheInv, Nested
<1> QED BY <1>1, <1>2 DEF Awaited, Arrived

LEMMA CallKeeps ==
    ASSUME TypeOK, CacheInv, NEW c \in Callers,
           CallStep(c) \/ \E wanted \in Requests : Ensure(c, wanted)
    PROVE  CacheInv'
<1>1. CASE \E wanted \in Requests : Ensure(c, wanted)
  <2>1. PICK wanted \in Requests : Ensure(c, wanted)
    BY <1>1
  <2>2. Missing(wanted) \in SUBSET Keys
    BY CacheAssumption DEF Missing
  <2> QED BY <2>1, <2>2, BeginKeeps DEF Ensure, Idle
<1>2. CASE NextBatch(c)
  <2>1. call[c].rest \in SUBSET Keys
    BY DEF TypeOK, Call
  <2> QED BY <1>2, <2>1, BeginKeeps DEF NextBatch
<1>3. CASE EnforceBudget(c)
  <2> DEFINE evicted == PlanEviction(items, call[c].batch)
  <2>1. evicted \subseteq DOMAIN items
    BY PlanIsIndexed
  <2>2. /\ items' = Without(items, evicted)
        /\ files' = files \ evicted
        /\ torn' = torn \cup (evicted \cap Arrived)
        /\ call' = [call EXCEPT ![c].batch = {}]
        /\ call[c].left = {}
        /\ UNCHANGED <<inFlight, initialized, now, gone>>
    BY <1>3 DEF EnforceBudget
  <2> HIDE DEF evicted
  <2>3. DOMAIN items' = DOMAIN items \ evicted
    BY <2>2, WithoutIndexed
  <2>4. /\ call'[c].left = call[c].left
        /\ call'[c].arrived = call[c].arrived
        /\ \A d \in Callers \ {c} : call'[d] = call[d]
    BY <2>2 DEF TypeOK, Call
  <2>5. Awaited' = Awaited /\ Arrived' = Arrived
    BY <2>4 DEF Awaited, Arrived
  <2>6. Nested'
    BY <2>2, <2>4 DEF CacheInv, Nested
  <2> QED BY <2>1, <2>2, <2>3, <2>5, <2>6 DEF CacheInv, DiskInv, GoneInv, NoStuckKey
<1>4. CASE \E k \in Keys : FileArrives(c, k)
  <2>1. PICK k \in Keys : FileArrives(c, k)
    BY <1>4
  <2>2. /\ call'[c].left = call[c].left
        /\ call'[c].batch = call[c].batch
        /\ call'[c].arrived = call[c].arrived \cup {k}
        /\ \A d \in Callers \ {c} : call'[d] = call[d]
    BY <2>1 DEF FileArrives, TypeOK, Call
  <2>3. Awaited' = Awaited /\ Arrived' = Arrived \cup {k} /\ k \in Awaited
    BY <2>1, <2>2 DEF Awaited, Arrived, FileArrives
  <2>4. Nested'
    BY <2>1, <2>2 DEF CacheInv, Nested, FileArrives
  <2> QED BY <2>1, <2>3, <2>4 DEF FileArrives, CacheInv, DiskInv, GoneInv, NoStuckKey
<1>5. CASE \E k \in Keys : Downloaded(c, k)
  <2>1. PICK k \in Keys : Downloaded(c, k)
    BY <1>5
  <2>2. DOMAIN items' = DOMAIN items \cup {k}
    BY <2>1 DEF Downloaded, Indexed
  <2>3. k \in Arrived
    BY <2>1 DEF Downloaded, Arrived
  <2> QED BY <2>1, <2>2, <2>3, SettleFacts
          DEF Downloaded, historyVars, CacheInv, DiskInv, GoneInv, NoStuckKey
<1>6. CASE \E k \in Keys : DownloadFails(c, k)
  BY <1>6, SettleFacts
     DEF DownloadFails, historyVars, CacheInv, DiskInv, GoneInv, NoStuckKey
<1> QED BY <1>1, <1>2, <1>3, <1>4, <1>5, <1>6 DEF CallStep

LEMMA OtherKeeps ==
    ASSUME TypeOK, CacheInv,
           \/ \E ks \in Requests : Touch(ks)
           \/ \E ks \in Drops : Drop(ks)
           \/ Clear \/ Start \/ Crash \/ Tick \/ UNCHANGED vars
    PROVE  CacheInv'
<1> USE DEF CacheInv, Nested, DiskInv, GoneInv, NoStuckKey, Awaited, Arrived
<1>1. CASE \E ks \in Requests : Touch(ks)
  BY <1>1 DEF Touch, historyVars
<1>2. CASE \E ks \in Drops : Drop(ks)
  <2>1. PICK ks \in Drops : Drop(ks)
    BY <1>2
  <2>2. DOMAIN items' = DOMAIN items \ ks
    BY <2>1, WithoutIndexed DEF Drop
  <2> QED BY <2>1, <2>2 DEF Drop
<1>3. CASE Clear
  <2>1. DOMAIN items' = {}
    BY <1>3, WithoutIndexed DEF Clear
  <2>2. Arrived \subseteq Awaited
    OBVIOUS
  <2> QED BY <1>3, <2>1, <2>2 DEF Clear
<1>4. CASE Start
  <2>1. DOMAIN items' = files
    BY <1>4 DEF Start
  <2> QED BY <1>4, <2>1 DEF Start, historyVars
<1>5. CASE Crash
  <2>1. DOMAIN items' = {}
    BY <1>5 DEF Crash, Empty
  <2>2. \A c \in Callers : call'[c] = Idle
    BY <1>5 DEF Crash
  <2> QED BY <1>5, <2>1, <2>2 DEF Crash, Idle
<1>6. CASE Tick \/ UNCHANGED vars
  BY <1>6 DEF Tick, vars, memoryVars, historyVars
<1> QED BY <1>1, <1>2, <1>3, <1>4, <1>5, <1>6

LEMMA CacheInvInit == Init => CacheInv
<1> SUFFICES ASSUME Init PROVE CacheInv
  OBVIOUS
<1>1. DOMAIN items = {}
  BY DEF Init, Empty
<1>2. \A c \in Callers : call[c] = Idle
  BY DEF Init
<1> QED
  BY <1>1, <1>2 DEF Init, Idle, CacheInv, Nested, DiskInv, GoneInv, NoStuckKey, Awaited, Arrived

LEMMA CacheInvNext == TypeOK /\ CacheInv /\ [Next]_vars => CacheInv'
BY CallKeeps, OtherKeeps DEF Next

\* The invariant the theorems below follow from.
LEMMA CacheInvHolds == Spec => [](TypeOK /\ CacheInv)
BY CacheInvInit, CacheInvNext, TypeCorrect, PTL DEF Spec

\* What the index has is on disk, but for files a later call took away.
THEOREM IndexIsOnDisk == Spec => []IndexedIsOnDisk
<1>1. CacheInv => IndexedIsOnDisk
  BY DEF CacheInv, DiskInv, IndexedIsOnDisk
<1> QED BY <1>1, CacheInvHolds, PTL

\* No file escapes the index, whatever is killed or lost.
THEOREM NoFileEscapes == Spec => []DiskIsIndexed
<1>1. CacheInv => DiskIsIndexed
  BY DEF CacheInv, Nested, DiskInv, DiskIsIndexed, Awaited, Arrived
<1> QED BY <1>1, CacheInvHolds, PTL

\* A key is marked as in flight only while a call awaits its download.
THEOREM FlagsAreLetGo == Spec => []NoStuckKey
<1>1. CacheInv => NoStuckKey
  BY DEF CacheInv
<1> QED BY <1>1, CacheInvHolds, PTL

\* An image dropped or cleared while nobody fetches it is off the disk until a
\* later download begins.
THEOREM DroppedIsGone == Spec => []DroppedStaysGone
<1>1. CacheInv => DroppedStaysGone
  BY DEF CacheInv, GoneInv, DroppedStaysGone
<1> QED BY <1>1, CacheInvHolds, PTL

-----------------------------------------------------------------------------
(* What an index holds                                                     *)

\* An index as the code has it: finite, with sizes and times, under the ids of
\* posts.
IsIndex(index) ==
    /\ IsFiniteSet(DOMAIN index) /\ DOMAIN index \subseteq Nat
    /\ \A k \in DOMAIN index : index[k].sizeBytes \in Nat /\ index[k].lastAccessAt \in Nat

Sizes(index) == [k \in DOMAIN index |-> index[k].sizeBytes]

Bytes(index, S) == SumFunctionOnSet(Sizes(index), S)

LEMMA UsageIsBytes == \A index : Usage(index) = Bytes(index, DOMAIN index)
BY DEF Usage, Bytes, Sizes, SumFunction

LEMMA BytesType ==
    ASSUME NEW index, IsIndex(index), NEW S \in SUBSET (DOMAIN index)
    PROVE  Bytes(index, S) \in Nat /\ IsFiniteSet(S)
<1>1. IsFiniteSet(S)
  BY FS_Subset DEF IsIndex
<1>2. \A k \in S : Sizes(index)[k] \in Nat
  BY DEF IsIndex, Sizes
<1> QED BY <1>1, <1>2, SumIsNat DEF Bytes

LEMMA BytesOfPart ==
    ASSUME NEW index, IsIndex(index), NEW S \in SUBSET (DOMAIN index), NEW T \in SUBSET S
    PROVE  Bytes(index, T) <= Bytes(index, S)
<1>1. IsFiniteSet(S)
  BY BytesType
<1>2. \A k \in S : Sizes(index)[k] \in Nat
  BY DEF IsIndex, Sizes
<1> QED BY <1>1, <1>2, SumOfPart DEF Bytes

LEMMA BytesOfTwo ==
    ASSUME NEW index, IsIndex(index), NEW S \in SUBSET (DOMAIN index),
           NEW T \in SUBSET (DOMAIN index), S \cap T = {}
    PROVE  Bytes(index, S \cup T) = Bytes(index, S) + Bytes(index, T)
<1>1. IsFiniteSet(S) /\ IsFiniteSet(T)
  BY BytesType
<1>2. \A k \in S \cup T : Sizes(index)[k] \in Int
  BY DEF IsIndex, Sizes
<1> QED BY <1>1, <1>2, SumOfTwoSets DEF Bytes

LEMMA BytesOfOne ==
    ASSUME NEW index, IsIndex(index), NEW k \in DOMAIN index
    PROVE  Bytes(index, {k}) = index[k].sizeBytes
<1>1. IsFiniteSet({k}) /\ \A j \in {k} : Sizes(index)[j] \in Int
  <2>1. IsFiniteSet({k})
    BY FS_Singleton
  <2>2. \A j \in {k} : Sizes(index)[j] \in Int
    BY DEF IsIndex, Sizes
  <2> QED BY <2>1, <2>2
<1>2. Bytes(index, {k}) = Sizes(index)[k] + SumFunctionOnSet(Sizes(index), {k} \ {k})
  BY <1>1, SumTakesOut DEF Bytes
<1>3. {k} \ {k} = {}
  OBVIOUS
<1>4. SumFunctionOnSet(Sizes(index), {}) = 0
  BY SumOfNothing
<1> QED BY <1>2, <1>3, <1>4 DEF Sizes, IsIndex

\* A part of an index uses what the index says of it.
LEMMA UsageOfPart ==
    ASSUME NEW index, IsIndex(index), NEW S \in SUBSET (DOMAIN index)
    PROVE  /\ DOMAIN Restrict(index, S) = S
           /\ \A k \in S : Restrict(index, S)[k] = index[k]
           /\ Usage(Restrict(index, S)) = Bytes(index, S)
<1>1. /\ DOMAIN Restrict(index, S) = S
      /\ \A k \in S : Restrict(index, S)[k] = index[k]
  BY DEF Restrict
<1>2. \A k \in S : Sizes(Restrict(index, S))[k] = Sizes(index)[k]
  BY <1>1 DEF Sizes
<1>3. IsFiniteSet(S)
  BY BytesType
<1>4. Bytes(Restrict(index, S), S) = Bytes(index, S)
  BY <1>2, <1>3, SumOfSameValues DEF Bytes
<1> QED BY <1>1, <1>4, UsageIsBytes

-----------------------------------------------------------------------------
(* What an eviction takes                                                  *)

\* The items that may go before an item, and what they would free.
Candidates(index, protected) == DOMAIN index \ protected

Earlier(index, protected, k) ==
    {j \in Candidates(index, protected) : Before(index, j, k)}

LEMMA PlanByBytes ==
    ASSUME NEW index, IsIndex(index), NEW protected
    PROVE  PlanEviction(index, protected)
             = {k \in Candidates(index, protected) :
                  Bytes(index, DOMAIN index) - Bytes(index, Earlier(index, protected, k)) > Budget}
<1>1. \A k : Usage(Restrict(index, Earlier(index, protected, k)))
               = Bytes(index, Earlier(index, protected, k))
  BY UsageOfPart DEF Earlier, Candidates
<1>2. PlanEviction(index, protected)
        = {k \in Candidates(index, protected) :
             Usage(index) - Usage(Restrict(index, Earlier(index, protected, k))) > Budget}
  BY DEF PlanEviction, Candidates, Earlier
<1> QED BY <1>1, <1>2, UsageIsBytes

\* The order of eviction is a total order of the items.
LEMMA BeforeOrders ==
    ASSUME NEW index, IsIndex(index), NEW i \in DOMAIN index, NEW j \in DOMAIN index,
           NEW k \in DOMAIN index
    PROVE  /\ ~ Before(index, i, i)
           /\ Before(index, i, j) /\ Before(index, j, k) => Before(index, i, k)
           /\ i = j \/ Before(index, i, j) \/ Before(index, j, i)
           /\ Before(index, i, j) => index[i].lastAccessAt <= index[j].lastAccessAt
BY DEF Before, IsIndex

\* What goes before something that goes, goes too.
LEMMA PlanIsDownward ==
    ASSUME NEW index, IsIndex(index), NEW protected,
           NEW k \in PlanEviction(index, protected),
           NEW j \in Candidates(index, protected), Before(index, j, k)
    PROVE  j \in PlanEviction(index, protected)
<1> DEFINE E(x) == Earlier(index, protected, x)
<1>0. k \in DOMAIN index /\ j \in DOMAIN index
  BY PlanIsIndexed DEF Candidates
<1>1. E(j) \subseteq E(k)
  BY <1>0, BeforeOrders DEF Earlier, Candidates
<1>2. E(k) \subseteq DOMAIN index /\ E(j) \subseteq DOMAIN index
  BY DEF Earlier, Candidates
<1>3. Bytes(index, E(j)) <= Bytes(index, E(k))
  BY <1>1, <1>2, BytesOfPart
<1>4. /\ Bytes(index, E(j)) \in Nat /\ Bytes(index, E(k)) \in Nat
      /\ Bytes(index, DOMAIN index) \in Nat
  BY <1>2, BytesType
<1>5. Bytes(index, DOMAIN index) - Bytes(index, E(k)) > Budget
  BY PlanByBytes
<1>6. Bytes(index, DOMAIN index) - Bytes(index, E(j)) > Budget
  <2>1. Budget \in Nat
    BY CacheAssumption
  <2> HIDE DEF E
  <2> QED BY <1>3, <1>4, <1>5, <2>1
<1> QED BY <1>6, PlanByBytes

\* Among items one goes before all others, and one after.
LEMMA FirstAndLast ==
    ASSUME NEW index, IsIndex(index), NEW S \in SUBSET (DOMAIN index), S # {}
    PROVE  /\ \E k \in S : \A j \in S : ~ Before(index, j, k)
           /\ \E k \in S : \A j \in S : ~ Before(index, k, j)
<1>1. IsFiniteSet(S)
  BY BytesType
<1>2. \E k \in S : \A j \in S : ~ Before(index, j, k)
  <2> DEFINE D(k) == {j \in S : Before(index, j, k)}
             T == {D(k) : k \in S}
  <2>1. T \in SUBSET (SUBSET S) /\ T # {}
    OBVIOUS
  <2>2. PICK x \in T : \A y \in T : y \subseteq x => y = x
    <3> HIDE DEF T
    <3> QED BY <1>1, <2>1, SmallestSubset
  <2>3. PICK k \in S : x = D(k)
    BY <2>2
  <2>4. ASSUME NEW j \in S, Before(index, j, k) PROVE FALSE
    <3>1. D(j) \subseteq D(k)
      BY <2>4, BeforeOrders
    <3>2. j \in D(k) /\ j \notin D(j)
      BY <2>4, BeforeOrders
    <3> QED BY <2>2, <2>3, <3>1, <3>2
  <2> QED BY <2>4
<1>3. \E k \in S : \A j \in S : ~ Before(index, k, j)
  <2> DEFINE D(k) == {j \in S : Before(index, k, j)}
             T == {D(k) : k \in S}
  <2>1. T \in SUBSET (SUBSET S) /\ T # {}
    OBVIOUS
  <2>2. PICK x \in T : \A y \in T : y \subseteq x => y = x
    <3> HIDE DEF T
    <3> QED BY <1>1, <2>1, SmallestSubset
  <2>3. PICK k \in S : x = D(k)
    BY <2>2
  <2>4. ASSUME NEW j \in S, Before(index, k, j) PROVE FALSE
    <3>1. D(j) \subseteq D(k)
      BY <2>4, BeforeOrders
    <3>2. j \in D(k) /\ j \notin D(j)
      BY <2>4, BeforeOrders
    <3> QED BY <2>2, <2>3, <3>1, <3>2
  <2> QED BY <2>4
<1> QED BY <1>2, <1>3

\* After an eviction the index is within the budget, or has nothing left but
\* what was protected.
LEMMA PlanMakesRoom ==
    ASSUME NEW index, IsIndex(index), NEW protected
    PROVE  \/ Usage(Without(index, PlanEviction(index, protected))) <= Budget
           \/ DOMAIN index \ PlanEviction(index, protected) \subseteq protected
<1> DEFINE P == PlanEviction(index, protected)
           R == DOMAIN index \ P
           S == Candidates(index, protected) \ P
<1>1. P \subseteq DOMAIN index /\ R \subseteq DOMAIN index /\ S \subseteq DOMAIN index
  BY PlanIsIndexed DEF Candidates
<1>2. Usage(Without(index, P)) = Bytes(index, R)
  BY <1>1, UsageOfPart DEF Without
<1>3. CASE S = {}
  BY <1>1, <1>3 DEF Candidates
<1>4. CASE S # {}
  <2>1. PICK k \in S : \A j \in S : ~ Before(index, j, k)
    BY <1>1, <1>4, FirstAndLast
  <2> DEFINE E == Earlier(index, protected, k)
  <2>2. E \subseteq P /\ E \subseteq DOMAIN index /\ R \cap E = {}
    BY <2>1 DEF Earlier, Candidates
  <2>3. ~ (Bytes(index, DOMAIN index) - Bytes(index, E) > Budget)
    BY PlanByBytes
  <2>4. R \cup E \subseteq DOMAIN index
    BY <1>1, <2>2
  <2>5. /\ Bytes(index, R) \in Nat /\ Bytes(index, E) \in Nat
        /\ Bytes(index, R \cup E) \in Nat /\ Bytes(index, DOMAIN index) \in Nat
    BY <1>1, <2>2, <2>4, BytesType
  <2>6. Bytes(index, R \cup E) = Bytes(index, R) + Bytes(index, E)
    BY <1>1, <2>2, BytesOfTwo
  <2>7. Bytes(index, R \cup E) <= Bytes(index, DOMAIN index)
    BY <2>4, BytesOfPart
  <2>8. Budget \in Nat
    BY CacheAssumption
  <2>9. Bytes(index, R) <= Budget
    <3> HIDE DEF R, E, P, S
    <3> QED BY <2>3, <2>5, <2>6, <2>7, <2>8
  <2> QED BY <1>2, <2>9
<1> QED BY <1>3, <1>4

\* It takes no more than it must: with the last that went, there was too much.
LEMMA PlanTakesNoMore ==
    ASSUME NEW index, IsIndex(index), NEW protected, PlanEviction(index, protected) # {}
    PROVE  \E e \in PlanEviction(index, protected) :
             Usage(Without(index, PlanEviction(index, protected))) + index[e].sizeBytes > Budget
<1> DEFINE P == PlanEviction(index, protected)
           R == DOMAIN index \ P
<1>1. P \subseteq DOMAIN index /\ R \subseteq DOMAIN index /\ P \subseteq Candidates(index, protected)
  BY PlanIsIndexed DEF Candidates
<1>2. Usage(Without(index, P)) = Bytes(index, R)
  BY <1>1, UsageOfPart DEF Without
<1>3. PICK e \in P : \A j \in P : ~ Before(index, e, j)
  BY <1>1, FirstAndLast
<1> DEFINE E == Earlier(index, protected, e)
<1>4. P = E \cup {e} /\ e \notin E /\ E \subseteq DOMAIN index
  <2>1. E \subseteq P
    BY PlanIsDownward DEF Earlier
  <2>2. P \subseteq E \cup {e}
    BY <1>1, <1>3, BeforeOrders DEF Earlier
  <2>3. e \notin E
    BY <1>1, BeforeOrders DEF Earlier
  <2> QED BY <1>1, <2>1, <2>2, <2>3
<1>5. Bytes(index, DOMAIN index) - Bytes(index, E) > Budget
  BY PlanByBytes
<1> HIDE DEF P, E
<1>6. Bytes(index, P) = Bytes(index, E) + Bytes(index, {e})
  <2>1. {e} \subseteq DOMAIN index /\ E \cap {e} = {}
    BY <1>1, <1>4
  <2> QED BY <1>4, <2>1, BytesOfTwo
<1>7. Bytes(index, DOMAIN index) = Bytes(index, R) + Bytes(index, P)
  <2>1. R \cap P = {} /\ R \cup P = DOMAIN index
    BY <1>1
  <2> QED BY <1>1, <2>1, BytesOfTwo
<1>8. Bytes(index, {e}) = index[e].sizeBytes
  BY <1>1, BytesOfOne
<1>9. /\ Bytes(index, R) \in Nat /\ Bytes(index, P) \in Nat /\ Bytes(index, E) \in Nat
      /\ index[e].sizeBytes \in Nat /\ Budget \in Nat
  BY <1>1, <1>4, BytesType, CacheAssumption DEF IsIndex
<1>10. Bytes(index, R) + index[e].sizeBytes > Budget
  <2> HIDE DEF R
  <2> QED BY <1>5, <1>6, <1>7, <1>8, <1>9
<1> QED BY <1>2, <1>10 DEF P

-----------------------------------------------------------------------------

LEMMA IndexOfItems ==
    ASSUME NEW index, DOMAIN index \subseteq Keys, \A k \in DOMAIN index : index[k] \in Item
    PROVE  IsIndex(index)
<1>1. IsFiniteSet(Keys) /\ Keys \subseteq Nat /\ MaxNow \in Nat
  BY CacheAssumption
<1>2. IsFiniteSet(DOMAIN index)
  BY <1>1, FS_Subset
<1>3. \A k \in DOMAIN index : index[k].sizeBytes \in Nat /\ index[k].lastAccessAt \in Nat
  BY <1>1 DEF Item
<1> QED BY <1>1, <1>2, <1>3 DEF IsIndex

LEMMA ItemsAreAnIndex == ASSUME TypeOK PROVE IsIndex(items)
BY IndexOfItems DEF TypeOK

\* An eviction takes the least recently used, spares the batch it follows, and
\* takes no more than it must (planEviction in eviction.ts).
THEOREM OldestGoFirst == Spec => EvictsOldestFirst
<1>1. ASSUME TypeOK, NEW c \in Callers, EnforceBudget(c)
      PROVE  LET kept == DOMAIN items \cap DOMAIN items'
                 evicted == DOMAIN items \ DOMAIN items'
             IN  /\ evicted \cap call[c].batch = {}
                 /\ \A e \in evicted, k \in kept \ call[c].batch :
                      items[e].lastAccessAt <= items[k].lastAccessAt
                 /\ evicted # {} =>
                      \E e \in evicted : Usage(items') + items[e].sizeBytes > Budget
  <2> DEFINE b == call[c].batch
             P == PlanEviction(items, b)
  <2>1. IsIndex(items)
    BY <1>1, ItemsAreAnIndex
  <2>2. P \subseteq DOMAIN items \ b
    BY PlanIsIndexed
  <2>3. items' = Without(items, P)
    BY <1>1 DEF EnforceBudget
  <2>4. DOMAIN items' = DOMAIN items \ P
    <3> HIDE DEF P
    <3> QED BY <2>3, WithoutIndexed
  <2>5. ASSUME NEW e \in P, NEW k \in (DOMAIN items \ P) \ b
        PROVE  items[e].lastAccessAt <= items[k].lastAccessAt
    <3>1. ~ Before(items, k, e)
      BY <2>1, <2>5, PlanIsDownward DEF Candidates
    <3>2. e \in DOMAIN items /\ k \in DOMAIN items
      BY <2>2
    <3>3. e = k \/ Before(items, e, k)
      BY <2>1, <3>1, <3>2, BeforeOrders
    <3>4. items[e].lastAccessAt \in Nat
      BY <2>1, <3>2 DEF IsIndex
    <3> QED BY <2>1, <3>2, <3>3, <3>4, BeforeOrders
  <2>6. P # {} => \E e \in P : Usage(items') + items[e].sizeBytes > Budget
    BY <2>1, <2>3, PlanTakesNoMore
  <2> HIDE DEF P
  <2>7. /\ DOMAIN items \ DOMAIN items' = P
        /\ DOMAIN items \cap DOMAIN items' = DOMAIN items \ P
    BY <2>2, <2>4
  <2> QED BY <2>2, <2>5, <2>6, <2>7
<1>2. TypeOK /\ [Next]_vars =>
        [\A c \in Callers : EnforceBudget(c) =>
           LET kept == DOMAIN items \cap DOMAIN items'
               evicted == DOMAIN items \ DOMAIN items'
           IN  /\ evicted \cap call[c].batch = {}
               /\ \A e \in evicted, k \in kept \ call[c].batch :
                    items[e].lastAccessAt <= items[k].lastAccessAt
               /\ evicted # {} =>
                    \E e \in evicted : Usage(items') + items[e].sizeBytes > Budget]_vars
  BY <1>1
<1> QED BY <1>2, TypeCorrect, PTL DEF Spec, EvictsOldestFirst

-----------------------------------------------------------------------------
(* The budget                                                              *)

\* What the batches under way have been through, and an eviction has yet to
\* weigh.
Settled == SumFunction([c \in Callers |-> SizeOf(call[c].batch \ call[c].left)])

BatchesFit == \A c \in Callers : Cardinality(call[c].batch) <= MaxParallel

\* The index says no more than an image has, and just that of a file that
\* nobody is about to index anew.
SizesInv ==
    \A k \in DOMAIN items :
        /\ items[k].sizeBytes <= Size[k]
        /\ k \in files \ Arrived => items[k].sizeBytes = Size[k]

\* A process that is down awaits nothing, and leaves files within the budget
\* unless it was killed before an eviction.
DownInv ==
    ~initialized => /\ \A c \in Callers : call[c] = Idle
                    /\ DOMAIN items = {}
                    /\ overdue \/ SizeOf(files) <= Budget

BudgetInv ==
    BatchesFit /\ SizesInv /\ DownInv /\ (overdue \/ Usage(items) <= Budget + Settled)

LEMMA SizeOfType ==
    ASSUME NEW S \in SUBSET Keys
    PROVE  IsFiniteSet(S) /\ SizeOf(S) \in Nat
<1>1. IsFiniteSet(S) /\ \A k \in S : Size[k] \in Nat
  BY CacheAssumption, FS_Subset
<1> QED BY <1>1, SumIsNat DEF SizeOf

LEMMA SizeOfPart ==
    ASSUME NEW S \in SUBSET Keys, NEW T \in SUBSET S
    PROVE  SizeOf(T) <= SizeOf(S)
<1>1. IsFiniteSet(S) /\ \A k \in S : Size[k] \in Nat
  BY CacheAssumption, FS_Subset
<1> QED BY <1>1, SumOfPart DEF SizeOf

LEMMA SizeOfMore ==
    ASSUME NEW S \in SUBSET Keys, NEW k \in Keys, k \notin S
    PROVE  SizeOf(S \cup {k}) = Size[k] + SizeOf(S)
<1>1. \A j \in Keys : Size[j] \in Nat
  BY CacheAssumption
<1>2. IsFiniteSet(S)
  BY SizeOfType
<1> QED BY <1>1, <1>2, SumAdds DEF SizeOf

\* The part of each caller in the sum.
Part(calls) == [c \in Callers |-> SizeOf(calls[c].batch \ calls[c].left)]

LEMMA PartType ==
    ASSUME NEW calls \in [Callers -> Call]
    PROVE  /\ \A c \in Callers : Part(calls)[c] \in Nat
           /\ SumFunction(Part(calls)) \in Nat
           /\ SumFunction(Part(calls)) = SumFunctionOnSet(Part(calls), Callers)
<1>1. \A c \in Callers : Part(calls)[c] \in Nat
  <2> TAKE c \in Callers
  <2>1. calls[c].batch \ calls[c].left \in SUBSET Keys
    BY DEF Call
  <2> QED BY <2>1, SizeOfType DEF Part
<1>2. SumFunction(Part(calls)) = SumFunctionOnSet(Part(calls), Callers)
  BY DEF SumFunction, Part
<1>3. SumFunctionOnSet(Part(calls), Callers) \in Nat
  BY <1>1, CacheAssumption, SumIsNat
<1> QED BY <1>1, <1>2, <1>3

LEMMA SettledIsSum == Settled = SumFunction(Part(call))
BY DEF Settled, Part

LEMMA PrimedSettled == Settled' = SumFunction(Part(call'))
BY DEF Settled, Part, SizeOf

\* A call that settles less or more than before changes the sum by as much.
LEMMA SettledChanges ==
    ASSUME TypeOK, TypeOK', NEW c \in Callers, \A d \in Callers \ {c} : call'[d] = call[d]
    PROVE  /\ Settled \in Nat /\ Settled' \in Nat
           /\ Settled' = Settled + Part(call')[c] - Part(call)[c]
<1>1. call \in [Callers -> Call] /\ call' \in [Callers -> Call]
  BY DEF TypeOK
<1>2. \A d \in Callers \ {c} : Part(call)[d] = Part(call')[d]
  BY DEF Part
<1>3. \A d \in Callers : Part(call)[d] \in Int /\ Part(call')[d] \in Int
  BY <1>1, PartType
<1>4. SumFunctionOnSet(Part(call'), Callers)
        = SumFunctionOnSet(Part(call), Callers) + Part(call')[c] - Part(call)[c]
  <2> DEFINE f == Part(call)
             g == Part(call')
  <2>1. (\A d \in Callers \ {c} : f[d] = g[d]) /\ \A d \in Callers : f[d] \in Int /\ g[d] \in Int
    BY <1>2, <1>3
  <2>2. IsFiniteSet(Callers)
    BY CacheAssumption
  <2> HIDE DEF f, g
  <2>3. SumFunctionOnSet(g, Callers) = SumFunctionOnSet(f, Callers) + g[c] - f[c]
    BY <2>1, <2>2, SumOfChange
  <2> QED BY <2>3 DEF f, g
<1> QED BY <1>1, <1>4, PartType, SettledIsSum, PrimedSettled

LEMMA SettledStays ==
    ASSUME TypeOK, UNCHANGED call
    PROVE  Settled' = Settled /\ Settled \in Nat
<1>1. call \in [Callers -> Call]
  BY DEF TypeOK
<1> QED BY <1>1, PartType, SettledIsSum, PrimedSettled

LEMMA UsageIsNat ==
    ASSUME NEW index, IsIndex(index)
    PROVE  Usage(index) \in Nat
BY BytesType, UsageIsBytes

\* An index over the same keys, or fewer, with sizes that are not larger.
LEMMA UsageShrinks ==
    ASSUME NEW index, NEW other, IsIndex(index), IsIndex(other),
           DOMAIN other \subseteq DOMAIN index,
           \A k \in DOMAIN other : other[k].sizeBytes <= index[k].sizeBytes
    PROVE  Usage(other) <= Usage(index)
<1> DEFINE D == DOMAIN other
<1>1. IsFiniteSet(D) /\ \A k \in D : Sizes(other)[k] \in Int /\ Sizes(index)[k] \in Int
                                     /\ Sizes(other)[k] <= Sizes(index)[k]
  BY DEF IsIndex, Sizes
<1>2. Bytes(other, D) <= Bytes(index, D)
  BY <1>1, SumOfLargerValues DEF Bytes
<1>3. Bytes(index, D) <= Bytes(index, DOMAIN index)
  BY BytesOfPart
<1>4. Bytes(other, D) \in Nat /\ Bytes(index, D) \in Nat /\ Bytes(index, DOMAIN index) \in Nat
  BY BytesType
<1> QED BY <1>2, <1>3, <1>4, UsageIsBytes

\* One more key, or one with another size.
LEMMA UsageOfIndexed ==
    ASSUME NEW index, NEW other, IsIndex(index), IsIndex(other), NEW k,
           DOMAIN other = DOMAIN index \cup {k},
           \A j \in DOMAIN index \ {k} : other[j] = index[j]
    PROVE  Usage(other) <= Usage(index) + other[k].sizeBytes
<1> DEFINE R == DOMAIN index \ {k}
<1>1. /\ R \in SUBSET (DOMAIN index) /\ R \in SUBSET (DOMAIN other)
      /\ {k} \in SUBSET (DOMAIN other) /\ R \cap {k} = {} /\ R \cup {k} = DOMAIN other
  OBVIOUS
<1>2. Bytes(other, R \cup {k}) = Bytes(other, R) + Bytes(other, {k})
  BY <1>1, BytesOfTwo
<1>3. Bytes(other, {k}) = other[k].sizeBytes
  BY <1>1, BytesOfOne
<1>4. Bytes(other, R) = Bytes(index, R)
  <2>1. IsFiniteSet(R) /\ \A j \in R : Sizes(other)[j] = Sizes(index)[j]
    BY <1>1, BytesType DEF Sizes
  <2> QED BY <2>1, SumOfSameValues DEF Bytes
<1>5. Bytes(index, R) <= Bytes(index, DOMAIN index)
  BY <1>1, BytesOfPart
<1>6. /\ Bytes(index, R) \in Nat /\ Bytes(index, DOMAIN index) \in Nat
      /\ other[k].sizeBytes \in Nat
  BY <1>1, BytesType DEF IsIndex
<1>7. Usage(other) = Bytes(other, R \cup {k})
  BY <1>1, UsageIsBytes
<1> HIDE DEF R
<1> QED BY <1>2, <1>3, <1>4, <1>5, <1>6, <1>7, UsageIsBytes

\* An index with the sizes of the images is as large as they are.
LEMMA UsageOfSizes ==
    ASSUME NEW index, IsIndex(index), NEW S \in SUBSET Keys, S \subseteq DOMAIN index,
           \A k \in S : index[k].sizeBytes = Size[k]
    PROVE  Bytes(index, S) = SizeOf(S)
<1>1. IsFiniteSet(S) /\ \A k \in S : Sizes(index)[k] = Size[k]
  BY SizeOfType DEF Sizes
<1> QED BY <1>1, SumOfSameValues DEF Bytes, SizeOf

\* An index is no larger than the images it has.
LEMMA UsageWithinSizes ==
    ASSUME NEW index, IsIndex(index), NEW S \in SUBSET Keys, DOMAIN index \subseteq S,
           \A k \in DOMAIN index : index[k].sizeBytes <= Size[k]
    PROVE  Usage(index) <= SizeOf(S)
<1> DEFINE D == DOMAIN index
<1>1. IsFiniteSet(D) /\ \A k \in D : Sizes(index)[k] \in Int /\ Size[k] \in Int
                                     /\ Sizes(index)[k] <= Size[k]
  BY CacheAssumption DEF IsIndex, Sizes
<1>2. Bytes(index, D) <= SizeOf(D)
  BY <1>1, SumOfLargerValues DEF Bytes, SizeOf
<1>3. SizeOf(D) <= SizeOf(S)
  BY SizeOfPart
<1>4. Bytes(index, D) \in Nat /\ SizeOf(D) \in Nat /\ SizeOf(S) \in Nat
  BY BytesType, SizeOfType
<1> QED BY <1>2, <1>3, <1>4, UsageIsBytes

-----------------------------------------------------------------------------

LEMMA BeginBudget ==
    ASSUME TypeOK, TypeOK', CacheInv, BudgetInv, NEW c \in Callers, NEW rest \in SUBSET Keys,
           call[c].batch = {}, initialized, Begin(c, rest)
    PROVE  BudgetInv'
<1>1. PICK b \in kSubset(Min({MaxParallel, Cardinality(rest)}), rest) :
        /\ call' = [call EXCEPT ![c] =
                      [rest |-> rest \ b, batch |-> b, left |-> b, arrived |-> {}]]
        /\ files' = files \ b
        /\ UNCHANGED <<items, initialized, overdue>>
  BY DEF Begin
<1>2. Cardinality(b) <= MaxParallel
  <2>1. MaxParallel \in Nat /\ Cardinality(rest) \in Nat
    BY SizeOfType, CacheAssumption, FS_CardinalityType
  <2>2. Min({MaxParallel, Cardinality(rest)}) <= MaxParallel
    BY <2>1 DEF Min
  <2> QED BY <2>2 DEF kSubset
<1>3. /\ call'[c].batch = b /\ call'[c].left = b /\ call'[c].arrived = {}
      /\ \A d \in Callers \ {c} : call'[d] = call[d]
  BY <1>1 DEF TypeOK
<1>4. BatchesFit'
  BY <1>2, <1>3 DEF BudgetInv, BatchesFit
<1>5. call[c].left = {} /\ call[c].arrived = {}
  BY DEF CacheInv, Nested
<1>6. Arrived' = Arrived
  BY <1>3, <1>5 DEF Arrived
<1>7. SizesInv'
  BY <1>1, <1>6 DEF BudgetInv, SizesInv
<1>8. Settled' = Settled
  <2>1. call[c].batch \ call[c].left = call'[c].batch \ call'[c].left
    BY <1>3, <1>5
  <2>2. Part(call')[c] = Part(call)[c]
    BY <2>1 DEF Part
  <2>3. Part(call)[c] \in Nat
    BY PartType DEF TypeOK
  <2> QED BY <1>3, <2>2, <2>3, SettledChanges
<1> QED BY <1>1, <1>4, <1>7, <1>8 DEF BudgetInv, DownInv, Usage

LEMMA SettleBudget ==
    ASSUME TypeOK, TypeOK', CacheInv, NEW c \in Callers, NEW k \in Keys,
           k \in call[c].left, Settle(c, k)
    PROVE  /\ Settled' = Settled + Size[k]
           /\ Settled \in Nat
           /\ \A d \in Callers : call'[d].batch = call[d].batch
<1>1. /\ call'[c].left = call[c].left \ {k}
      /\ call'[c].batch = call[c].batch
      /\ \A d \in Callers \ {c} : call'[d] = call[d]
  BY DEF Settle, TypeOK, Call
<1> DEFINE S == call[c].batch \ call[c].left
<1>2. S \in SUBSET Keys /\ k \notin S
  BY DEF TypeOK, Call
<1>3. call'[c].batch \ call'[c].left = S \cup {k}
  BY <1>1 DEF CacheInv, Nested
<1>4. Part(call')[c] = Size[k] + Part(call)[c]
  <2>1. SizeOf(S \cup {k}) = Size[k] + SizeOf(S)
    BY <1>2, SizeOfMore
  <2> QED BY <1>3, <2>1 DEF Part
<1>5. Part(call)[c] \in Nat /\ Size[k] \in Nat
  BY PartType, CacheAssumption DEF TypeOK
<1> QED BY <1>1, <1>4, <1>5, SettledChanges

LEMMA CallBudget ==
    ASSUME TypeOK, TypeOK', CacheInv, BudgetInv, NEW c \in Callers,
           CallStep(c) \/ \E wanted \in Requests : Ensure(c, wanted)
    PROVE  BudgetInv'
<1>0. IsIndex(items) /\ IsIndex(items') /\ Usage(items) \in Nat /\ Budget \in Nat
      /\ Usage(items') \in Nat /\ call \in [Callers -> Call] /\ call' \in [Callers -> Call]
  <2>1. IsIndex(items)
    BY ItemsAreAnIndex
  <2>2. IsIndex(items')
    <3>1. DOMAIN items' \subseteq Keys /\ \A k \in DOMAIN items' : items'[k] \in Item
      BY DEF TypeOK, Item
    <3> QED BY <3>1, IndexOfItems
  <2> QED BY <2>1, <2>2, UsageIsNat, CacheAssumption DEF TypeOK
<1>1. CASE \E wanted \in Requests : Ensure(c, wanted)
  <2>1. PICK wanted \in Requests : Ensure(c, wanted)
    BY <1>1
  <2>2. Missing(wanted) \in SUBSET Keys
    BY CacheAssumption DEF Missing
  <2> QED BY <2>1, <2>2, BeginBudget DEF Ensure, Idle
<1>2. ASSUME call[c] # Idle PROVE initialized
  BY <1>2 DEF BudgetInv, DownInv
<1>3. CASE NextBatch(c)
  <2>1. call[c].rest \in SUBSET Keys /\ call[c] # Idle
    BY <1>3 DEF TypeOK, Call, NextBatch, Idle
  <2> QED BY <1>2, <1>3, <2>1, BeginBudget DEF NextBatch
<1>4. CASE \E k \in Keys : FileArrives(c, k)
  <2>1. PICK k \in Keys : FileArrives(c, k)
    BY <1>4
  <2>2. /\ call'[c].left = call[c].left /\ call'[c].batch = call[c].batch
        /\ call'[c].arrived = call[c].arrived \cup {k}
        /\ \A d \in Callers \ {c} : call'[d] = call[d]
        /\ call[c] # Idle
    BY <2>1 DEF FileArrives, TypeOK, Call, Idle
  <2>3. Arrived' = Arrived \cup {k}
    BY <2>2 DEF Arrived
  <2>4. SizesInv' /\ BatchesFit'
    BY <2>1, <2>2, <2>3 DEF BudgetInv, SizesInv, BatchesFit, FileArrives
  <2>5. Settled' = Settled
    <3>1. Part(call')[c] = Part(call)[c]
      BY <2>2 DEF Part
    <3>2. Part(call)[c] \in Nat
      BY <1>0, PartType
    <3> QED BY <2>2, <3>1, <3>2, SettledChanges
  <2>6. initialized' /\ UNCHANGED <<items, overdue>>
    BY <1>2, <2>1, <2>2 DEF FileArrives
  <2> QED BY <2>4, <2>5, <2>6 DEF BudgetInv, DownInv, Usage
<1>5. CASE \E k \in Keys : Downloaded(c, k)
  <2>1. PICK k \in Keys : Downloaded(c, k)
    BY <1>5
  <2>2. k \in call[c].left /\ k \in call[c].arrived /\ Settle(c, k) /\ call[c] # Idle
    BY <2>1 DEF Downloaded, CacheInv, Nested, Idle
  <2>3. initialized' /\ UNCHANGED <<files, overdue>> /\ items' = Indexed(k)
    BY <1>2, <2>1, <2>2 DEF Downloaded, historyVars
  <2>4. /\ DOMAIN items' = DOMAIN items \cup {k}
        /\ \A j \in DOMAIN items \ {k} : items'[j] = items[j]
        /\ items'[k].sizeBytes = IF k \in files THEN Size[k] ELSE 0
    BY <2>3 DEF Indexed
  <2>5. Size[k] \in Nat
    BY CacheAssumption
  <2>6. SizesInv' /\ BatchesFit'
    <3>1. Arrived \ {k} \subseteq Arrived'
      BY <2>2, SettleFacts
    <3>2. BatchesFit'
      BY <2>2, SettleBudget DEF BudgetInv, BatchesFit
    <3> QED BY <2>3, <2>4, <2>5, <3>1, <3>2 DEF BudgetInv, SizesInv
  <2>7. Usage(items') <= Usage(items) + items'[k].sizeBytes
    BY <1>0, <2>4, UsageOfIndexed
  <2>8. overdue' \/ Usage(items') <= Budget + Settled'
    BY <1>0, <2>2, <2>3, <2>4, <2>5, <2>7, SettleBudget DEF BudgetInv
  <2> QED BY <2>3, <2>6, <2>8 DEF BudgetInv, DownInv, Usage
<1>6. CASE \E k \in Keys : DownloadFails(c, k)
  <2>1. PICK k \in Keys : DownloadFails(c, k)
    BY <1>6
  <2>2. k \in call[c].left /\ k \notin call[c].arrived /\ Settle(c, k) /\ call[c] # Idle
    BY <2>1 DEF DownloadFails, Idle
  <2>3. initialized' /\ UNCHANGED <<files, items, overdue>>
    BY <1>2, <2>1, <2>2 DEF DownloadFails, historyVars
  <2>4. Arrived' = Arrived /\ BatchesFit'
    BY <2>2, SettleFacts, SettleBudget DEF BudgetInv, BatchesFit
  <2>5. Size[k] \in Nat
    BY CacheAssumption
  <2>6. overdue' \/ Usage(items') <= Budget + Settled'
    BY <1>0, <2>2, <2>3, <2>5, SettleBudget DEF BudgetInv
  <2> QED BY <2>3, <2>4, <2>6 DEF BudgetInv, SizesInv, DownInv, Usage
<1>7. CASE EnforceBudget(c)
  <2> DEFINE b == call[c].batch
             P == PlanEviction(items, b)
  <2>1. /\ items' = Without(items, P) /\ files' = files \ P
        /\ call' = [call EXCEPT ![c].batch = {}]
        /\ UNCHANGED initialized /\ b # {} /\ call[c].left = {}
    BY <1>7 DEF EnforceBudget
  <2>2. P \subseteq DOMAIN items
    BY PlanIsIndexed
  <2>3. /\ DOMAIN items' = DOMAIN items \ P
        /\ \A k \in DOMAIN items' : items'[k] = items[k]
    <3> HIDE DEF P
    <3> QED BY <2>1, WithoutIndexed
  <2>4. b \in SUBSET Keys /\ SizeOf(b) <= Budget
    <3>1. b \in SUBSET Keys /\ Cardinality(b) <= MaxParallel
      BY <1>0 DEF Call, BudgetInv, BatchesFit
    <3> QED BY <3>1, CacheAssumption
  <2>5. Usage(items') <= Budget
    <3>1. CASE DOMAIN items \ P \subseteq b
      <4>1. Usage(items') <= SizeOf(b)
        <5>1. \A k \in DOMAIN items' : items'[k].sizeBytes <= Size[k]
          BY <2>3 DEF BudgetInv, SizesInv
        <5>2. DOMAIN items' \subseteq b
          BY <2>3, <3>1
        <5> HIDE DEF P, b
        <5> QED BY <1>0, <2>4, <5>1, <5>2, UsageWithinSizes
      <4>2. SizeOf(b) \in Nat
        BY <2>4, SizeOfType
      <4> QED BY <1>0, <2>4, <4>1, <4>2
    <3>2. CASE Usage(Without(items, P)) <= Budget
      BY <2>1, <3>2
    <3> QED BY <1>0, <3>1, <3>2, PlanMakesRoom
  <2>6. /\ call'[c].left = call[c].left /\ call'[c].arrived = call[c].arrived
        /\ call'[c].batch = {}
        /\ \A d \in Callers \ {c} : call'[d] = call[d]
    BY <2>1 DEF TypeOK, Call
  <2>7. Arrived' = Arrived
    BY <2>6 DEF Arrived
  <2>8. SizesInv'
    BY <2>1, <2>3, <2>7 DEF BudgetInv, SizesInv
  <2>9. BatchesFit'
    <3>1. Cardinality({}) <= MaxParallel
      BY FS_EmptySet, CacheAssumption
    <3> QED BY <2>6, <3>1 DEF BudgetInv, BatchesFit
  <2>10. initialized'
    BY <1>2, <2>1 DEF Idle
  <2>11. Settled' \in Nat
    BY <2>6, SettledChanges
  <2> QED BY <1>0, <2>5, <2>8, <2>9, <2>10, <2>11 DEF BudgetInv, DownInv, Usage
<1> QED BY <1>1, <1>3, <1>4, <1>5, <1>6, <1>7 DEF CallStep

LEMMA OtherBudget ==
    ASSUME TypeOK, TypeOK', CacheInv, BudgetInv,
           \/ \E ks \in Requests : Touch(ks)
           \/ \E ks \in Drops : Drop(ks)
           \/ Clear \/ Start \/ Crash \/ Tick \/ UNCHANGED vars
    PROVE  BudgetInv'
<1>0. IsIndex(items) /\ IsIndex(items') /\ Usage(items) \in Nat /\ Budget \in Nat
      /\ Usage(items') \in Nat /\ call \in [Callers -> Call] /\ files \in SUBSET Keys
  <2>1. IsIndex(items)
    BY ItemsAreAnIndex
  <2>2. IsIndex(items')
    <3>1. DOMAIN items' \subseteq Keys /\ \A k \in DOMAIN items' : items'[k] \in Item
      BY DEF TypeOK, Item
    <3> QED BY <3>1, IndexOfItems
  <2> QED BY <2>1, <2>2, UsageIsNat, CacheAssumption DEF TypeOK
\* What is let go of.
<1>1. ASSUME initialized, UNCHANGED <<initialized, call, overdue>>,
             NEW S, items' = Without(items, S), files \ S \subseteq files', files' \subseteq files
      PROVE  BudgetInv'
  <2>1. /\ DOMAIN items' = DOMAIN items \ S
        /\ \A k \in DOMAIN items' : items'[k] = items[k]
    BY <1>1, WithoutIndexed
  <2>2. Arrived' = Arrived
    BY <1>1 DEF Arrived
  <2>3. SizesInv' /\ BatchesFit'
    BY <1>1, <2>1, <2>2 DEF BudgetInv, SizesInv, BatchesFit
  <2>4. Usage(items') <= Usage(items)
    <3>1. \A k \in DOMAIN items' : items'[k].sizeBytes <= items[k].sizeBytes
      BY <1>0, <2>1 DEF IsIndex
    <3> QED BY <1>0, <2>1, <3>1, UsageShrinks
  <2>5. overdue' \/ Usage(items') <= Budget + Settled'
    BY <1>0, <1>1, <2>4, SettledStays DEF BudgetInv
  <2> QED BY <1>1, <2>3, <2>5 DEF BudgetInv, DownInv, Usage
<1>2. CASE \E ks \in Requests : Touch(ks)
  <2>1. PICK ks \in Requests : Touch(ks)
    BY <1>2
  <2>2. /\ DOMAIN items' = DOMAIN items
        /\ UNCHANGED <<files, initialized, call, overdue>> /\ initialized
    BY <2>1 DEF Touch, historyVars
  <2>3. \A k \in DOMAIN items : items'[k].sizeBytes = items[k].sizeBytes
    BY <2>1 DEF Touch, TypeOK, Item
  <2>4. Arrived' = Arrived
    BY <2>2 DEF Arrived
  <2>5. SizesInv' /\ BatchesFit'
    BY <2>2, <2>3, <2>4 DEF BudgetInv, SizesInv, BatchesFit
  <2>6. Usage(items') <= Usage(items)
    <3>1. \A k \in DOMAIN items' : items'[k].sizeBytes <= items[k].sizeBytes
      BY <1>0, <2>2, <2>3 DEF IsIndex
    <3> QED BY <1>0, <2>2, <3>1, UsageShrinks
  <2>7. overdue' \/ Usage(items') <= Budget + Settled'
    BY <1>0, <2>2, <2>6, SettledStays DEF BudgetInv
  <2> QED BY <2>2, <2>5, <2>7 DEF BudgetInv, DownInv, Usage
<1>3. CASE \E ks \in Drops : Drop(ks)
  BY <1>1, <1>3 DEF Drop
<1>4. CASE Clear
  <2>1. /\ items' = Without(items, DOMAIN items) /\ files' = files \ DOMAIN items
        /\ initialized /\ UNCHANGED <<initialized, call, overdue>>
    BY <1>4 DEF Clear
  <2> QED BY <1>1, <2>1
<1>5. CASE Start
  <2>1. PICK at \in [files -> 0 .. now] :
          items' = [k \in files |-> [sizeBytes |-> Size[k], lastAccessAt |-> at[k]]]
    BY <1>5 DEF Start
  <2>2. /\ ~initialized /\ initialized' /\ UNCHANGED <<files, call, overdue>>
        /\ DOMAIN items' = files /\ \A k \in files : items'[k].sizeBytes = Size[k]
    BY <1>5, <2>1 DEF Start, historyVars
  <2>3. \A k \in files : Size[k] <= Size[k]
    BY <1>0, CacheAssumption
  <2>4. SizesInv' /\ BatchesFit'
    BY <2>2, <2>3 DEF BudgetInv, SizesInv, BatchesFit
  <2>5. Usage(items') = SizeOf(files)
    BY <1>0, <2>2, UsageOfSizes, UsageIsBytes
  <2>6. Settled' \in Nat
    BY <2>2, SettledStays
  <2>7. overdue' \/ Usage(items') <= Budget + Settled'
    BY <1>0, <2>2, <2>5, <2>6, SizeOfType DEF BudgetInv, DownInv
  <2> QED BY <2>2, <2>4, <2>7 DEF BudgetInv, DownInv, Usage
<1>6. CASE Crash
  <2>1. /\ initialized /\ ~initialized' /\ DOMAIN items' = {} /\ UNCHANGED files
        /\ overdue' = (overdue \/ \E c \in Callers : call[c] # Idle)
        /\ \A c \in Callers : call'[c] = Idle
    BY <1>6 DEF Crash, Empty
  <2>2. SizesInv'
    BY <2>1 DEF SizesInv
  <2>3. BatchesFit'
    <3>1. Cardinality({}) <= MaxParallel
      BY FS_EmptySet, CacheAssumption
    <3>2. \A c \in Callers : call'[c].batch = {}
      BY <2>1 DEF Idle
    <3> QED BY <3>1, <3>2 DEF BatchesFit
  <2>4. ASSUME ~overdue' PROVE SizeOf(files) <= Budget
    <3>1. ~overdue /\ \A c \in Callers : call[c] = Idle
      BY <2>1, <2>4
    <3>2. Arrived = {}
      BY <3>1 DEF Arrived, Idle
    <3>3. files \subseteq DOMAIN items /\ \A k \in files : items[k].sizeBytes = Size[k]
      BY <2>1, <3>2 DEF CacheInv, DiskInv, BudgetInv, SizesInv
    <3>4. SizeOf(files) = Bytes(items, files)
      BY <1>0, <3>3, UsageOfSizes
    <3>5. Bytes(items, files) <= Bytes(items, DOMAIN items)
      BY <1>0, <3>3, BytesOfPart
    <3>6. Settled = 0
      <4>1. \A c \in Callers : Part(call)[c] = 0
        <5>1. {} \ {} = {} /\ SizeOf({}) = 0
          BY SumOfNothing DEF SizeOf
        <5> QED BY <3>1, <5>1 DEF Part, Idle
      <4>2. SumFunctionOnSet(Part(call), Callers) = 0
        BY <4>1, CacheAssumption, SumOfZeros
      <4> QED BY <1>0, <4>2, PartType, SettledIsSum
    <3>7. Bytes(items, files) \in Nat /\ Usage(items) = Bytes(items, DOMAIN items)
      BY <1>0, <3>3, BytesType, UsageIsBytes
    <3> QED BY <1>0, <3>1, <3>4, <3>5, <3>6, <3>7 DEF BudgetInv
  <2>5. Usage(items') = 0
    <3>1. Bytes(items', {}) = 0
      BY SumOfNothing DEF Bytes
    <3> QED BY <2>1, <3>1, UsageIsBytes
  <2>6. Settled' \in Nat
    BY PartType, PrimedSettled DEF TypeOK
  <2>7. Usage(items') <= Budget + Settled'
    <3>1. Budget \in Nat
      BY CacheAssumption
    <3>2. \A n \in Nat : 0 <= Budget + n
      BY <3>1
    <3> QED BY <2>5, <2>6, <3>2
  <2>8. DownInv'
    <3>1. overdue' \in BOOLEAN
      BY DEF TypeOK
    <3> QED BY <2>1, <2>4, <3>1 DEF DownInv, SizeOf
  <2> QED BY <2>2, <2>3, <2>7, <2>8 DEF BudgetInv, Usage
<1>7. CASE Tick \/ UNCHANGED vars
  <2>1. UNCHANGED <<files, items, initialized, call, overdue>>
    BY <1>7 DEF Tick, vars, memoryVars, historyVars
  <2>2. Settled' = Settled /\ Arrived' = Arrived
    BY <2>1, SettledStays DEF Arrived
  <2> QED BY <2>1, <2>2 DEF BudgetInv, BatchesFit, SizesInv, DownInv, Usage
<1> QED BY <1>2, <1>3, <1>4, <1>5, <1>6, <1>7

LEMMA BudgetInvInit == Init => BudgetInv
<1> SUFFICES ASSUME Init PROVE BudgetInv
  OBVIOUS
<1>1. DOMAIN items = {} /\ files = {} /\ TypeOK
  BY InitTypeOK DEF Init, Empty
<1>2. \A c \in Callers : call[c] = Idle
  BY DEF Init
<1>3. BatchesFit
  <2>1. Cardinality({}) <= MaxParallel
    BY FS_EmptySet, CacheAssumption
  <2> QED BY <1>2, <2>1 DEF BatchesFit, Idle
<1>4. Usage(items) = 0 /\ SizeOf(files) = 0
  <2>1. Bytes(items, {}) = 0 /\ SizeOf({}) = 0
    BY SumOfNothing DEF Bytes, SizeOf
  <2> QED BY <1>1, <2>1, UsageIsBytes
<1>5. Settled \in Nat /\ Budget \in Nat
  BY <1>1, PartType, SettledIsSum, CacheAssumption DEF TypeOK
<1> QED BY <1>1, <1>2, <1>3, <1>4, <1>5 DEF BudgetInv, SizesInv, DownInv

LEMMA BudgetInvHolds == Spec => [](TypeOK /\ CacheInv /\ BudgetInv)
<1>1. TypeOK /\ TypeOK' /\ CacheInv /\ BudgetInv /\ [Next]_vars => BudgetInv'
  BY CallBudget, OtherBudget DEF Next
<1> QED BY <1>1, BudgetInvInit, CacheInvHolds, PTL DEF Spec

\* The index stays within the budget but for the batches under way, which are
\* evicted for after the fact, and for what a kill left behind until the next
\* eviction (docs/adr.md:181-182).
THEOREM BudgetIsKept == Spec => []BudgetKept
<1>1. TypeOK /\ BudgetInv => BudgetKept
  <2> SUFFICES ASSUME TypeOK, BudgetInv, ~overdue
               PROVE  Usage(items) <= Budget + SumFunction([c \in Callers |-> SizeOf(call[c].batch)])
    BY DEF BudgetKept
  <2> DEFINE f == Part(call)
             g == [c \in Callers |-> SizeOf(call[c].batch)]
  <2>1. \A c \in Callers : f[c] \in Nat /\ g[c] \in Nat /\ f[c] <= g[c]
    <3> TAKE c \in Callers
    <3>1. call[c].batch \in SUBSET Keys
      BY DEF TypeOK, Call
    <3>2. SizeOf(call[c].batch \ call[c].left) <= SizeOf(call[c].batch)
      BY <3>1, SizeOfPart
    <3>3. SizeOf(call[c].batch) \in Nat /\ SizeOf(call[c].batch \ call[c].left) \in Nat
      BY <3>1, SizeOfType
    <3> QED BY <3>2, <3>3 DEF Part
  <2>2. IsFiniteSet(Callers) /\ SumFunction(g) = SumFunctionOnSet(g, Callers)
        /\ SumFunction(f) = SumFunctionOnSet(f, Callers)
    BY CacheAssumption DEF SumFunction, Part
  <2>3. Usage(items) <= Budget + SumFunction(f) /\ Usage(items) \in Nat /\ Budget \in Nat
    BY SettledIsSum, ItemsAreAnIndex, UsageIsNat, CacheAssumption DEF BudgetInv
  <2> HIDE DEF f, g
  <2>4. SumFunctionOnSet(f, Callers) <= SumFunctionOnSet(g, Callers)
    BY <2>1, <2>2, SumOfLargerValues
  <2>5. SumFunctionOnSet(f, Callers) \in Nat /\ SumFunctionOnSet(g, Callers) \in Nat
    BY <2>1, <2>2, SumIsNat
  <2>6. Usage(items) <= Budget + SumFunction(g)
    BY <2>2, <2>3, <2>4, <2>5
  <2> QED BY <2>6 DEF g
<1> QED BY <1>1, BudgetInvHolds, PTL

=============================================================================
