------------------------ MODULE ImageCacheProperties ------------------------
(***************************************************************************)
(* What the image cache promises.                                          *)
(***************************************************************************)
EXTENDS ImageCache

-----------------------------------------------------------------------------

\* The index is within the budget but for the batches of the calls under way,
\* which are evicted for after the fact (docs/adr.md:181-182) - except after a
\* kill between a download and its eviction, until the next eviction.
BudgetKept ==
    overdue \/ Usage(items) <= Budget + SumFunction([c \in Callers |-> SizeOf(call[c].batch)])

\* What the index has is on disk, whatever fails or is killed: the exceptions
\* are a file that was taken away for another download of it, and one that was
\* removed when it had arrived and had yet to be indexed.
IndexedIsOnDisk == DOMAIN items \subseteq files \cup torn

\* An image that is dropped or cleared while nobody fetches it is back only
\* after a download that began later, kills or not.
DroppedStaysGone == gone \cap files = {}

\* No file escapes the index, and with it the budget and the clearing, whatever
\* kills and lost manifests.
DiskIsIndexed ==
    initialized => \A k \in files : k \in DOMAIN items \/ k \in Awaited

\* A key counts as being fetched only while somebody fetches it: ensure skips
\* such keys, so a flag that stays would leave the post without image for good.
NoStuckKey == \A k \in inFlight : k \in Awaited

\* An eviction takes the least recently used, spares what was just fetched, and
\* takes no more than it must.
EvictsOldestFirst ==
    [][\A c \in Callers : EnforceBudget(c) =>
         LET kept == DOMAIN items \cap DOMAIN items'
             evicted == DOMAIN items \ DOMAIN items'
         IN  /\ evicted \cap call[c].batch = {}
             /\ \A e \in evicted, k \in kept \ call[c].batch :
                  items[e].lastAccessAt <= items[k].lastAccessAt
             /\ evicted # {} => \E e \in evicted : Usage(items') + items[e].sizeBytes > Budget
      ]_vars

-----------------------------------------------------------------------------

\* ensure comes to its end, whatever its downloads do.
EnsuresEnd == \A c \in Callers : call[c] # Idle ~> call[c] = Idle

-----------------------------------------------------------------------------

\* imageCache.ts:29 - a key has a local URI, or null if it is not on disk; a
\* file that is being written again may be missing meanwhile.
UriIsOnDisk == \A k \in DOMAIN items : k \in files \/ k \in Awaited

=============================================================================
