----------------------------- MODULE ResourceCache -----------------------------
(* Skia's cache of GPU resources (src/rust-skia/skia-bindings/skia/src/gpu/    *)
(* ganesh/GrResourceCache.cpp and GrGpuResource.cpp): textures, buffers and    *)
(* attachments, counted by reference, kept within a budget, found again by a   *)
(* unique key or, as scratch, by a key of their shape.  An unreferenced        *)
(* resource waits in a purgeable queue, least recently used first.             *)
(*                                                                             *)
(* The cache belongs to one thread (ASSERT_SINGLE_OWNER): an action is one     *)
(* call of it, whole.  The calls recurse: a resource that is released drops    *)
(* the attachment it holds, whose last reference comes back to the cache, may  *)
(* make it budgeted and purge others.  So the handlers are operators from a    *)
(* cache to a cache, recursive as they are in the code.  Other threads only    *)
(* post to the two inboxes, which purgeAsNeeded polls.                         *)
(*                                                                             *)
(* Left out: command-buffer usages, which the GL backend never takes (so that  *)
(* no resource waits for a flush); the thread-safe cache of recording          *)
(* contexts, taken to be empty; statistics.  A deleted resource's place is     *)
(* taken by the next one created.  MaxRefs bounds the references to a          *)
(* resource, MaxPosted the messages in an inbox; timestamps wrap at Wrap (2^32)*)
(* and there are fewer resources than timestamps.                              *)
EXTENDS Integers, Sequences, FiniteSets, SequencesExt

CONSTANTS Resources, NoResource,
          UniqueKeys, ScratchKeys, NoKey,
          Size,          \* gpuMemorySize of each resource
          Limits,        \* what setLimit is called with
          Amounts,       \* byte counts purges are asked for
          SizeModulus,   \* size_t is 0 .. SizeModulus - 1
          Wrap, MaxRefs, MaxPosted,
          Clients        \* the clients to look at: habits, resources, unique keys

\* What the client may do besides the regular course is fixed for each behavior:
\*   limits      it changes the limit
\*   unbudgeted  it makes resources that do not count, or no longer count
\*   wrapped     it wraps objects of its own
\*   attached    it attaches a resource to another
\*   posted      other threads return references and invalidate keys
Habits == {"limits", "unbudgeted", "wrapped", "attached", "posted"}

ASSUME ResourceCacheAssumption ==
    /\ Size \in [Resources -> Nat] /\ Limits \subseteq Nat /\ Amounts \subseteq Nat
    /\ Wrap \in Nat /\ Wrap > Cardinality(Resources)
    /\ Clients \subseteq [habits : SUBSET Habits, resources : SUBSET Resources,
                     keys : SUBSET UniqueKeys]

VARIABLES cache,    \* the cache, its inboxes and the resources
          over,     \* releaseAll or abandonAll has been called
          client    \* the client of this behavior

vars == <<cache, over, client>>

Types == {"budgeted", "unbudgetedUncacheable", "unbudgetedCacheable"}

Init ==
    /\ \E max \in Limits : cache =
          [refs |-> [r \in Resources |-> 0],
           cached |-> {},               \* registered and not destroyed
           type |-> [r \in Resources |-> "unbudgetedUncacheable"],
           wrapped |-> {},              \* fRefsWrappedObjects
           scratchKey |-> [r \in Resources |-> NoKey],
           uniqueKey |-> [r \in Resources |-> NoKey],
           holds |-> [r \in Resources |-> NoResource],  \* fStencilAttachment
           stamp |-> [r \in Resources |-> 0],
           timestamp |-> 0,             \* fTimestamp
           nonpurgeable |-> <<>>,       \* fNonpurgeableResources
           purgeable |-> {},            \* fPurgeableQueue
           scratchMap |-> {},
           uniqueHash |-> [k \in UniqueKeys |-> NoResource],
           bytes |-> 0, budgetedCount |-> 0, budgetedBytes |-> 0, purgeableBytes |-> 0,
           max |-> max,                 \* fMaxBytes
           unrefs |-> <<>>,             \* fUnrefResourceInbox: a reference each
           invalid |-> <<>>,            \* fInvalidUniqueKeyInbox
           recency |-> <<>>]            \* auxiliary: by last use, oldest first
    /\ over = FALSE
    /\ client \in Clients

-----------------------------------------------------------------------------
(* Predicates of a resource r of the cache c                                   *)

HasRef(c, r) == c.refs[r] > 0

IsPurgeable(c, r) ==
    ~HasRef(c, r) /\ ~(c.type[r] = "unbudgetedCacheable" /\ c.uniqueKey[r] # NoKey)

IsScratch(c, r) ==
    c.uniqueKey[r] = NoKey /\ c.scratchKey[r] # NoKey /\ c.type[r] = "budgeted"

IsUsableAsScratch(c, r) == IsScratch(c, r) /\ ~HasRef(c, r)

OverBudget(c) == c.budgetedBytes > c.max
WouldFit(c, bytes) == c.budgetedBytes + bytes <= c.max

\* fPurgeableQueue.peek(): the lowest timestamp.
Peek(c) == CHOOSE r \in c.purgeable : \A s \in c.purgeable : c.stamp[r] <= c.stamp[s]

\* fPurgeableQueue.sort(): the purgeable resources, oldest first.
Sorted(c) == SetToSortSeq(c.purgeable, LAMBDA r, s : c.stamp[r] < c.stamp[s])

-----------------------------------------------------------------------------
(* Timestamps, the array and the maps                                          *)

\* Mutant of Resequenced: only what is in the nonpurgeable array is renumbered.
ResequencedArray(c) ==
    IF c.timestamp # 0 THEN c
    ELSE LET older(r) == {s \in Range(c.nonpurgeable) : c.stamp[s] < c.stamp[r]} IN
         [c EXCEPT !.stamp = [r \in Resources |-> IF r \in Range(c.nonpurgeable)
                                 THEN Cardinality(older(r)) ELSE @[r]],
                   !.timestamp = Len(c.nonpurgeable)]

\* When the timestamps wrap, the resources are numbered anew in their old order,
\* the array and the queue merged; the array comes out sorted.
Resequenced(c) ==
    IF c.timestamp # 0 THEN c
    ELSE LET all == Range(c.nonpurgeable) \cup c.purgeable IN
         [c EXCEPT
            !.stamp = [r \in Resources |->
                IF r \in all THEN Cardinality({s \in all : c.stamp[s] < c.stamp[r]}) ELSE @[r]],
            !.nonpurgeable = SetToSortSeq(Range(@), LAMBDA r, s : c.stamp[r] < c.stamp[s]),
            !.timestamp = Cardinality(all)]

\* setTimestamp(getNextTimestamp())
Stamped(c, r) ==
    LET d == Resequenced(c) IN
    [d EXCEPT !.stamp[r] = d.timestamp,
              !.timestamp = (d.timestamp + 1) % Wrap,
              !.recency = Append(SelectSeq(@, LAMBDA s : s # r), r)]

AddToNonpurgeableArray(c, r) == [c EXCEPT !.nonpurgeable = Append(@, r)]

\* The last element fills the hole.
RemoveFromNonpurgeableArray(c, r) ==
    LET i == CHOOSE j \in DOMAIN c.nonpurgeable : c.nonpurgeable[j] = r IN
    [c EXCEPT !.nonpurgeable = Front([@ EXCEPT ![i] = Last(c.nonpurgeable)])]

\* Nothing refers to r any more: `delete this`.
Deleted(c, r) ==
    [c EXCEPT !.type[r] = "unbudgetedUncacheable", !.wrapped = @ \ {r},
              !.scratchKey[r] = NoKey, !.uniqueKey[r] = NoKey, !.stamp[r] = 0]

\* removeResource
RemoveResource(c, r) ==
    LET budgeted == c.type[r] = "budgeted"
        d == IF IsPurgeable(c, r)
             THEN [c EXCEPT !.purgeable = @ \ {r}, !.purgeableBytes = @ - Size[r]]
             ELSE RemoveFromNonpurgeableArray(c, r) IN
    [d EXCEPT !.cached = @ \ {r},
              !.bytes = @ - Size[r],
              !.budgetedCount = IF budgeted THEN @ - 1 ELSE @,
              !.budgetedBytes = IF budgeted THEN @ - Size[r] ELSE @,
              !.scratchMap = IF IsUsableAsScratch(c, r) THEN @ \ {r} ELSE @,
              !.uniqueHash = [k \in UniqueKeys |-> IF k = c.uniqueKey[r] THEN NoResource ELSE @[k]],
              !.recency = SelectSeq(@, LAMBDA s : s # r)]

\* refAndMakeResourceMRU
RefAndMakeMRU(c, r) ==
    LET d == IF IsPurgeable(c, r)
             THEN AddToNonpurgeableArray(
                    [c EXCEPT !.purgeableBytes = @ - Size[r], !.purgeable = @ \ {r}], r)
             ELSE c IN
    Stamped([d EXCEPT !.refs[r] = @ + 1], r)

\* GrResourceCache::removeUniqueKey
RemoveUniqueKey(c, r) ==
    LET d == [c EXCEPT
                !.uniqueHash = [k \in UniqueKeys |-> IF k = c.uniqueKey[r] THEN NoResource ELSE @[k]],
                !.uniqueKey[r] = NoKey] IN
    IF IsUsableAsScratch(d, r) THEN [d EXCEPT !.scratchMap = @ \cup {r}] ELSE d

-----------------------------------------------------------------------------
(* References, releases and purges: these call each other.                     *)

RECURSIVE Release(_, _), Unref(_, _), Notify(_, _), MakeBudgeted(_, _)
RECURSIVE PurgeAsNeeded(_), PurgeWhileOver(_)

\* onRelease and onAbandon: fStencilAttachment = nullptr.
DropHeld(c, r) ==
    IF c.holds[r] = NoResource THEN c
    ELSE Unref([c EXCEPT !.holds[r] = NoResource], c.holds[r])

\* CacheAccess::release: out of the cache, and deleted unless someone holds it.
\* CacheAccess::abandon is the same without calls of the graphics API.
Release(c, r) ==
    LET d == RemoveResource(DropHeld(c, r), r) IN
    IF HasRef(d, r) THEN d ELSE Deleted(d, r)

\* GrIORef::unref and GrGpuResource::notifyARefCntIsZero
Unref(c, r) ==
    LET d == [c EXCEPT !.refs[r] = @ - 1] IN
    IF HasRef(d, r) THEN d
    ELSE IF r \in d.cached THEN Notify(d, r) ELSE Deleted(d, r)

\* Mutant of StaysPurgeable: an unreferenced resource is kept whatever the budget.
StaysPurgeableOverBudget(c, r) ==
    IF c.type[r] = "budgeted" THEN c.scratchKey[r] # NoKey \/ c.uniqueKey[r] # NoKey
    ELSE c.uniqueKey[r] # NoKey /\ c.type[r] = "unbudgetedCacheable"

\* A resource that has become purgeable may be found again and is within budget.
StaysPurgeable(c, r) ==
    IF c.type[r] = "budgeted"
    THEN ~OverBudget(c) /\ (c.scratchKey[r] # NoKey \/ c.uniqueKey[r] # NoKey)
    ELSE c.uniqueKey[r] # NoKey /\ c.type[r] = "unbudgetedCacheable"

\* An unbudgeted resource that may serve as scratch, if there is room for it.
BecomesScratch(c, r) ==
    /\ c.type[r] # "budgeted" /\ r \notin c.wrapped /\ c.scratchKey[r] # NoKey
    /\ WouldFit(c, Size[r])

\* notifyARefCntReachedZero
Notify(c, r) ==
    LET d == IF IsUsableAsScratch(c, r) THEN [c EXCEPT !.scratchMap = @ \cup {r}] ELSE c
        e == Stamped(d, r)
        f == [RemoveFromNonpurgeableArray(e, r) EXCEPT
                !.purgeable = @ \cup {r}, !.purgeableBytes = @ + Size[r]] IN
    IF ~IsPurgeable(e, r) THEN e
    ELSE IF StaysPurgeable(f, r) THEN f
    ELSE IF BecomesScratch(f, r) THEN MakeBudgeted(f, r)
    ELSE Release(f, r)

\* Mutant of MakeBudgeted: nobody can find the resource as scratch.
MakeBudgetedUnlisted(c, r) ==
    IF r \notin c.cached \/ c.type[r] # "unbudgetedUncacheable" THEN c
    ELSE PurgeAsNeeded([c EXCEPT !.type[r] = "budgeted",
                          !.budgetedCount = @ + 1, !.budgetedBytes = @ + Size[r]])

\* GrGpuResource::makeBudgeted and didChangeBudgetStatus
MakeBudgeted(c, r) ==
    IF r \notin c.cached \/ c.type[r] # "unbudgetedUncacheable" THEN c
    ELSE LET d == [c EXCEPT !.type[r] = "budgeted",
                            !.budgetedCount = @ + 1, !.budgetedBytes = @ + Size[r]] IN
         PurgeAsNeeded(
            IF IsUsableAsScratch(d, r) THEN [d EXCEPT !.scratchMap = @ \cup {r}] ELSE d)

\* GrProxyProvider::processInvalidUniqueKey: finds the resource, takes its key off
\* it and lets go of it.
InvalidateKey(c, k) ==
    LET r == c.uniqueHash[k] IN
    IF r = NoResource THEN c ELSE Unref(RemoveUniqueKey(RefAndMakeMRU(c, r), r), r)

\* Each inbox is swapped with an empty one, and its messages are worked off.
ProcessInvalidKeys(c) == FoldLeft(InvalidateKey, [c EXCEPT !.invalid = <<>>], c.invalid)
ProcessFreed(c) == FoldLeft(Unref, [c EXCEPT !.unrefs = <<>>], c.unrefs)

PurgeWhileOver(c) ==
    IF OverBudget(c) /\ c.purgeable # {} THEN PurgeWhileOver(Release(c, Peek(c))) ELSE c

PurgeAsNeeded(c) == PurgeWhileOver(ProcessFreed(ProcessInvalidKeys(c)))

ReleaseEach(c, s) == FoldLeft(Release, c, s)

-----------------------------------------------------------------------------
(* The calls of the cache                                                      *)

\* The references to r that are neither in the inbox nor held by a resource.
ClientRefs(r) ==
    cache.refs[r] - Cardinality({i \in DOMAIN cache.unrefs : cache.unrefs[i] = r})
                  - Cardinality({s \in Resources : cache.holds[s] = r})

Held(r) == ClientRefs(r) > 0
Exists(r) == r \in cache.cached \/ HasRef(cache, r)
CanMake(r) == r \in client.resources /\ ~Exists(r) /\ ~over

\* registerWithCache and insertResource; the creator holds the first reference.
Insert(c, r) ==
    PurgeAsNeeded(
        LET d == AddToNonpurgeableArray(Stamped([c EXCEPT !.refs[r] = 1], r), r)
            budgeted == c.type[r] = "budgeted" IN
        [d EXCEPT !.cached = @ \cup {r}, !.bytes = @ + Size[r],
                  !.budgetedCount = IF budgeted THEN @ + 1 ELSE @,
                  !.budgetedBytes = IF budgeted THEN @ + Size[r] ELSE @])

\* A resource with or without a scratch key, budgeted or not.
RegisterWithCache(r, key, type) ==
    /\ CanMake(r) /\ type # "unbudgetedCacheable"
    /\ type = "budgeted" \/ "unbudgeted" \in client.habits
    /\ cache' = Insert([cache EXCEPT !.type[r] = type, !.scratchKey[r] = key], r)
    /\ UNCHANGED <<over, client>>

\* A resource that wraps an object of the client.
RegisterWithCacheWrapped(r, type) ==
    /\ "wrapped" \in client.habits /\ CanMake(r) /\ type # "budgeted"
    /\ cache' = Insert([cache EXCEPT !.type[r] = type, !.wrapped = @ \cup {r}], r)
    /\ UNCHANGED <<over, client>>

Ref(r) ==
    /\ Held(r) /\ cache.refs[r] < MaxRefs
    /\ cache' = [cache EXCEPT !.refs[r] = @ + 1]
    /\ UNCHANGED <<over, client>>

\* The client lets go of one of its references.
DropRef(r) ==
    /\ Held(r)
    /\ cache' = Unref(cache, r)
    /\ UNCHANGED <<over, client>>

\* ReturnResourceFromThread: another thread posts its reference.
ReturnFromThread(r) ==
    /\ "posted" \in client.habits /\ Held(r) /\ ~over /\ Len(cache.unrefs) < MaxPosted
    /\ cache' = [cache EXCEPT !.unrefs = Append(@, r)]
    /\ UNCHANGED <<over, client>>

PostInvalidKey(k) ==
    /\ "posted" \in client.habits /\ ~over /\ Len(cache.invalid) < MaxPosted
    /\ cache' = [cache EXCEPT !.invalid = Append(@, k)]
    /\ UNCHANGED <<over, client>>

\* attachStencilAttachment: the client's reference to s passes to r.  A stencil
\* attachment is made budgeted and has no scratch key (GrAttachment.cpp:97).
Attach(r, s) ==
    /\ "attached" \in client.habits /\ Held(r) /\ Held(s) /\ r # s /\ {r, s} \subseteq cache.cached
    /\ cache.type[s] = "budgeted" /\ cache.scratchKey[s] = NoKey
    /\ cache.holds[r] = NoResource /\ cache.holds[s] = NoResource
    /\ \A t \in Resources : cache.holds[t] # r
    /\ cache' = [cache EXCEPT !.holds[r] = s]
    /\ UNCHANGED <<over, client>>

\* The multimap lists the resources of a key in no order a caller may rely on.
FindAndRefScratch(key) == \E r \in cache.scratchMap :
    /\ cache.scratchKey[r] = key
    /\ cache' = RefAndMakeMRU([cache EXCEPT !.scratchMap = @ \ {r}], r)
    /\ UNCHANGED <<over, client>>

FindAndRefUnique(key) ==
    LET r == cache.uniqueHash[key] IN
    /\ r # NoResource /\ cache.refs[r] < MaxRefs
    /\ cache' = RefAndMakeMRU(cache, r)
    /\ UNCHANGED <<over, client>>

\* Mutant of TakeKey: in use or not, the old holder is released.
TakeKeyFromAny(c, key) ==
    LET old == c.uniqueHash[key] IN
    IF old = NoResource THEN c
    ELSE IF c.scratchKey[old] = NoKey THEN Release(c, old)
    ELSE Unref(RemoveUniqueKey([c EXCEPT !.refs[old] = @ + 1], old), old)

\* Takes a key off the resource that has it, which may be unreferenced: it is
\* released, or referenced while its key is removed.
TakeKey(c, key) ==
    LET old == c.uniqueHash[key] IN
    IF old = NoResource THEN c
    ELSE IF c.scratchKey[old] = NoKey /\ IsPurgeable(c, old) THEN Release(c, old)
    ELSE Unref(RemoveUniqueKey([c EXCEPT !.refs[old] = @ + 1], old), old)

\* changeUniqueKey with a valid key
ChangeUniqueKey(c, r, key) ==
    LET d == TakeKey(c, key) IN
    [d EXCEPT !.uniqueHash = [k \in UniqueKeys |->
                    IF k = key THEN r ELSE IF @[k] = r THEN NoResource ELSE @[k]],
              !.uniqueKey[r] = key]

\* GrGpuResource::setUniqueKey.  The old holder of the key may not be an
\* unreferenced scratch resource: the reference changeUniqueKey takes of it
\* would be its first, which ref() asserts it is not (GrGpuResource.h:51).
SetUniqueKey(r, key) ==
    LET old == cache.uniqueHash[key] IN
    /\ Held(r) /\ r \in cache.cached
    /\ cache.type[r] = "budgeted" \/ r \in cache.wrapped
    /\ old # NoResource => ~(IsPurgeable(cache, old) /\ cache.scratchKey[old] # NoKey)
    /\ cache' = ChangeUniqueKey(cache, r, key)
    /\ UNCHANGED <<over, client>>

\* GrGpuResource::removeUniqueKey
DropUniqueKey(r) ==
    /\ Held(r) /\ r \in cache.cached /\ cache.uniqueKey[r] # NoKey
    /\ cache' = RemoveUniqueKey(cache, r)
    /\ UNCHANGED <<over, client>>

\* GrGpuResource::removeScratchKey and willRemoveScratchKey
RemoveScratchKey(r) ==
    /\ Held(r) /\ r \in cache.cached /\ cache.scratchKey[r] # NoKey
    /\ cache' = [cache EXCEPT !.scratchKey[r] = NoKey,
                    !.scratchMap = IF IsUsableAsScratch(cache, r) THEN @ \ {r} ELSE @]
    /\ UNCHANGED <<over, client>>

ClientMakesBudgeted(r) ==
    /\ Held(r) /\ r \in cache.cached
    /\ cache.type[r] = "unbudgetedUncacheable" /\ r \notin cache.wrapped
    /\ cache' = MakeBudgeted(cache, r)
    /\ UNCHANGED <<over, client>>

\* GrGpuResource::makeUnbudgeted and didChangeBudgetStatus
MakeUnbudgeted(r) ==
    /\ "unbudgeted" \in client.habits /\ Held(r) /\ r \in cache.cached
    /\ cache.type[r] = "budgeted" /\ cache.uniqueKey[r] = NoKey
    /\ cache' = [cache EXCEPT !.type[r] = "unbudgetedUncacheable",
                    !.budgetedCount = @ - 1, !.budgetedBytes = @ - Size[r]]
    /\ UNCHANGED <<over, client>>

SetLimit(max) ==
    /\ "limits" \in client.habits /\ ~over
    /\ cache' = PurgeAsNeeded([cache EXCEPT !.max = max])
    /\ UNCHANGED <<over, client>>

CallPurgeAsNeeded ==
    /\ ~over
    /\ cache' = PurgeAsNeeded(cache)
    /\ UNCHANGED <<over, client>>

RECURSIVE PurgeOlder(_, _), ReleaseArray(_)

\* Purges in the queue's order until one is too new.
PurgeOlder(c, old) ==
    IF c.purgeable # {} /\ Peek(c) \in old THEN PurgeOlder(Release(c, Peek(c)), old) ELSE c

\* The resources of the queue that a purge of scratch resources deletes: up to the
\* first that is too new, without those that have a unique key.
OldScratch(c, old) ==
    LET s == Sorted(c)
        new == {i \in DOMAIN s : s[i] \notin old}
        end == IF new = {} THEN Len(s) ELSE Min(new) - 1 IN
    SelectSeq(SubSeq(s, 1, end), LAMBDA r : c.uniqueKey[r] = NoKey)

\* The resources that became purgeable before a given time: the n that did first.
Older(c, n) ==
    LET byTime == SelectSeq(c.recency, LAMBDA r : r \in c.purgeable) IN
    {byTime[i] : i \in 1 .. IF n < Len(byTime) THEN n ELSE Len(byTime)}

\* purgeUnlockedResources(opts) and purgeResourcesNotUsedSince
PurgeUnlocked(scratchOnly, old) ==
    /\ ~over
    /\ cache' = IF scratchOnly THEN ReleaseEach(cache, OldScratch(cache, old))
                ELSE PurgeOlder(cache, old)
    /\ UNCHANGED <<over, client>>

\* Mutant of HeadroomPurges: one too few.
HeadroomPurgesOneLess(c, bytes) ==
    LET s == Sorted(c)
        projected(n) == c.budgetedBytes - MapThenSumSet(LAMBDA i : Size[s[i]],
                            {i \in 1 .. n : c.type[s[i]] = "budgeted"})
        enough == {n \in DOMAIN s : projected(n) + bytes <= c.max} IN
    IF enough = {} THEN <<>> ELSE SubSeq(s, 1, Min(enough) - 1)

\* Of the queue's order, as many as make room for `bytes`; none if all do not.
HeadroomPurges(c, bytes) ==
    LET s == Sorted(c)
        projected(n) == c.budgetedBytes - MapThenSumSet(LAMBDA i : Size[s[i]],
                            {i \in 1 .. n : c.type[s[i]] = "budgeted"})
        enough == {n \in DOMAIN s : projected(n) + bytes <= c.max} IN
    IF enough = {} THEN <<>> ELSE SubSeq(s, 1, Min(enough))

WithHeadroom(c, bytes) ==
    IF bytes > c.max \/ WouldFit(c, bytes) THEN c
    ELSE ReleaseEach(c, HeadroomPurges(c, bytes))

PurgeToMakeHeadroom(bytes) ==
    /\ ~over
    /\ cache' = WithHeadroom(cache, bytes)
    /\ UNCHANGED <<over, client>>

\* The scratch resources, oldest first, that bring fBytes down to `aim`.
ScratchDownTo(c, aim) ==
    LET take(acc, r) == IF c.uniqueKey[r] = NoKey /\ aim < c.bytes - acc.bytes
                        THEN [list |-> Append(acc.list, r), bytes |-> acc.bytes + Size[r]]
                        ELSE acc IN
    FoldLeft(take, [list |-> <<>>, bytes |-> 0], Sorted(c)).list

\* purgeUnlockedResources(bytesToPurge, preferScratchResources): fMaxBytes is
\* lowered for the purge.  The subtraction is one of size_t and wraps.
WithBytesPurged(c, bytes, preferScratch) ==
    LET aim == (c.bytes - bytes) % SizeModulus
        d == IF aim < c.bytes /\ preferScratch /\ bytes < c.purgeableBytes
             THEN ReleaseEach(c, ScratchDownTo(c, aim)) ELSE c IN
    IF aim < d.bytes
    THEN [PurgeAsNeeded([d EXCEPT !.max = aim]) EXCEPT !.max = c.max] ELSE d

PurgeBytes(bytes, preferScratch) ==
    /\ ~over
    /\ cache' = WithBytesPurged(cache, bytes, preferScratch)
    /\ UNCHANGED <<over, client>>

\* Of the array, from its back, then of the queue.
ReleaseArray(c) ==
    IF c.nonpurgeable = <<>> THEN PurgeOlder(c, Resources)
    ELSE ReleaseArray(Release(c, Last(c.nonpurgeable)))

ReleaseAll ==
    /\ ~over
    /\ cache' = ReleaseArray(ProcessFreed(cache))
    /\ over' = TRUE
    /\ UNCHANGED client

AbandonAll ==
    /\ ~over
    /\ cache' = ReleaseArray(cache)
    /\ over' = TRUE
    /\ UNCHANGED client

Next ==
    \/ \E r \in Resources :
          \/ \E type \in Types :
                \/ \E key \in ScratchKeys \cup {NoKey} : RegisterWithCache(r, key, type)
                \/ RegisterWithCacheWrapped(r, type)
          \/ Ref(r) \/ DropRef(r) \/ ReturnFromThread(r)
          \/ \E s \in Resources : Attach(r, s)
          \/ \E key \in client.keys : SetUniqueKey(r, key)
          \/ DropUniqueKey(r) \/ RemoveScratchKey(r)
          \/ ClientMakesBudgeted(r) \/ MakeUnbudgeted(r)
    \/ \E key \in ScratchKeys : FindAndRefScratch(key)
    \/ \E key \in client.keys : FindAndRefUnique(key) \/ PostInvalidKey(key)
    \/ \E max \in Limits : SetLimit(max)
    \/ CallPurgeAsNeeded
    \/ \E scratchOnly \in BOOLEAN, n \in 0 .. Cardinality(Resources) :
          PurgeUnlocked(scratchOnly, IF n = 0 THEN Resources ELSE Older(cache, n))
    \/ \E bytes \in Amounts : PurgeToMakeHeadroom(bytes)
    \/ \E bytes \in Amounts, preferScratch \in BOOLEAN : PurgeBytes(bytes, preferScratch)
    \/ ReleaseAll \/ AbandonAll

Spec == Init /\ [][Next]_vars

-----------------------------------------------------------------------------
(* Properties                                                                  *)

Total(S) == MapThenSumSet(LAMBDA r : Size[r], S)
Budgeted == {r \in cache.cached : cache.type[r] = "budgeted"}

(* What validate() checks in debug builds (GrResourceCache.cpp:781), after     *)
(* every call: array and queue, the two maps and the four counters are what    *)
(* the resources' own states say, whatever recursion the call went through.    *)
Accounting ==
    /\ Range(cache.nonpurgeable) = {r \in cache.cached : ~IsPurgeable(cache, r)}
    /\ Len(cache.nonpurgeable) = Cardinality(Range(cache.nonpurgeable))
    /\ cache.purgeable = {r \in cache.cached : IsPurgeable(cache, r)}
    /\ cache.scratchMap = {r \in cache.cached : IsUsableAsScratch(cache, r)}
    /\ \A k \in UniqueKeys :
          {r \in cache.cached : cache.uniqueKey[r] = k} = {cache.uniqueHash[k]} \ {NoResource}
    /\ \A r \in cache.cached :
          /\ cache.uniqueKey[r] # NoKey => r \in Budgeted \cup cache.wrapped
          /\ cache.scratchKey[r] # NoKey => r \notin cache.wrapped
    /\ cache.bytes = Total(cache.cached)
    /\ cache.budgetedCount = Cardinality(Budgeted)
    /\ cache.budgetedBytes = Total(Budgeted)
    /\ cache.purgeableBytes = Total(cache.purgeable)

\* Over budget, everything in the cache is in use.  What is not in use counts
\* against the budget and can be found again.
WithinBudgetOrInUse(c) ==
    /\ OverBudget(c) => c.purgeable = {}
    /\ \A r \in c.purgeable :
          c.type[r] = "budgeted" /\ (r \in c.scratchMap \/ c.uniqueKey[r] # NoKey)

(* An unreferenced resource is kept only if the budget has room for it and     *)
(* somebody can still find it: purgeAsNeeded makes it so, and every call keeps *)
(* it so, but a purge of a number of bytes, which takes references from the    *)
(* inbox under a limit of its own.                                             *)
KeptWithinBudget ==
    /\ []WithinBudgetOrInUse(PurgeAsNeeded(cache))
    /\ [][WithinBudgetOrInUse(cache) =>
             \/ WithinBudgetOrInUse(cache')
             \/ \E bytes \in Amounts, preferScratch \in BOOLEAN :
                    PurgeBytes(bytes, preferScratch)]_vars

(* Timestamps order the resources by their last use, also after the 32 bit     *)
(* counter has wrapped: the queue purges the least recently used first.        *)
RecencyKept ==
    /\ ToSet(cache.recency) = cache.cached
    /\ \A i, j \in DOMAIN cache.recency :
          i < j => cache.stamp[cache.recency[i]] < cache.stamp[cache.recency[j]]

(* purgeToMakeHeadroom purges until the bytes fit, or nothing at all           *)
(* (GrResourceCache.h:185), attachments dropped on the way included.           *)
HeadroomAllOrNothing ==
    \A bytes \in Amounts :
        LET c == WithHeadroom(cache, bytes) IN WouldFit(c, bytes) \/ c = cache

(* While the cache is not torn down, no call takes a resource out of it that   *)
(* somebody holds, a client, another thread's message or another resource,     *)
(* whatever the call purges on its way.                                        *)
InUseStaysCached ==
    [][~over' => \A r \in cache.cached :
          HasRef(cache, r) /\ HasRef(cache', r) => r \in cache'.cached]_vars

(* purgeUnlockedResources(bytesToPurge, ...) purges "until the the provided    *)
(* byte count has been reached or we have purged all unlocked resources"       *)
(* (GrResourceCache.h:193, include/gpu/GrDirectContext.h:248).  Violated.      *)
PurgesTheBytes ==
    \A bytes \in Amounts, preferScratch \in BOOLEAN :
        LET c == WithBytesPurged(cache, bytes, preferScratch) IN
        cache.bytes - c.bytes >= bytes \/ c.purgeable = {}
=============================================================================
