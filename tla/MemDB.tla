-------------------------------- MODULE MemDB -------------------------------
(***************************************************************************)
(* The in-memory store of pkg/memdb.go under the command consumer, which   *)
(* keeps there how far each partition of the request topic was read.  A    *)
(* consumer loads its offset in a View; it executes the command at that    *)
(* offset and stores the next one in an Update.  Every transaction holds   *)
(* the database's RWMutex; nothing is undone when one fails.               *)
(***************************************************************************)
EXTENDS Naturals, FiniteSets

CONSTANTS
    Partitions,    \* each with a consumer of its own
    MaxOffset,     \* bound on the offsets
    NoBucket,      \* the bucket of the offsets does not exist
    Closed         \* the map of buckets is nil

VARIABLES
    offsets,       \* the bucket of the offsets: the ones stored in it
    readers,       \* the consumers inside View
    writer,        \* the consumers inside Update: one at most
    at,            \* where each consumer is
    position       \* the offset each consumer goes on from

memVars == <<offsets, readers, writer, at, position>>

\* A bucket maps the partitions it has an offset for.
Buckets == UNION {[S -> 0 .. MaxOffset] : S \in SUBSET Partitions}

\* Neither a missing bucket nor a closed database is a bucket.
Parameters ==
    /\ MaxOffset \in Nat
    /\ NoBucket \notin Buckets
    /\ Closed \notin Buckets
    /\ Closed # NoBucket

EmptyBucket == [p \in {} |-> 0]

Step(p, from, to) == at[p] = from /\ at' = [at EXCEPT ![p] = to]

\* Where consumer p finds the bucket or the key missing it begins at 0:
\* OffsetOldest.
Get(p) ==
    IF offsets \in {Closed, NoBucket} THEN 0
    ELSE IF p \in DOMAIN offsets THEN offsets[p] ELSE 0

-----------------------------------------------------------------------------
(***************************************************************************)
(* View: RLock, read, RUnlock.                                             *)
(***************************************************************************)

View(p) ==
    /\ Step(p, "start", "view")
    /\ writer = {}
    /\ readers' = readers \cup {p}
    /\ UNCHANGED <<offsets, writer, position>>

LoadOffset(p) ==
    /\ Step(p, "view", "loaded")
    /\ position' = [position EXCEPT ![p] = Get(p)]
    /\ UNCHANGED <<offsets, readers, writer>>

EndView(p) ==
    /\ Step(p, "loaded", "execute")
    /\ readers' = readers \ {p}
    /\ UNCHANGED <<offsets, writer, position>>

-----------------------------------------------------------------------------
(***************************************************************************)
(* Update: Lock, create the bucket, put, Unlock.                           *)
(***************************************************************************)

\* Mutation of CanLock: the readers are not waited for.
CanLockBesideReaders == writer = {}

CanLock == writer = {} /\ readers = {}

Update(p) ==
    /\ Step(p, "execute", "update")
    /\ CanLock
    /\ writer' = {p}
    /\ UNCHANGED <<offsets, readers, position>>

\* Mutation of Created: an existing bucket is replaced.
CreatedAnew(o) == EmptyBucket

Created(o) == IF o = NoBucket THEN EmptyBucket ELSE o

\* Writing into the map of a closed database panics; the deferred Unlock runs.
CreateBucketIfNotExists(p) ==
    \/ /\ offsets # Closed
       /\ Step(p, "update", "put")
       /\ offsets' = Created(offsets)
       /\ UNCHANGED <<readers, writer, position>>
    \/ /\ offsets = Closed
       /\ Step(p, "update", "panicked")
       /\ writer' = {}
       /\ UNCHANGED <<offsets, readers, position>>

Put(p) ==
    /\ Step(p, "put", "unlock")
    /\ position[p] < MaxOffset
    /\ position' = [position EXCEPT ![p] = position[p] + 1]
    /\ offsets' = [q \in DOMAIN offsets \cup {p} |->
                     IF q = p THEN position[p] + 1 ELSE offsets[q]]
    /\ UNCHANGED <<readers, writer>>

EndUpdate(p) ==
    /\ Step(p, "unlock", "execute")
    /\ writer' = {}
    /\ UNCHANGED <<offsets, readers, position>>

\* The callback fails: what it wrote stays, and the consumer loads its offset
\* again.
UpdateFails(p) ==
    /\ at[p] \in {"update", "put", "unlock"}
    /\ at' = [at EXCEPT ![p] = "start"]
    /\ writer' = {}
    /\ UNCHANGED <<offsets, readers, position>>

Close ==
    /\ offsets # Closed
    /\ CanLock
    /\ offsets' = Closed
    /\ UNCHANGED <<readers, writer, at, position>>

Init ==
    /\ offsets = NoBucket
    /\ readers = {}
    /\ writer = {}
    /\ at = [p \in Partitions |-> "start"]
    /\ position = [p \in Partitions |-> 0]

Next ==
    \/ \E p \in Partitions :
        \/ View(p) \/ LoadOffset(p) \/ EndView(p)
        \/ Update(p) \/ CreateBucketIfNotExists(p) \/ Put(p) \/ EndUpdate(p)
        \/ UpdateFails(p)
    \/ Close

Spec == Init /\ [][Next]_memVars

-----------------------------------------------------------------------------
(***************************************************************************)
(* Properties.                                                             *)
(***************************************************************************)

\* While the database is open no command that was done is delivered again: a
\* consumer goes on from the offset that is stored, also after an Update of its
\* own failed half way or another consumer created the bucket.
NothingForgotten ==
    offsets # Closed => \A p \in Partitions :
        at[p] \in {"loaded", "execute", "update"} => position[p] = Get(p)

\* While a View is open nothing it can read changes, not even by Close
\* (memdb.go:55-62, 71-76).
KeepsViews == readers \cap readers' # {} => offsets' = offsets

ViewIsStable == [][KeepsViews]_memVars
=============================================================================
