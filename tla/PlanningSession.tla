--------------------------- MODULE PlanningSession ---------------------------
(***************************************************************************)
(* The workflow-local overlay of device planning                           *)
(* (compile/device_planning/session.rs).  Threads that compile for one     *)
(* device share a session and ask it for native plans of sets of roots.    *)
(* Finished batches are kept in an LRU cache; roots that are in no batch   *)
(* are planned outside the lock by one thread (a flight) while every       *)
(* request that would plan one of them again waits on a condition variable.*)
(*                                                                         *)
(* One action is one critical section of `state`, the section before the   *)
(* wait included: Condvar::wait releases the mutex atomically.  A plan is  *)
(* a member of Plans, equal when canonical_results_equal says so.  The     *)
(* planner is any function of the missing roots, successful or not: the    *)
(* session checks its results, so nothing is assumed of it.                *)
(*                                                                         *)
(* The common SWAP roots of `prepare` go to the process registry and are   *)
(* not part of this module; `roots` are those left for prepare_local.      *)
(***************************************************************************)
EXTENDS Integers, FiniteSets, Functions

CONSTANTS
    Threads,       \* threads that share the session
    Roots,         \* the DeviceGateStates they ask for
    Plans,         \* canonical results of a root, feasible or unsupported
    Depends,       \* root -> roots its selected tree may contain
    RootBytes,     \* root -> estimated bytes of its entry in a batch
    MaxEntries,    \* SESSION_CACHE_MAX_ENTRIES
    MaxBytes,      \* SESSION_CACHE_MAX_BYTES
    Requests,      \* the sets of roots they ask for
    MaxCalls       \* bound: calls of prepare over the life of the session

ASSUME LimitsAreNaturals == MaxEntries \in Nat /\ MaxBytes \in Nat /\ MaxCalls \in Nat
ASSUME RootsAreWeighed ==
    /\ Depends \in [Roots -> SUBSET Roots]
    /\ RootBytes \in [Roots -> Nat]
ASSUME RootsAreFinite == IsFiniteSet(Roots)
ASSUME RequestsAreOfRoots == Requests \subseteq (SUBSET Roots) \ {{}}

VARIABLES
    pc,              \* thread -> where its call is
    request,         \* thread -> the roots it asked for, sorted and deduplicated
    missing,         \* thread -> roots no batch held when it last looked
    local,           \* thread -> the reusable results it took before planning
    answer,          \* thread -> the snapshot its last call returned, or Failed
    batches,         \* requested roots -> cached batch
    flights,         \* sets of roots being planned
    estimatedBytes,  \* estimated_bytes of the state: the sum kept over batches
    clock,           \* clock of the LRU order
    calls            \* number of calls so far

vars == <<pc, request, missing, local, answer,
          batches, flights, estimatedBytes, clock, calls>>
call == <<request, missing, local>>
cacheState == <<batches, estimatedBytes, clock>>

RootSets == (SUBSET Roots) \ {{}}
Caches == UNION {[S -> Plans] : S \in SUBSET Roots}
EmptyCache == [r \in {} |-> r]

\* What a call returns.
Found(c) == [ok |-> TRUE, roots |-> c]
Failed == [ok |-> FALSE, roots |-> EmptyCache]

Control == {"Idle",      \* no call
            "Locking",   \* about to take the lock and look
            "Waiting",   \* in ready.wait
            "Planning",  \* outside the lock, its flight registered
            "Panicked"}  \* unwound out of planning

-----------------------------------------------------------------------------
(* DevicePlanningSessionCache and DevicePlanningSessionState *)

\* merge, ensure_compatible: two caches conflict on a root they plan differently.
Compatible(c, d) == \A r \in DOMAIN c \cap DOMAIN d : c[r] = d[r]

Merged(c, d) == [r \in DOMAIN c \cup DOMAIN d |-> IF r \in DOMAIN c THEN c[r] ELSE d[r]]

\* Mutant: a new batch is not compared with the cached ones.
CompatibilityAssumed(c) == TRUE

CompatibleWithAll(c) == \A k \in DOMAIN batches : Compatible(batches[k].roots, c)

\* The sum of the values of a function.
Total(f) == FoldFunction(+, 0, f)

\* estimated_bytes of a cache.
Bytes(c) == Total([r \in DOMAIN c |-> RootBytes[r]])

\* Mutant: a batch that holds some of the roots is taken for an answer.
AnsweringInPart(R) == {k \in DOMAIN batches : R \cap DOMAIN batches[k].roots # {}}

\* cached: the batch of exactly these roots, or a smallest one that holds them.
Answering(R) ==
    IF R \in DOMAIN batches THEN {R}
    ELSE LET holding == {k \in DOMAIN batches : R \subseteq DOMAIN batches[k].roots}
         IN  {k \in holding : \A j \in holding :
                Cardinality(DOMAIN batches[k].roots) <= Cardinality(DOMAIN batches[j].roots)}

Holding(r) == {k \in DOMAIN batches : r \in DOMAIN batches[k].roots}
Latest(r) == CHOOSE k \in Holding(r) :
                \A j \in Holding(r) : batches[j].lastUsed <= batches[k].lastUsed

\* reusable_roots: for each root the result of the most recently used batch.
Reusable(R) == [r \in {r \in R : Holding(r) # {}} |-> batches[Latest(r)].roots[r]]
Missing(R) == {r \in R : Holding(r) = {}}

\* Mutant: only a flight of exactly these roots is recognised.
SameFlight(R) == R \in flights

OverlapsFlight(R) == \E f \in flights : f \cap R # {}

\* Mutant: the bytes of the batch that is replaced are not given back.
CounterWithoutRefund(R, c) == estimatedBytes + Bytes(c)

\* insert: the byte counter and the batches once batch c of roots R is in.
CounterWith(R, c) ==
    estimatedBytes - (IF R \in DOMAIN batches THEN batches[R].bytes ELSE 0) + Bytes(c)

BatchesWith(R, c) ==
    [k \in DOMAIN batches \cup {R} |->
        IF k = R THEN [roots |-> c, bytes |-> Bytes(c), lastUsed |-> clock + 1]
        ELSE batches[k]]

\* The oldest batches make room: the ones that stay are the longest most
\* recently used part within both limits.
Kept(R, c) ==
    LET all == BatchesWith(R, c)
        newer(k) == {j \in DOMAIN all : all[j].lastUsed >= all[k].lastUsed}
    IN  {k \in DOMAIN all :
            /\ Cardinality(newer(k)) <= MaxEntries
            /\ CounterWith(R, c)
                - Total([j \in DOMAIN all \ newer(k) |-> all[j].bytes]) <= MaxBytes}

\* insert, once the compatibility of the batch has been checked.  A batch that
\* alone exceeds the byte limit is not kept.
Store(R, c) ==
    IF Bytes(c) > MaxBytes THEN UNCHANGED cacheState
    ELSE LET all == BatchesWith(R, c)
         IN  /\ clock' = clock + 1
             /\ batches' = [k \in Kept(R, c) |-> all[k]]
             /\ estimatedBytes' = CounterWith(R, c)
                    - Total([k \in DOMAIN all \ Kept(R, c) |-> all[k].bytes])

\* The call returns and its variables go out of scope.
Forget(t) ==
    /\ request' = [request EXCEPT ![t] = {}]
    /\ missing' = [missing EXCEPT ![t] = {}]
    /\ local' = [local EXCEPT ![t] = EmptyCache]

Return(t, result) ==
    /\ pc' = [pc EXCEPT ![t] = "Idle"]
    /\ answer' = [answer EXCEPT ![t] = result]
    /\ Forget(t)

-----------------------------------------------------------------------------
(* prepare_local *)

Init ==
    /\ pc = [t \in Threads |-> "Idle"]
    /\ request = [t \in Threads |-> {}]
    /\ missing = [t \in Threads |-> {}]
    /\ local = [t \in Threads |-> EmptyCache]
    /\ answer = [t \in Threads |-> Failed]
    /\ batches = [k \in {} |-> k]
    /\ flights = {}
    /\ estimatedBytes = 0
    /\ clock = 0
    /\ calls = 0

Call(t, R) ==
    /\ pc[t] = "Idle"
    /\ calls < MaxCalls
    /\ calls' = calls + 1
    /\ request' = [request EXCEPT ![t] = R]
    /\ answer' = [answer EXCEPT ![t] = Failed]
    /\ pc' = [pc EXCEPT ![t] = "Locking"]
    /\ UNCHANGED <<missing, local, cacheState, flights>>

\* One batch answers the whole request and becomes the most recently used.
ServeCached(t) ==
    /\ pc[t] = "Locking"
    /\ \E k \in Answering(request[t]) :
          /\ batches' = [batches EXCEPT ![k].lastUsed = clock + 1]
          /\ Return(t, Found(batches[k].roots))
    /\ clock' = clock + 1
    /\ UNCHANGED <<flights, estimatedBytes, calls>>

\* Several batches together answer it; the combination becomes a batch.  No
\* thread is notified.
ServeCombined(t) ==
    /\ pc[t] = "Locking"
    /\ Answering(request[t]) = {}
    /\ Missing(request[t]) = {}
    /\ LET reusable == Reusable(request[t])
       IN  IF CompatibleWithAll(reusable)
           THEN Store(request[t], reusable) /\ Return(t, Found(reusable))
           ELSE UNCHANGED cacheState /\ Return(t, Failed)
    /\ UNCHANGED <<flights, calls>>

\* Mutant: the case that nothing is missing is not recognised.
TakeOffWithNothingMissing(t) ==
    /\ pc[t] = "Locking"
    /\ Answering(request[t]) = {}
    /\ ~ OverlapsFlight(Missing(request[t]))
    /\ flights' = flights \cup {Missing(request[t])}
    /\ missing' = [missing EXCEPT ![t] = Missing(request[t])]
    /\ local' = [local EXCEPT ![t] = Reusable(request[t])]
    /\ pc' = [pc EXCEPT ![t] = "Planning"]
    /\ UNCHANGED <<request, answer, cacheState, calls>>

\* The thread will plan what no batch holds: it registers the flight.
TakeOff(t) ==
    /\ pc[t] = "Locking"
    /\ Answering(request[t]) = {}
    /\ Missing(request[t]) # {}
    /\ ~ OverlapsFlight(Missing(request[t]))
    /\ flights' = flights \cup {Missing(request[t])}
    /\ missing' = [missing EXCEPT ![t] = Missing(request[t])]
    /\ local' = [local EXCEPT ![t] = Reusable(request[t])]
    /\ pc' = [pc EXCEPT ![t] = "Planning"]
    /\ UNCHANGED <<request, answer, cacheState, calls>>

\* Another thread is planning one of the missing roots.
Wait(t) ==
    /\ pc[t] = "Locking"
    /\ Answering(request[t]) = {}
    /\ OverlapsFlight(Missing(request[t]))
    /\ missing' = [missing EXCEPT ![t] = Missing(request[t])]
    /\ pc' = [pc EXCEPT ![t] = "Waiting"]
    /\ UNCHANGED <<request, local, answer, cacheState, flights, calls>>

\* Condvar allows a wait to end without a notification.
SpuriousWakeup(t) ==
    /\ pc[t] = "Waiting"
    /\ pc' = [pc EXCEPT ![t] = "Locking"]
    /\ UNCHANGED <<call, answer, cacheState, flights, calls>>

\* Mutant: nobody is notified.
NotifiedNobody(returning) == [pc EXCEPT ![returning] = "Idle"]

\* notify_all
Notified(returning) ==
    [t \in Threads |-> IF t = returning THEN "Idle"
                       ELSE IF pc[t] = "Waiting" THEN "Locking" ELSE pc[t]]

\* What planning the roots M can export: a plan of each, and of some roots of
\* their selected trees.
Staged(M) == UNION {[M \cup S -> Plans] : S \in SUBSET UNION {Depends[r] : r \in M}}

\* Mutant: a failed planning returns before its flight is removed.
LandOnlyOnSuccess(t) ==
    /\ pc[t] = "Planning"
    /\ pc' = Notified(t)
    /\ \/ /\ answer' = [answer EXCEPT ![t] = Failed]      \* planning failed
          /\ UNCHANGED <<cacheState, flights>>
       \/ \E staged \in Staged(missing[t]) :
          /\ flights' = flights \ {missing[t]}
          /\ LET cache == Merged(local[t], staged)
             IN  IF Compatible(local[t], staged) /\ CompatibleWithAll(cache)
                 THEN /\ answer' = [answer EXCEPT ![t] = Found(cache)]
                      /\ Store(request[t], cache)
                 ELSE /\ answer' = [answer EXCEPT ![t] = Failed]
                      /\ UNCHANGED cacheState
    /\ Forget(t)
    /\ UNCHANGED calls

\* The planner returned: the flight ends, whatever the result, and everyone who
\* waits looks again.  The fast path and its fallback differ in speed only.
Land(t) ==
    /\ pc[t] = "Planning"
    /\ flights' = flights \ {missing[t]}
    /\ pc' = Notified(t)
    /\ \/ /\ answer' = [answer EXCEPT ![t] = Failed]      \* planning failed
          /\ UNCHANGED cacheState
       \/ \E staged \in Staged(missing[t]) :
             LET cache == Merged(local[t], staged)
             IN  IF Compatible(local[t], staged) /\ CompatibleWithAll(cache)
                 THEN /\ answer' = [answer EXCEPT ![t] = Found(cache)]
                      /\ Store(request[t], cache)
                 ELSE /\ answer' = [answer EXCEPT ![t] = Failed]
                      /\ UNCHANGED cacheState
    /\ Forget(t)
    /\ UNCHANGED calls

\* The planner panicked: nothing on the way up removes the flight.
Panic(t) ==
    /\ pc[t] = "Planning"
    /\ pc' = [pc EXCEPT ![t] = "Panicked"]
    /\ UNCHANGED <<call, answer, cacheState, flights, calls>>

\* The critical section of a thread that has the lock.
Look(t) == ServeCached(t) \/ ServeCombined(t) \/ TakeOff(t) \/ Wait(t)

Next ==
    \E t \in Threads :
        \/ \E R \in Requests : Call(t, R)
        \/ Look(t)
        \/ SpuriousWakeup(t)
        \/ Land(t)
        \/ Panic(t)

Spec == Init /\ [][Next]_vars

\* Every thread that runs is scheduled and gets the lock in the end, and the
\* planner ends.
Fairness == \A t \in Threads : WF_vars(Look(t)) /\ WF_vars(Land(t))
FairSpec == Spec /\ Fairness

-----------------------------------------------------------------------------
(* Properties *)

Batch == [roots : Caches, bytes : Nat, lastUsed : 0 .. MaxCalls]

TypeOK ==
    /\ pc \in [Threads -> Control]
    /\ request \in [Threads -> SUBSET Roots]
    /\ missing \in [Threads -> SUBSET Roots]
    /\ local \in [Threads -> Caches]
    /\ answer \in [Threads -> [ok : BOOLEAN, roots : Caches]]
    /\ DOMAIN batches \subseteq RootSets
    /\ \A k \in DOMAIN batches : batches[k] \in Batch
    /\ flights \subseteq RootSets
    /\ estimatedBytes \in Nat
    /\ clock \in 0 .. MaxCalls
    /\ calls \in 0 .. MaxCalls

Flying(t) == pc[t] \in {"Planning", "Panicked"}

\* No root is planned by two threads at a time, and the flights are exactly
\* those of the threads that plan: removing its own flight by value, a thread
\* never ends the flight of another (take-off and landing in prepare_local).
FlightsApart ==
    /\ flights = {missing[t] : t \in {u \in Threads : Flying(u)}}
    /\ \A t, u \in Threads : t # u /\ Flying(t) /\ Flying(u) => missing[t] \cap missing[u] = {}

\* No wakeup is lost: whoever waits, waits for a flight that has not landed
\* and whose landing will notify it, although batches come and go meanwhile.
WaitersHaveFlight ==
    \A t \in Threads : pc[t] = "Waiting" =>
        \E u \in Threads : Flying(u) /\ missing[u] \cap missing[t] # {}

\* Batches planned at different times, by different threads and from different
\* leftovers never contradict each other, whatever the planner returns: a root
\* has one plan in the session as long as some batch holds it
\* (ensure_compatible, merge).
CacheCoherent ==
    \A j, k \in DOMAIN batches :
        /\ Compatible(batches[j].roots, batches[k].roots)
        /\ k \subseteq DOMAIN batches[k].roots

\* The cache never exceeds its limits, and the byte counter that decides the
\* evictions is the sum over the batches through every replacement, eviction
\* and oversized batch (insert).
CacheWithinLimits ==
    /\ Cardinality(DOMAIN batches) <= MaxEntries
    /\ estimatedBytes <= MaxBytes
    /\ estimatedBytes = Total([k \in DOMAIN batches |-> Bytes(batches[k].roots)])

\* Thread t returns a snapshot in this step.
Returns(t) == pc[t] # "Idle" /\ pc'[t] = "Idle" /\ answer'[t].ok

\* A call that does not fail returns a plan of every root it asked for, none of
\* which contradicts a batch then in the cache, even if the batches its
\* leftovers came from were evicted and replanned during its flight.
SnapshotsComplete ==
    [][\A t \in Threads : Returns(t) =>
            /\ request[t] \subseteq DOMAIN answer'[t].roots
            /\ \A k \in DOMAIN batches' :
                    Compatible(batches'[k].roots, answer'[t].roots)]_vars

\* A thread that needs a root whose planner panicked.
Stranded(t) ==
    pc[t] = "Waiting" /\ \E u \in Threads : pc[u] = "Panicked" /\ missing[u] \cap missing[t] # {}

\* Every call returns, unless its own planner panics or it waits for one that did.
EveryCallReturns ==
    \A t \in Threads :
        pc[t] = "Locking" ~> pc[t] \in {"Idle", "Panicked"} \/ Stranded(t)

=============================================================================
