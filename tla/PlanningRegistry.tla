--------------------------- MODULE PlanningRegistry ---------------------------
(***************************************************************************)
(* The process-wide registry of device knowledge                           *)
(* (compile/device_planning/registry.rs).  It keeps, for each namespace    *)
(* (what planning reads of a device), the knowledge that the planning      *)
(* sessions of all threads share: above all a cache of plans of the common *)
(* SWAP roots.  Knowledge is counted by references: an evicted one lives   *)
(* on with the threads that hold it, and its address may then serve again. *)
(*                                                                         *)
(* There are three kinds of shared state, no two held at once: the mutex   *)
(* of the registry, the mutex of each common cache (held while planning)   *)
(* and the atomic weight of each knowledge.  One action is one section of  *)
(* a mutex or one access of the atomic.  Weights are counted in plans.     *)
(***************************************************************************)
EXTENDS Integers, FiniteSets, FiniteSetsExt

CONSTANTS
    Threads,      \* compiling threads
    Namespaces,   \* DevicePlanningNamespace
    Knowledge,    \* addresses of DevicePlanningKnowledge
    Roots,        \* common SWAP roots, in the order of DeviceGateState
    Plans,        \* CanonicalRootResult of a root
    BaseWeight,   \* namespace -> weight of its knowledge without plans
    MaxEntries,   \* DEVICE_PLANNING_REGISTRY_MAX_ENTRIES
    MaxWeight,    \* DEVICE_PLANNING_REGISTRY_MAX_BYTES
    MaxClock,     \* bound: accesses of the registry in one behaviour
    NoKnowledge

ASSUME LimitsAreNaturals == MaxEntries \in Nat /\ MaxWeight \in Nat /\ MaxClock \in Nat
ASSUME WeightsAreNaturals == BaseWeight \in [Namespaces -> Nat]
ASSUME RootsAreFinite == IsFiniteSet(Roots) /\ Roots \subseteq Nat
ASSUME NothingIsNoKnowledge == NoKnowledge \notin Knowledge \cup Namespaces

VARIABLES
    entries,    \* DevicePlanningRegistry::entries
    clock,      \* DevicePlanningRegistry::clock
    space,      \* knowledge -> its namespace
    cache,      \* knowledge -> its common_cache
    planner,    \* knowledge -> the threads that hold the mutex of its cache
    weight,     \* knowledge -> its estimated_bytes
    pc,         \* thread -> where it is
    known,      \* thread -> the knowledge its session holds
    request,    \* thread -> the roots it asked for last
    answer,     \* thread -> the plans pinned for it
    measured    \* thread -> cache_bytes, read under the mutex and stored later

vars == <<entries, clock, space, cache, planner, weight,
          pc, known, request, answer, measured>>
ofThreads == <<known, request, answer, measured>>

Control == {"Idle",        \* between calls
            "Planning",    \* in prepare_common, holding the mutex of the cache
            "Storing",     \* after drop(cache)
            "Refreshing"}  \* about to lock the registry again

Caches == UNION {[R -> Plans] : R \in SUBSET Roots}
NoPlans == [r \in {} |-> NoKnowledge]
Entries == [knowledge : Knowledge, last_access : Nat, weight : Nat]

WeightOf(n, plans) == BaseWeight[n] + Cardinality(DOMAIN plans)

(* refresh_weights: every entry takes the weight of its knowledge. *)
Refreshed(e) == [n \in DOMAIN e |-> [e[n] EXCEPT !.weight = weight[e[n].knowledge]]]

Fits(e, N) ==
    /\ Cardinality(N) <= MaxEntries
    /\ MapThenSumSet(LAMBDA n : e[n].weight, N) <= MaxWeight

(* Mutant: the loop stops as soon as the number of entries is right. *)
KeptByNumber(e, protected) ==
    {n \in DOMAIN e :
        \/ n = protected
        \/ Cardinality({m \in DOMAIN e : m = protected
                            \/ e[m].last_access >= e[n].last_access}) <= MaxEntries}

(* Mutant: the youngest entry goes first (max_by_key). *)
KeptOldest(e, protected) ==
    {n \in DOMAIN e :
        \/ n = protected
        \/ Fits(e, {m \in DOMAIN e : m = protected
                        \/ e[m].last_access <= e[n].last_access})}

(* What the loop of evict_to_limits leaves.  It removes the oldest entry   *)
(* but the protected one until the rest fits.  As every part of what fits  *)
(* fits too, an entry stays just when it fits along with the protected one *)
(* and those accessed later.  The protected one is never removed.          *)
Kept(e, protected) ==
    {n \in DOMAIN e :
        \/ n = protected
        \/ Fits(e, {m \in DOMAIN e : m = protected
                        \/ e[m].last_access >= e[n].last_access})}

Evicted(e, protected) ==
    LET fresh == Refreshed(e) IN [n \in Kept(fresh, protected) |-> fresh[n]]

(* No Arc refers to the allocation. *)
Free(k) ==
    /\ \A n \in DOMAIN entries : entries[n].knowledge # k
    /\ \A t \in Threads : known[t] # k

-----------------------------------------------------------------------------
Init ==
    /\ entries = [n \in {} |-> NoKnowledge]
    /\ clock = 0
    /\ space = [k \in Knowledge |-> NoKnowledge]
    /\ cache = [k \in Knowledge |-> NoPlans]
    /\ planner = [k \in Knowledge |-> {}]
    /\ weight = [k \in Knowledge |-> 0]
    /\ pc = [t \in Threads |-> "Idle"]
    /\ known = [t \in Threads |-> NoKnowledge]
    /\ request = [t \in Threads |-> {}]
    /\ answer = [t \in Threads |-> NoPlans]
    /\ measured = [t \in Threads |-> 0]

Tick == clock < MaxClock /\ clock' = clock + 1

(* Thread t gives up what it held and holds k from now on. *)
Hold(t, k) ==
    /\ known' = [known EXCEPT ![t] = k]
    /\ request' = [request EXCEPT ![t] = {}]
    /\ answer' = [answer EXCEPT ![t] = NoPlans]
    /\ measured' = [measured EXCEPT ![t] = 0]

(* shared_knowledge of a new session, found. *)
ShareKnown(t, n) ==
    /\ pc[t] = "Idle"
    /\ n \in DOMAIN entries
    /\ Tick
    /\ entries' = Evicted([entries EXCEPT ![n].last_access = clock'], n)
    /\ Hold(t, entries[n].knowledge)
    /\ UNCHANGED <<space, cache, planner, weight, pc>>

(* shared_knowledge of a new session, not found. *)
ShareNew(t, n, k) ==
    /\ pc[t] = "Idle"
    /\ n \notin DOMAIN entries
    /\ Free(k)
    /\ Tick
    /\ space' = [space EXCEPT ![k] = n]
    /\ cache' = [cache EXCEPT ![k] = NoPlans]
    /\ weight' = [weight EXCEPT ![k] = WeightOf(n, NoPlans)]
    /\ LET new == [knowledge |-> k, last_access |-> clock', weight |-> weight'[k]]
           inserted == [m \in DOMAIN entries \cup {n} |->
                            IF m = n THEN new
                            ELSE [entries[m] EXCEPT !.weight = weight[entries[m].knowledge]]]
       IN  entries' = [m \in Kept(inserted, n) |-> inserted[m]]
    /\ Hold(t, k)
    /\ UNCHANGED <<planner, pc>>

(* The session is dropped. *)
Drop(t) ==
    /\ pc[t] = "Idle"
    /\ known[t] # NoKnowledge
    /\ Hold(t, NoKnowledge)
    /\ UNCHANGED <<entries, clock, space, cache, planner, weight, pc>>

(* prepare_common, all roots cached. *)
PrepareCached(t, R) ==
    /\ pc[t] = "Idle"
    /\ known[t] # NoKnowledge
    /\ planner[known[t]] = {}
    /\ R \subseteq DOMAIN cache[known[t]]
    /\ request' = [request EXCEPT ![t] = R]
    /\ answer' = [answer EXCEPT ![t] = [r \in R |-> cache[known[t]][r]]]
    /\ UNCHANGED <<entries, clock, space, cache, planner, weight, pc, known, measured>>

(* prepare_common, some roots missing: the mutex is held while planning. *)
PrepareMissing(t, R) ==
    /\ pc[t] = "Idle"
    /\ known[t] # NoKnowledge
    /\ planner[known[t]] = {}
    /\ ~ R \subseteq DOMAIN cache[known[t]]
    /\ planner' = [planner EXCEPT ![known[t]] = {t}]
    /\ request' = [request EXCEPT ![t] = R]
    /\ answer' = [answer EXCEPT ![t] = NoPlans]
    /\ pc' = [pc EXCEPT ![t] = "Planning"]
    /\ UNCHANGED <<entries, clock, space, cache, weight, known, measured>>

(* What planning may stage: plans of all missing roots, and of requested   *)
(* ones already cached that the selected trees depend on.  The fast path   *)
(* and the baseline need not choose the same plans.                        *)
Staged(t) ==
    LET missing == request[t] \ DOMAIN cache[known[t]]
    IN  UNION {[R -> Plans] : R \in {S \in SUBSET request[t] : missing \subseteq S}}

Conflicts(old, staged) == {r \in DOMAIN old \cap DOMAIN staged : old[r] # staged[r]}

(* Mutant: merging prefers the new plan. *)
MergedNewFirst(old, staged) ==
    [r \in DOMAIN old \cup DOMAIN staged |->
        IF r \in DOMAIN staged THEN staged[r] ELSE old[r]]

(* merge inserts in the order of the roots, up to the first conflict. *)
Merged(old, staged) ==
    LET inserted == {r \in DOMAIN staged : \A c \in Conflicts(old, staged) : r < c}
    IN  [r \in DOMAIN old \cup inserted |->
            IF r \in DOMAIN old THEN old[r] ELSE staged[r]]

(* Planning succeeds; the answer is pinned and measured, the mutex dropped. *)
Land(t) ==
    LET k == known[t] IN
    /\ pc[t] = "Planning"
    /\ \E staged \in Staged(t) :
        /\ Conflicts(cache[k], staged) = {}
        /\ cache' = [cache EXCEPT ![k] = Merged(@, staged)]
    /\ answer' = [answer EXCEPT ![t] = [r \in request[t] |-> cache'[k][r]]]
    /\ measured' = [measured EXCEPT ![t] = WeightOf(space[k], cache'[k])]
    /\ planner' = [planner EXCEPT ![k] = {}]
    /\ pc' = [pc EXCEPT ![t] = "Storing"]
    /\ UNCHANGED <<entries, clock, space, weight, known, request>>

(* Planning fails or unwinds, or its plans contradict the cache: the error *)
(* is returned without measuring, what was merged before it stays.  The    *)
(* mutex may be poisoned, which everybody ignores.                         *)
Fail(t) ==
    LET k == known[t] IN
    /\ pc[t] = "Planning"
    /\ \/ UNCHANGED cache
       \/ \E staged \in Staged(t) :
            /\ Conflicts(cache[k], staged) # {}
            /\ cache' = [cache EXCEPT ![k] = Merged(@, staged)]
    /\ planner' = [planner EXCEPT ![k] = {}]
    /\ request' = [request EXCEPT ![t] = {}]
    /\ pc' = [pc EXCEPT ![t] = "Idle"]
    /\ UNCHANGED <<entries, clock, space, weight, known, answer, measured>>

(* estimated_bytes.store.  Another thread may have merged and stored since. *)
StoreWeight(t) ==
    /\ pc[t] = "Storing"
    /\ weight' = [weight EXCEPT ![known[t]] = measured[t]]
    /\ pc' = [pc EXCEPT ![t] = "Refreshing"]
    /\ UNCHANGED <<entries, clock, space, cache, planner, ofThreads>>

(* Mutant: whatever is registered under the namespace is refreshed. *)
RegisteredAnew(k) == space[k] \in DOMAIN entries

(* ptr::eq: the registered knowledge is this one, not its replacement. *)
Registered(k) ==
    /\ space[k] \in DOMAIN entries
    /\ entries[space[k]].knowledge = k

(* refresh_registry_entry. *)
Refresh(t) ==
    LET n == space[known[t]]
        touched == IF Registered(known[t])
                   THEN [entries EXCEPT ![n].last_access = clock + 1]
                   ELSE entries
    IN  /\ pc[t] = "Refreshing"
        /\ Tick
        /\ entries' = Evicted(touched, n)
        /\ pc' = [pc EXCEPT ![t] = "Idle"]
        /\ UNCHANGED <<space, cache, planner, weight, ofThreads>>

Next == \E t \in Threads :
    \/ \E n \in Namespaces : ShareKnown(t, n)
    \/ \E n \in Namespaces, k \in Knowledge : ShareNew(t, n, k)
    \/ Drop(t)
    \/ \E R \in (SUBSET Roots) \ {{}} : PrepareCached(t, R) \/ PrepareMissing(t, R)
    \/ Land(t)
    \/ Fail(t)
    \/ StoreWeight(t)
    \/ Refresh(t)

Spec == Init /\ [][Next]_vars

-----------------------------------------------------------------------------
(* Shapes, and who holds the mutex of a cache: the thread planning for it. *)
TypeOK ==
    /\ DOMAIN entries \subseteq Namespaces
    /\ entries \in [DOMAIN entries -> Entries]
    /\ clock \in 0..MaxClock
    /\ space \in [Knowledge -> Namespaces \cup {NoKnowledge}]
    /\ cache \in [Knowledge -> Caches]
    /\ weight \in [Knowledge -> Nat]
    /\ pc \in [Threads -> Control]
    /\ known \in [Threads -> Knowledge \cup {NoKnowledge}]
    /\ request \in [Threads -> SUBSET Roots]
    /\ answer \in [Threads -> Caches]
    /\ measured \in [Threads -> Nat]
    /\ planner = [k \in Knowledge |->
                    {t \in Threads : pc[t] = "Planning" /\ known[t] = k}]

(* After every section of the registry its entries respect both limits,    *)
(* except that a single entry in use may be too heavy (evict_to_limits).   *)
(* Weights are read at each section, whoever stored them since.            *)
WithinLimits ==
    \/ Fits(entries, DOMAIN entries)
    \/ Cardinality(DOMAIN entries) = 1

(* Every plan pinned for a thread is still the one in the common cache of  *)
(* its knowledge, so all who share knowledge compile with one plan for     *)
(* each SWAP, although planners may contradict each other, merges stop     *)
(* half-way and entries are evicted under their users (prepare_common).    *)
AnswersAgree ==
    \A t \in Threads : known[t] # NoKnowledge =>
        \A r \in DOMAIN answer[t] :
            /\ r \in DOMAIN cache[known[t]]
            /\ answer[t][r] = cache[known[t]][r]

(* An entry is evicted only when it would not fit with those that stay,    *)
(* and only if all that stay are younger, but for the one protected: that  *)
(* of the namespace whose session is calling (evict_to_limits).            *)
EvictionIsLRU ==
    [][LET gone == DOMAIN entries \ DOMAIN entries' IN
       \A g \in gone :
         /\ \A n \in DOMAIN entries' \cap DOMAIN entries :
              \/ entries[g].last_access < entries[n].last_access
              \/ entries'[n].last_access = clock'
              \/ \E t \in Threads : /\ pc[t] = "Refreshing" /\ pc'[t] = "Idle"
                                    /\ space[known[t]] = n
         /\ LET younger == {n \in gone : entries[n].last_access > entries[g].last_access}
                rest == DOMAIN entries' \cup younger \cup {g}
                load == [n \in rest |->
                            [weight |-> IF n \in DOMAIN entries'
                                        THEN entries'[n].weight
                                        ELSE weight[entries[n].knowledge]]]
            IN  ~ Fits(load, rest)]_vars

(* Thread t is the one that steps: it refreshes, or, as no thread moves on *)
(* otherwise, it opens a session and no other changes what it holds.       *)
Refreshes(t) == pc[t] = "Refreshing" /\ pc'[t] = "Idle"
Opens(t) ==
    /\ pc[t] = "Idle" /\ UNCHANGED pc
    /\ \A u \in Threads \ {t} : known'[u] = known[u]

(* An entry becomes more recent only for the thread that calls, whose own  *)
(* knowledge it is: one that opens a session on it and holds it from then  *)
(* on, or one that held it when it began to plan and refreshes it now.  A  *)
(* session that outlived its entry leaves the one that took its place as   *)
(* old as it was (ptr::eq in refresh_registry_entry), though the eviction  *)
(* of the same call spares that one, being of its namespace.               *)
RecencyIsEarned ==
    [][\A n \in DOMAIN entries \cap DOMAIN entries' :
         entries'[n].last_access # entries[n].last_access =>
            \E t \in Threads :
                /\ Refreshes(t) \/ Opens(t)
                /\ known'[t] = entries[n].knowledge
                /\ entries'[n].knowledge = entries[n].knowledge]_vars

=============================================================================
