---------------------------- MODULE LazyPairCache ----------------------------
(***************************************************************************)
(* The caches of lower bounds on the cost of routing a pair                *)
(* (compile/sabre/routing.rs).  The trials of one routing target run on    *)
(* parallel threads.  Each has a cache of its own and shares a second one  *)
(* in which a bound is computed by one thread, the leader, while the       *)
(* others that ask for it wait for its flight.                             *)
(*                                                                         *)
(* A flight is an allocation shared by reference counts: it is in use as   *)
(* long as the shared cache or a thread refers to it, and its address may  *)
(* serve another flight afterwards.  One action is one critical section,   *)
(* of the cache's mutex or of the mutex of a flight.  The bound of a key   *)
(* is a pure function of the target.  A leader may panic in the search; a  *)
(* guard then withdraws its flight while the thread unwinds.               *)
(***************************************************************************)
EXTENDS Integers, FiniteSets

CONSTANTS
    Threads,       \* threads that run the trials
    Keys,          \* (requirement, left, right)
    Bounds,        \* route lower bounds, None among them
    Bound,         \* key -> its bound
    Flights,       \* addresses a flight may have: never fewer than threads
    Budget,        \* LAZY_PAIR_CACHE_BUDGET
    TrialBudget,   \* TRIAL_PAIR_CACHE_BUDGET
    NoFlight, NoAnswer

ASSUME BoundIsFunction == Bound \in [Keys -> Bounds]
ASSUME BudgetsAreNaturals == Budget \in Nat /\ TrialBudget \in Nat
ASSUME NothingIsNothing == NoFlight \notin Flights /\ NoAnswer \notin Bounds
ASSUME KeysAreFinite == IsFiniteSet(Keys) /\ Keys # {}

VARIABLES
    pc,        \* thread -> where its lookup is
    key,       \* thread -> the key it asks for
    flight,    \* thread -> the flight it holds a reference to
    answer,    \* thread -> what its last lookup returned
    memo,      \* thread -> the values of its TrialPairCache
    values,    \* LazyPairCache::values
    flights,   \* LazyPairCache::flights
    state      \* flight -> LazyPairFlight::state

vars == <<pc, key, flight, answer, memo, values, flights, state>>

Control == {"Idle",        \* between lookups
            "Looking",     \* about to lock the shared cache
            "Checking",    \* about to lock the flight it joined
            "Sleeping",    \* in ready.wait
            "Computing",   \* leader, searching
            "Storing",     \* leader, flight is Ready
            "Notifying",   \* leader, flight is out of the cache
            "Aborting",    \* unwinding, flight is Aborted
            "Leaving",     \* unwinding, flight is out of the cache
            "Panicked"}    \* unwound

\* LazyPairFlightState
Pending == [kind |-> "Pending", value |-> NoAnswer]
Ready(v) == [kind |-> "Ready", value |-> v]
Aborted == [kind |-> "Aborted", value |-> NoAnswer]
States == [kind : {"Pending", "Ready", "Aborted"}, value : Bounds \cup {NoAnswer}]

Caches == UNION {[S -> Bounds] : S \in SUBSET Keys}
EmptyCache == [k \in {} |-> NoAnswer]

\* values.entry(key).or_insert(value) below a budget.
With(cache, k, v, budget) ==
    IF Cardinality(DOMAIN cache) < budget /\ k \notin DOMAIN cache
    THEN [j \in DOMAIN cache \cup {k} |-> IF j = k THEN v ELSE cache[j]]
    ELSE cache

Without(k) == [j \in DOMAIN flights \ {k} |-> flights[j]]

\* Mutant: a flight is freed with its entry although threads still refer to it.
FreeOnRemoval(f) == f \notin {flights[k] : k \in DOMAIN flights}

\* No Arc refers to the allocation.
Free(f) ==
    /\ f \notin {flights[k] : k \in DOMAIN flights}
    /\ f \notin {flight[t] : t \in Threads}

\* ready.notify_all of flight f, while thread t goes on at p.
Notified(f, t, p) ==
    [u \in Threads |-> IF u = t THEN p
                       ELSE IF pc[u] = "Sleeping" /\ flight[u] = f THEN "Checking"
                       ELSE pc[u]]

\* The lookup returns v, and the trial remembers it.
Return(t, v) ==
    /\ answer' = [answer EXCEPT ![t] = v]
    /\ memo' = [memo EXCEPT ![t] = With(@, key[t], v, TrialBudget)]
    /\ flight' = [flight EXCEPT ![t] = NoFlight]

-----------------------------------------------------------------------------
Init ==
    /\ pc = [t \in Threads |-> "Idle"]
    /\ key = [t \in Threads |-> CHOOSE k \in Keys : TRUE]
    /\ flight = [t \in Threads |-> NoFlight]
    /\ answer = [t \in Threads |-> NoAnswer]
    /\ memo = [t \in Threads |-> EmptyCache]
    /\ values = EmptyCache
    /\ flights = [k \in {} |-> NoFlight]
    /\ state = [f \in Flights |-> Pending]

\* The trial's own cache answers, or the shared one is asked.
Ask(t, k) ==
    /\ pc[t] = "Idle"
    /\ key' = [key EXCEPT ![t] = k]
    /\ IF k \in DOMAIN memo[t]
       THEN answer' = [answer EXCEPT ![t] = memo[t][k]] /\ UNCHANGED pc
       ELSE /\ answer' = [answer EXCEPT ![t] = NoAnswer]
            /\ pc' = [pc EXCEPT ![t] = "Looking"]
    /\ UNCHANGED <<flight, memo, values, flights, state>>

Hit(t) ==
    /\ pc[t] = "Looking"
    /\ key[t] \in DOMAIN values
    /\ Return(t, values[key[t]])
    /\ pc' = [pc EXCEPT ![t] = "Idle"]
    /\ UNCHANGED <<key, values, flights, state>>

Join(t) ==
    /\ pc[t] = "Looking"
    /\ key[t] \in DOMAIN flights \ DOMAIN values
    /\ flight' = [flight EXCEPT ![t] = flights[key[t]]]
    /\ pc' = [pc EXCEPT ![t] = "Checking"]
    /\ UNCHANGED <<key, answer, memo, values, flights, state>>

\* Mutant: an aborted flight still in the cache is overwritten.
LeadOverAborted(t) ==
    /\ pc[t] = "Looking"
    /\ key[t] \notin DOMAIN values
    /\ key[t] \in DOMAIN flights => state[flights[key[t]]].kind = "Aborted"
    /\ \E f \in Flights :
          /\ Free(f)
          /\ state' = [state EXCEPT ![f] = Pending]
          /\ flights' = [k \in DOMAIN flights \cup {key[t]} |->
                            IF k = key[t] THEN f ELSE flights[k]]
          /\ flight' = [flight EXCEPT ![t] = f]
    /\ pc' = [pc EXCEPT ![t] = "Computing"]
    /\ UNCHANGED <<key, answer, memo, values>>

Lead(t) ==
    /\ pc[t] = "Looking"
    /\ key[t] \notin DOMAIN values \cup DOMAIN flights
    /\ \E f \in Flights :
          /\ Free(f)
          /\ state' = [state EXCEPT ![f] = Pending]
          /\ flights' = [k \in DOMAIN flights \cup {key[t]} |->
                            IF k = key[t] THEN f ELSE flights[k]]
          /\ flight' = [flight EXCEPT ![t] = f]
    /\ pc' = [pc EXCEPT ![t] = "Computing"]
    /\ UNCHANGED <<key, answer, memo, values>>

\* Mutant: the state is not tested before the wait.
SleepUntested(t) ==
    /\ pc[t] = "Checking"
    /\ pc' = [pc EXCEPT ![t] = "Sleeping"]
    /\ UNCHANGED <<key, flight, answer, memo, values, flights, state>>

Sleep(t) ==
    /\ pc[t] = "Checking"
    /\ state[flight[t]].kind = "Pending"
    /\ pc' = [pc EXCEPT ![t] = "Sleeping"]
    /\ UNCHANGED <<key, flight, answer, memo, values, flights, state>>

Receive(t) ==
    /\ pc[t] = "Checking"
    /\ state[flight[t]].kind = "Ready"
    /\ Return(t, state[flight[t]].value)
    /\ pc' = [pc EXCEPT ![t] = "Idle"]
    /\ UNCHANGED <<key, values, flights, state>>

\* The leader panicked: from the start again, perhaps as the leader.
Retry(t) ==
    /\ pc[t] = "Checking"
    /\ state[flight[t]].kind = "Aborted"
    /\ flight' = [flight EXCEPT ![t] = NoFlight]
    /\ pc' = [pc EXCEPT ![t] = "Looking"]
    /\ UNCHANGED <<key, answer, memo, values, flights, state>>

SpuriousWakeup(t) ==
    /\ pc[t] = "Sleeping"
    /\ pc' = [pc EXCEPT ![t] = "Checking"]
    /\ UNCHANGED <<key, flight, answer, memo, values, flights, state>>

\* publish: first the flight, then the cache, then the others are woken.
Publish(t) ==
    /\ pc[t] = "Computing"
    /\ state' = [state EXCEPT ![flight[t]] = Ready(Bound[key[t]])]
    /\ pc' = [pc EXCEPT ![t] = "Storing"]
    /\ UNCHANGED <<key, flight, answer, memo, values, flights>>

\* The entry is removed without a look at whose flight it is.
StoreValue(t) ==
    /\ pc[t] = "Storing"
    /\ values' = With(values, key[t], Bound[key[t]], Budget)
    /\ flights' = Without(key[t])
    /\ pc' = [pc EXCEPT ![t] = "Notifying"]
    /\ UNCHANGED <<key, flight, answer, memo, state>>

Notify(t) ==
    /\ pc[t] = "Notifying"
    /\ pc' = Notified(flight[t], t, "Idle")
    /\ Return(t, Bound[key[t]])
    /\ UNCHANGED <<key, values, flights, state>>

\* Drop of a computation that was not completed.
Abort(t) ==
    /\ pc[t] = "Computing"
    /\ state' = [state EXCEPT ![flight[t]] = Aborted]
    /\ pc' = [pc EXCEPT ![t] = "Aborting"]
    /\ UNCHANGED <<key, flight, answer, memo, values, flights>>

Withdraw(t) ==
    /\ pc[t] = "Aborting"
    /\ flights' = IF key[t] \in DOMAIN flights /\ flights[key[t]] = flight[t]
                  THEN Without(key[t]) ELSE flights
    /\ pc' = [pc EXCEPT ![t] = "Leaving"]
    /\ UNCHANGED <<key, flight, answer, memo, values, state>>

\* Mutant: the guard does not wake those who wait.
LeaveSilently(t) ==
    /\ pc[t] = "Leaving"
    /\ pc' = [pc EXCEPT ![t] = "Panicked"]
    /\ flight' = [flight EXCEPT ![t] = NoFlight]
    /\ UNCHANGED <<key, answer, memo, values, flights, state>>

Leave(t) ==
    /\ pc[t] = "Leaving"
    /\ pc' = Notified(flight[t], t, "Panicked")
    /\ flight' = [flight EXCEPT ![t] = NoFlight]
    /\ UNCHANGED <<key, answer, memo, values, flights, state>>

\* The steps a running thread takes by itself.
Step(t) ==
    \/ Hit(t) \/ Join(t) \/ Lead(t)
    \/ Sleep(t) \/ Receive(t) \/ Retry(t)
    \/ Publish(t) \/ StoreValue(t) \/ Notify(t)
    \/ Withdraw(t) \/ Leave(t)

Next ==
    \E t \in Threads :
        \/ \E k \in Keys : Ask(t, k)
        \/ Step(t)
        \/ SpuriousWakeup(t)
        \/ Abort(t)

Spec == Init /\ [][Next]_vars

\* A thread that can run is scheduled, no mutex is held for ever, and the
\* search ends, with a bound or a panic.
FairSpec == Spec /\ \A t \in Threads : WF_vars(Step(t))

-----------------------------------------------------------------------------
(* Properties *)

\* Types, and the budgets of both caches.
TypeOK ==
    /\ pc \in [Threads -> Control]
    /\ key \in [Threads -> Keys]
    /\ flight \in [Threads -> Flights \cup {NoFlight}]
    /\ answer \in [Threads -> Bounds \cup {NoAnswer}]
    /\ memo \in [Threads -> Caches]
    /\ values \in Caches
    /\ flights \in UNION {[S -> Flights] : S \in SUBSET Keys}
    /\ state \in [Flights -> States]
    /\ Cardinality(DOMAIN values) <= Budget
    /\ \A t \in Threads : Cardinality(DOMAIN memo[t]) <= TrialBudget

Leading(t) == pc[t] \in {"Computing", "Storing", "Aborting"}
Finishing(t) == pc[t] \in {"Notifying", "Leaving"}

\* A bound is searched for by one thread at a time, and the flights in the
\* cache are those of the leaders: publish, which does not compare the flight,
\* and a late drop guard never remove the flight of another leader.
OneLeader ==
    /\ \A t \in Threads : Leading(t) =>
            key[t] \in DOMAIN flights /\ flights[key[t]] = flight[t]
    /\ \A k \in DOMAIN flights : \E t \in Threads : Leading(t) /\ key[t] = k
    /\ \A t, u \in Threads : t # u /\ Leading(t) /\ Leading(u) => key[t] # key[u]

\* Whatever way an answer takes (own cache, shared cache, a flight joined just
\* before it landed, one's own search) and however flights are recycled, it is
\* the bound of the key that was asked for.
AnswersAreBounds ==
    /\ \A t \in Threads : answer[t] \in {NoAnswer, Bound[key[t]]}
    /\ \A t \in Threads : \A k \in DOMAIN memo[t] : memo[t][k] = Bound[k]
    /\ \A k \in DOMAIN values : values[k] = Bound[k]

\* Whoever sleeps will be woken: a thread that has yet to notify the same
\* flight exists, also when that flight was aborted or has left the cache.
SleepersHaveLeader ==
    \A t \in Threads : pc[t] = "Sleeping" =>
        \E u \in Threads : /\ Leading(u) \/ Finishing(u)
                           /\ flight[u] = flight[t]

\* Every lookup ends, even if the leaders it waits for panic one after another.
EveryLookupEnds ==
    \A t \in Threads : pc[t] = "Looking" ~> pc[t] \in {"Idle", "Panicked"}

=============================================================================
