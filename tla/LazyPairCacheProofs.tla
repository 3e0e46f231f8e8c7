------------------------- MODULE LazyPairCacheProofs -------------------------
(***************************************************************************)
(* Proofs about LazyPairCache, for any threads, keys, bounds and budgets.  *)
(***************************************************************************)
EXTENDS LazyPairCache, FiniteSetTheorems, TLAPS

Engaged(t) == Leading(t) \/ Finishing(t)
Waiting(t) == pc[t] \in {"Checking", "Sleeping"}

\* The references to flights: who holds one, that two holders of one flight
\* want the same key, and that one of them at most is its leader.
References ==
    /\ \A t \in Threads : flight[t] # NoFlight <=> Engaged(t) \/ Waiting(t)
    /\ \A t, u \in Threads :
            flight[t] = flight[u] /\ flight[t] # NoFlight => key[t] = key[u]
    /\ \A t, u \in Threads :
            Engaged(t) /\ Engaged(u) /\ flight[t] = flight[u] => t = u

\* What the state of a flight says to those who hold it.
Landing ==
    \A t \in Threads : flight[t] # NoFlight =>
        LET s == state[flight[t]]
        IN  /\ s.kind = "Ready" => s.value = Bound[key[t]]
            /\ pc[t] = "Computing" => s.kind = "Pending"
            /\ pc[t] \in {"Storing", "Notifying"} => s.kind = "Ready"
            /\ pc[t] \in {"Aborting", "Leaving"} => s.kind = "Aborted"
            /\ Waiting(t) /\ s.kind = "Pending" =>
                    \E u \in Threads : pc[u] = "Computing" /\ flight[u] = flight[t]

IInv == TypeOK /\ References /\ Landing /\ OneLeader /\ SleepersHaveLeader /\ AnswersAreBounds

-----------------------------------------------------------------------------
(* Caches *)

\* A set of keys is finite.
LEMMA KeySetsFinite == ASSUME NEW S \in SUBSET Keys PROVE IsFiniteSet(S)
BY KeysAreFinite, FS_Subset

LEMMA CacheIntro ==
    ASSUME NEW S \in SUBSET Keys, NEW c \in [S -> Bounds]
    PROVE  c \in Caches
BY DEF Caches

LEMMA CacheElim ==
    ASSUME NEW c \in Caches
    PROVE  DOMAIN c \in SUBSET Keys /\ c \in [DOMAIN c -> Bounds]
BY DEF Caches

\* Inserting below a budget keeps the type, the budget and the values of a cache.
LEMMA Inserted ==
    ASSUME NEW c \in Caches, NEW k \in Keys, NEW v \in Bounds, NEW b \in Nat,
           Cardinality(DOMAIN c) <= b
    PROVE  /\ With(c, k, v, b) \in Caches
           /\ Cardinality(DOMAIN With(c, k, v, b)) <= b
           /\ \A j \in DOMAIN With(c, k, v, b) :
                 \/ j \in DOMAIN c /\ With(c, k, v, b)[j] = c[j]
                 \/ j = k /\ With(c, k, v, b)[j] = v
<1>1. DOMAIN c \in SUBSET Keys /\ c \in [DOMAIN c -> Bounds]
  BY CacheElim
<1>2. CASE Cardinality(DOMAIN c) < b /\ k \notin DOMAIN c
  <2> DEFINE d == [j \in DOMAIN c \cup {k} |-> IF j = k THEN v ELSE c[j]]
  <2>1. With(c, k, v, b) = d
    BY <1>2 DEF With
  <2>2. DOMAIN d \in SUBSET Keys /\ d \in [DOMAIN d -> Bounds]
    BY <1>1
  <2>3. d \in Caches
    BY <2>2, CacheIntro
  <2>4. IsFiniteSet(DOMAIN c) /\ Cardinality(DOMAIN c) \in Nat
    BY <1>1, KeySetsFinite, FS_CardinalityType
  <2>5. Cardinality(DOMAIN c \cup {k}) = Cardinality(DOMAIN c) + 1
    BY <1>2, <2>4, FS_AddElement
  <2>6. Cardinality(DOMAIN d) <= b
    BY <1>2, <2>4, <2>5
  <2> QED
    BY <2>1, <2>3, <2>6
<1>3. CASE ~ (Cardinality(DOMAIN c) < b /\ k \notin DOMAIN c)
  <2>1. With(c, k, v, b) = c
    BY <1>3 DEF With
  <2> QED
    BY <2>1
<1> QED
  BY <1>2, <1>3

-----------------------------------------------------------------------------
(* Initial states *)

LEMMA InitIInv == Init => IInv
<1> SUFFICES ASSUME Init PROVE IInv
  OBVIOUS
<1>1. EmptyCache \in Caches /\ Cardinality(DOMAIN EmptyCache) = 0
  <2>1. {} \in SUBSET Keys /\ EmptyCache \in [{} -> Bounds] /\ DOMAIN EmptyCache = {}
    BY DEF EmptyCache
  <2> QED
    BY <2>1, CacheIntro, FS_EmptySet
<1>2. TypeOK
  <2>1. flights \in [{} -> Flights] /\ {} \in SUBSET Keys
    BY DEF Init
  <2>2. flights \in UNION {[S -> Flights] : S \in SUBSET Keys}
    BY <2>1
  <2>3. state \in [Flights -> States]
    BY DEF Init, States, Pending
  <2>4. key \in [Threads -> Keys]
    BY KeysAreFinite DEF Init
  <2>5. memo \in [Threads -> Caches] /\ values \in Caches
    BY <1>1 DEF Init
  <2>6. Cardinality(DOMAIN values) <= Budget
    BY <1>1, BudgetsAreNaturals DEF Init
  <2>7. ASSUME NEW t \in Threads PROVE Cardinality(DOMAIN memo[t]) <= TrialBudget
    <3>1. memo[t] = EmptyCache
      BY DEF Init
    <3> QED
      BY <3>1, <1>1, BudgetsAreNaturals
  <2>8. /\ pc \in [Threads -> Control]
        /\ flight \in [Threads -> Flights \cup {NoFlight}]
        /\ answer \in [Threads -> Bounds \cup {NoAnswer}]
    BY DEF Init, Control
  <2> QED
    BY <2>2, <2>3, <2>4, <2>5, <2>6, <2>7, <2>8 DEF TypeOK
<1>3. References /\ Landing /\ OneLeader /\ SleepersHaveLeader
  BY DEF Init, References, Landing, OneLeader, SleepersHaveLeader, Engaged, Leading,
         Finishing, Waiting
<1>4. AnswersAreBounds
  BY DEF Init, AnswersAreBounds, EmptyCache
<1> QED
  BY <1>2, <1>3, <1>4 DEF IInv


-----------------------------------------------------------------------------
(* Steps of a lookup that leaves both caches alone *)

LEMMA AskStep ==
    ASSUME IInv, NEW t \in Threads, NEW k \in Keys, Ask(t, k)
    PROVE  IInv'
<1> USE DEF IInv
<1>1. ~ Leading(t) /\ ~ Finishing(t) /\ ~ Waiting(t) /\ flight[t] = NoFlight
  BY DEF Ask, References, Engaged, Leading, Finishing, Waiting
<1>2. pc' \in [Threads -> Control] /\ key' \in [Threads -> Keys] /\ key'[t] = k
  BY DEF Ask, TypeOK, Control
<1>3. \A u \in Threads \ {t} : pc'[u] = pc[u] /\ key'[u] = key[u] /\ answer'[u] = answer[u]
  BY DEF Ask, TypeOK
<1>4. pc'[t] \in {"Idle", "Looking"}
  BY DEF Ask, TypeOK
<1>5. answer'[t] \in {NoAnswer, Bound[k]} /\ answer' \in [Threads -> Bounds \cup {NoAnswer}]
  <2>1. CASE k \in DOMAIN memo[t]
    BY <2>1, BoundIsFunction DEF Ask, TypeOK, AnswersAreBounds
  <2>2. CASE k \notin DOMAIN memo[t]
    BY <2>2 DEF Ask, TypeOK
  <2> QED
    BY <2>1, <2>2
<1>6. UNCHANGED <<flight, memo, values, flights, state>>
  BY DEF Ask
<1>7. TypeOK'
  BY <1>2, <1>5, <1>6 DEF TypeOK
<1>8. References' /\ Landing'
  BY <1>1, <1>3, <1>4, <1>6 DEF References, Landing, Engaged, Leading, Finishing, Waiting
<1>9. OneLeader' /\ SleepersHaveLeader'
  BY <1>1, <1>3, <1>4, <1>6 DEF OneLeader, SleepersHaveLeader, Leading, Finishing
<1>10. AnswersAreBounds'
  BY <1>2, <1>3, <1>5, <1>6 DEF AnswersAreBounds
<1> QED
  BY <1>7, <1>8, <1>9, <1>10

LEMMA JoinStep == ASSUME IInv, NEW t \in Threads, Join(t) PROVE IInv'
<1> USE DEF IInv
<1> DEFINE f == flights[key[t]]
<1>1. PICK l \in Threads : Leading(l) /\ key[l] = key[t] /\ flight[l] = f
  BY DEF Join, OneLeader
<1>2. f \in Flights /\ f # NoFlight
  BY NothingIsNothing DEF Join, TypeOK
<1>3. flight[t] = NoFlight /\ ~ Engaged(t) /\ ~ Waiting(t) /\ l # t
  BY <1>1 DEF Join, References, Engaged, Leading, Finishing, Waiting
<1>4. /\ flight' \in [Threads -> Flights \cup {NoFlight}] /\ flight'[t] = f
      /\ pc' \in [Threads -> Control] /\ pc'[t] = "Checking"
      /\ \A u \in Threads \ {t} : pc'[u] = pc[u] /\ flight'[u] = flight[u]
  BY <1>2 DEF Join, TypeOK, Control
<1>5. UNCHANGED <<key, answer, memo, values, flights, state>>
  BY DEF Join
<1>6. TypeOK'
  BY <1>4, <1>5 DEF TypeOK
<1>7. \A u \in Threads : flight[u] = f => key[u] = key[t]
  BY <1>1, <1>2 DEF References
<1>8. References'
  BY <1>2, <1>3, <1>4, <1>5, <1>7 DEF References, Engaged, Leading, Finishing, Waiting
<1>9. Landing'
  <2> SUFFICES ASSUME NEW u \in Threads, flight'[u] # NoFlight
               PROVE  LET s == state[flight'[u]]
                      IN  /\ s.kind = "Ready" => s.value = Bound[key[u]]
                          /\ pc'[u] = "Computing" => s.kind = "Pending"
                          /\ pc'[u] \in {"Storing", "Notifying"} => s.kind = "Ready"
                          /\ pc'[u] \in {"Aborting", "Leaving"} => s.kind = "Aborted"
                          /\ Waiting(u)' /\ s.kind = "Pending" =>
                               \E v \in Threads : pc'[v] = "Computing" /\ flight'[v] = flight'[u]
    BY <1>5 DEF Landing
  <2>1. CASE u = t
    <3>1. state[f].kind = "Ready" => state[f].value = Bound[key[t]]
      BY <1>1, <1>2 DEF Landing
    <3>2. state[f].kind = "Pending" => pc[l] = "Computing"
      BY <1>1, <1>2 DEF Landing, Leading
    <3> QED
      BY <2>1, <3>1, <3>2, <1>1, <1>3, <1>4
  <2>2. CASE u # t
    BY <2>2, <1>3, <1>4, <1>5 DEF Landing, Waiting, Engaged, Leading
  <2> QED
    BY <2>1, <2>2
<1>10. OneLeader' /\ SleepersHaveLeader'
  BY <1>3, <1>4, <1>5 DEF OneLeader, SleepersHaveLeader, Engaged, Leading, Finishing
<1>11. AnswersAreBounds'
  BY <1>5 DEF AnswersAreBounds
<1> QED
  BY <1>6, <1>8, <1>9, <1>10, <1>11

LEMMA SleepStep == ASSUME IInv, NEW t \in Threads, Sleep(t) PROVE IInv'
<1> USE DEF IInv
<1>1. /\ pc' \in [Threads -> Control] /\ pc'[t] = "Sleeping" /\ pc[t] = "Checking"
      /\ \A u \in Threads \ {t} : pc'[u] = pc[u]
  BY DEF Sleep, TypeOK, Control
<1>2. UNCHANGED <<key, flight, answer, memo, values, flights, state>>
  BY DEF Sleep
<1>3. TypeOK' /\ AnswersAreBounds'
  BY <1>1, <1>2 DEF TypeOK, AnswersAreBounds
<1>4. References' /\ OneLeader'
  BY <1>1, <1>2 DEF References, OneLeader, Engaged, Leading, Finishing, Waiting
<1>5. Landing'
  BY <1>1, <1>2 DEF Landing, Waiting
<1>6. PICK u \in Threads : pc[u] = "Computing" /\ flight[u] = flight[t]
  BY <1>1 DEF Sleep, Landing, References, Waiting
<1>7. SleepersHaveLeader'
  BY <1>1, <1>2, <1>6 DEF SleepersHaveLeader, Leading, Finishing
<1> QED
  BY <1>3, <1>4, <1>5, <1>7

LEMMA SpuriousWakeupStep == ASSUME IInv, NEW t \in Threads, SpuriousWakeup(t) PROVE IInv'
<1> USE DEF IInv
<1>1. /\ pc' \in [Threads -> Control] /\ pc'[t] = "Checking" /\ pc[t] = "Sleeping"
      /\ \A u \in Threads \ {t} : pc'[u] = pc[u]
  BY DEF SpuriousWakeup, TypeOK, Control
<1>2. UNCHANGED <<key, flight, answer, memo, values, flights, state>>
  BY DEF SpuriousWakeup
<1>3. TypeOK' /\ AnswersAreBounds'
  BY <1>1, <1>2 DEF TypeOK, AnswersAreBounds
<1>4. References' /\ OneLeader' /\ SleepersHaveLeader'
  BY <1>1, <1>2 DEF References, OneLeader, SleepersHaveLeader, Engaged, Leading, Finishing,
                    Waiting
<1>5. Landing'
  BY <1>1, <1>2 DEF Landing, Waiting
<1> QED
  BY <1>3, <1>4, <1>5

LEMMA RetryStep == ASSUME IInv, NEW t \in Threads, Retry(t) PROVE IInv'
<1> USE DEF IInv
<1>1. /\ pc' \in [Threads -> Control] /\ pc'[t] = "Looking" /\ pc[t] = "Checking"
      /\ flight' \in [Threads -> Flights \cup {NoFlight}] /\ flight'[t] = NoFlight
      /\ \A u \in Threads \ {t} : pc'[u] = pc[u] /\ flight'[u] = flight[u]
  BY DEF Retry, TypeOK, Control
<1>2. UNCHANGED <<key, answer, memo, values, flights, state>>
  BY DEF Retry
<1>3. TypeOK' /\ AnswersAreBounds'
  BY <1>1, <1>2 DEF TypeOK, AnswersAreBounds
<1>4. References' /\ OneLeader' /\ SleepersHaveLeader'
  BY <1>1, <1>2 DEF References, OneLeader, SleepersHaveLeader, Engaged, Leading, Finishing,
                    Waiting
<1>5. Landing'
  BY <1>1, <1>2 DEF Landing, Waiting
<1> QED
  BY <1>3, <1>4, <1>5

-----------------------------------------------------------------------------
(* Steps that return *)

\* What Return does to the caches and answers when v is the bound of t's key.
LEMMA Returned ==
    ASSUME IInv, NEW t \in Threads, NEW v \in Bounds, v = Bound[key[t]], Return(t, v),
           UNCHANGED key
    PROVE  /\ answer' \in [Threads -> Bounds \cup {NoAnswer}]
           /\ memo' \in [Threads -> Caches]
           /\ flight' \in [Threads -> Flights \cup {NoFlight}]
           /\ flight'[t] = NoFlight
           /\ \A u \in Threads \ {t} : flight'[u] = flight[u]
           /\ \A u \in Threads : Cardinality(DOMAIN memo'[u]) <= TrialBudget
           /\ \A u \in Threads : answer'[u] \in {NoAnswer, Bound[key[u]]}
           /\ \A u \in Threads : \A k \in DOMAIN memo'[u] : memo'[u][k] = Bound[k]
<1> USE DEF IInv
<1>1. memo[t] \in Caches /\ Cardinality(DOMAIN memo[t]) <= TrialBudget /\ key[t] \in Keys
  BY DEF TypeOK
<1> DEFINE new == With(memo[t], key[t], v, TrialBudget)
<1>2. new \in Caches /\ Cardinality(DOMAIN new) <= TrialBudget
  BY <1>1, Inserted, BudgetsAreNaturals
<1>3. \A j \in DOMAIN new :
         \/ j \in DOMAIN memo[t] /\ new[j] = memo[t][j]
         \/ j = key[t] /\ new[j] = v
  BY <1>1, Inserted, BudgetsAreNaturals
<1>4. \A j \in DOMAIN new : new[j] = Bound[j]
  BY <1>3 DEF AnswersAreBounds
<1>5. memo' = [memo EXCEPT ![t] = new]
  BY DEF Return
<1> HIDE DEF new
<1>6. memo' \in [Threads -> Caches] /\ memo'[t] = new
  BY <1>2, <1>5 DEF TypeOK
<1>7. \A u \in Threads \ {t} : memo'[u] = memo[u]
  BY <1>5 DEF TypeOK
<1>8. \A u \in Threads : Cardinality(DOMAIN memo'[u]) <= TrialBudget
  BY <1>2, <1>6, <1>7 DEF TypeOK
<1>9. \A u \in Threads : \A k \in DOMAIN memo'[u] : memo'[u][k] = Bound[k]
  BY <1>4, <1>6, <1>7 DEF AnswersAreBounds
<1>10. /\ answer' \in [Threads -> Bounds \cup {NoAnswer}]
       /\ \A u \in Threads : answer'[u] \in {NoAnswer, Bound[key[u]]}
  BY DEF Return, TypeOK, AnswersAreBounds
<1>11. /\ flight' \in [Threads -> Flights \cup {NoFlight}]
       /\ flight'[t] = NoFlight
       /\ \A u \in Threads \ {t} : flight'[u] = flight[u]
  BY DEF Return, TypeOK
<1> QED
  BY <1>6, <1>8, <1>9, <1>10, <1>11

LEMMA HitStep == ASSUME IInv, NEW t \in Threads, Hit(t) PROVE IInv'
<1> USE DEF IInv
<1>1. values[key[t]] \in Bounds /\ values[key[t]] = Bound[key[t]]
  BY CacheElim DEF Hit, TypeOK, AnswersAreBounds
<1>2. UNCHANGED <<key, values, flights, state>> /\ Return(t, values[key[t]])
  BY DEF Hit
<1>3. /\ pc' \in [Threads -> Control] /\ pc'[t] = "Idle" /\ pc[t] = "Looking"
      /\ \A u \in Threads \ {t} : pc'[u] = pc[u]
  BY DEF Hit, TypeOK, Control
<1>4. TypeOK' /\ AnswersAreBounds'
  BY <1>1, <1>2, <1>3, Returned DEF TypeOK, AnswersAreBounds
<1>5. flight' = flight
  BY <1>3 DEF Hit, Return, TypeOK, References, Engaged, Leading, Finishing, Waiting
<1>6. References' /\ OneLeader' /\ SleepersHaveLeader'
  BY <1>2, <1>3, <1>5 DEF References, OneLeader, SleepersHaveLeader, Engaged, Leading,
                          Finishing, Waiting
<1>7. Landing'
  BY <1>2, <1>3, <1>5 DEF Landing, Waiting
<1> QED
  BY <1>4, <1>6, <1>7

LEMMA ReceiveStep == ASSUME IInv, NEW t \in Threads, Receive(t) PROVE IInv'
<1> USE DEF IInv
<1> DEFINE v == state[flight[t]].value
<1>1. flight[t] # NoFlight
  BY DEF Receive, References, Waiting
<1>2. v = Bound[key[t]] /\ v \in Bounds
  BY <1>1, BoundIsFunction DEF Receive, Landing, TypeOK
<1>3. UNCHANGED <<key, values, flights, state>> /\ Return(t, v)
  BY DEF Receive
<1>4. /\ pc' \in [Threads -> Control] /\ pc'[t] = "Idle" /\ pc[t] = "Checking"
      /\ \A u \in Threads \ {t} : pc'[u] = pc[u]
  BY DEF Receive, TypeOK, Control
<1> HIDE DEF v
<1>5. /\ TypeOK' /\ AnswersAreBounds' /\ flight'[t] = NoFlight
      /\ \A u \in Threads \ {t} : flight'[u] = flight[u]
  BY <1>2, <1>3, <1>4, Returned DEF TypeOK, AnswersAreBounds
<1>6. References' /\ OneLeader' /\ SleepersHaveLeader'
  BY <1>3, <1>4, <1>5 DEF References, OneLeader, SleepersHaveLeader, Engaged, Leading,
                          Finishing, Waiting
<1>7. Landing'
  BY <1>3, <1>4, <1>5 DEF Landing, Waiting
<1> QED
  BY <1>5, <1>6, <1>7

-----------------------------------------------------------------------------
(* Steps of a leader *)

\* Another flight, which nobody refers to, enters the cache with its leader.
LEMMA LeadStep == ASSUME IInv, NEW t \in Threads, Lead(t) PROVE IInv'
<1> USE DEF IInv
<1>1. PICK f \in Flights :
         /\ Free(f)
         /\ state' = [state EXCEPT ![f] = Pending]
         /\ flights' = [k \in DOMAIN flights \cup {key[t]} |->
                           IF k = key[t] THEN f ELSE flights[k]]
         /\ flight' = [flight EXCEPT ![t] = f]
  BY DEF Lead
<1>2. f # NoFlight /\ \A u \in Threads : flight[u] # f
  BY <1>1, NothingIsNothing DEF Free
<1>3. /\ pc' \in [Threads -> Control] /\ pc'[t] = "Computing" /\ pc[t] = "Looking"
      /\ flight' \in [Threads -> Flights \cup {NoFlight}] /\ flight'[t] = f
      /\ \A u \in Threads \ {t} : pc'[u] = pc[u] /\ flight'[u] = flight[u]
  BY <1>1 DEF Lead, TypeOK, Control
<1>4. UNCHANGED <<key, answer, memo, values>> /\ key[t] \notin DOMAIN flights
  BY DEF Lead
<1>5. /\ state' \in [Flights -> States] /\ state'[f] = Pending
      /\ \A g \in Flights \ {f} : state'[g] = state[g]
  BY <1>1 DEF TypeOK, States, Pending
<1>6. PICK S \in SUBSET Keys : flights \in [S -> Flights]
  BY DEF TypeOK
<1>7. /\ DOMAIN flights' = S \cup {key[t]} /\ flights'[key[t]] = f
      /\ \A k \in S : k # key[t] /\ flights'[k] = flights[k]
      /\ flights' \in [S \cup {key[t]} -> Flights]
      /\ S \cup {key[t]} \in SUBSET Keys
  BY <1>1, <1>4, <1>6 DEF TypeOK
<1>8. flights' \in UNION {[R -> Flights] : R \in SUBSET Keys}
  BY <1>7
<1>9. TypeOK'
  BY <1>3, <1>4, <1>5, <1>8 DEF TypeOK
<1>10. References'
  BY <1>2, <1>3, <1>4 DEF References, Engaged, Leading, Finishing, Waiting
<1>11. Landing'
  <2>1. \A u \in Threads \ {t} : flight[u] # NoFlight =>
            flight[u] \in Flights \ {f} /\ state'[flight'[u]] = state[flight[u]]
    BY <1>2, <1>3, <1>5 DEF TypeOK
  <2>2. state'[flight'[t]].kind = "Pending"
    BY <1>3, <1>5 DEF Pending
  <2> QED
    BY <1>2, <1>3, <1>4, <2>1, <2>2 DEF Landing, Waiting
<1>12. OneLeader'
  <2>1. DOMAIN flights = S /\ ~ Leading(t) /\ Leading(t)'
    BY <1>3, <1>6 DEF Leading
  <2>2. \A u \in Threads \ {t} : Leading(u)' = Leading(u)
    BY <1>3 DEF Leading
  <2>3. \A u \in Threads : Leading(u) => key[u] # key[t] /\ key[u] \in S
    BY <1>4, <2>1 DEF OneLeader
  <2> QED
    BY <1>3, <1>4, <1>7, <2>1, <2>2, <2>3 DEF OneLeader
<1>13. SleepersHaveLeader' /\ AnswersAreBounds'
  BY <1>2, <1>3, <1>4 DEF SleepersHaveLeader, AnswersAreBounds, Leading, Finishing
<1> QED
  BY <1>9, <1>10, <1>11, <1>12, <1>13

\* The state of a flight that is Pending is settled by its leader.
LEMMA Settled ==
    ASSUME IInv, NEW t \in Threads, pc[t] = "Computing", NEW s \in States,
           NEW p \in {"Storing", "Aborting"},
           p = "Storing" => s.kind = "Ready" /\ s.value = Bound[key[t]],
           p = "Aborting" => s.kind = "Aborted",
           state' = [state EXCEPT ![flight[t]] = s], pc' = [pc EXCEPT ![t] = p],
           UNCHANGED <<key, flight, answer, memo, values, flights>>
    PROVE  IInv'
<1> USE DEF IInv
<1>1. flight[t] \in Flights /\ flight[t] # NoFlight
  BY DEF TypeOK, References, Engaged, Leading
<1>2. /\ state' \in [Flights -> States] /\ state'[flight[t]] = s
      /\ \A g \in Flights \ {flight[t]} : state'[g] = state[g]
  BY <1>1 DEF TypeOK
<1>3. /\ pc' \in [Threads -> Control] /\ pc'[t] = p
      /\ \A u \in Threads \ {t} : pc'[u] = pc[u]
  BY DEF TypeOK, Control
<1>4. TypeOK' /\ AnswersAreBounds'
  BY <1>2, <1>3 DEF TypeOK, AnswersAreBounds
<1>5. \A u \in Threads : /\ Leading(u)' = Leading(u)
                         /\ Finishing(u)' = Finishing(u)
                         /\ Waiting(u)' = Waiting(u)
                         /\ (pc'[u] = "Sleeping") = (pc[u] = "Sleeping")
  BY <1>3 DEF Leading, Finishing, Waiting
<1>6. References' /\ OneLeader' /\ SleepersHaveLeader'
  BY <1>5 DEF References, OneLeader, SleepersHaveLeader, Engaged
<1>7. Landing'
  <2> SUFFICES ASSUME NEW u \in Threads, flight[u] # NoFlight
               PROVE  LET r == state'[flight[u]]
                      IN  /\ r.kind = "Ready" => r.value = Bound[key[u]]
                          /\ pc'[u] = "Computing" => r.kind = "Pending"
                          /\ pc'[u] \in {"Storing", "Notifying"} => r.kind = "Ready"
                          /\ pc'[u] \in {"Aborting", "Leaving"} => r.kind = "Aborted"
                          /\ Waiting(u)' /\ r.kind = "Pending" =>
                               \E v \in Threads : pc'[v] = "Computing" /\ flight[v] = flight[u]
    BY DEF Landing
  <2>1. CASE u = t
    BY <2>1, <1>2, <1>3 DEF Waiting
  <2>2. CASE u # t /\ flight[u] = flight[t]
    <3>1. ~ Engaged(u) /\ key[u] = key[t]
      BY <2>2, <1>1 DEF References, Engaged, Leading
    <3> QED
      BY <2>2, <3>1, <1>2, <1>3 DEF Engaged, Leading, Finishing
  <2>3. CASE u # t /\ flight[u] # flight[t]
    <3>1. state'[flight[u]] = state[flight[u]]
      BY <2>3, <1>2 DEF TypeOK
    <3> QED
      BY <2>3, <3>1, <1>3 DEF Landing, Waiting
  <2> QED
    BY <2>1, <2>2, <2>3
<1> QED
  BY <1>4, <1>6, <1>7

LEMMA PublishStep == ASSUME IInv, NEW t \in Threads, Publish(t) PROVE IInv'
<1>1. Ready(Bound[key[t]]) \in States
  BY BoundIsFunction DEF IInv, TypeOK, Ready, States
<1> QED
  BY <1>1, Settled DEF Publish, Ready

LEMMA AbortStep == ASSUME IInv, NEW t \in Threads, Abort(t) PROVE IInv'
<1>1. Aborted \in States
  BY DEF Aborted, States
<1> QED
  BY <1>1, Settled DEF Abort, Aborted

\* The entry of a leader's key leaves the cache, and the leader with it.
LEMMA Removed ==
    ASSUME IInv, NEW t \in Threads, Leading(t), NEW p \in {"Notifying", "Leaving"},
           pc[t] = "Storing" => p = "Notifying", pc[t] = "Aborting" => p = "Leaving",
           pc[t] # "Computing",
           flights' = Without(key[t]), pc' = [pc EXCEPT ![t] = p],
           UNCHANGED <<key, flight, state>>
    PROVE  /\ flights' \in UNION {[S -> Flights] : S \in SUBSET Keys}
           /\ pc' \in [Threads -> Control]
           /\ References' /\ Landing' /\ OneLeader' /\ SleepersHaveLeader'
<1> USE DEF IInv
<1>1. PICK S \in SUBSET Keys : flights \in [S -> Flights]
  BY DEF TypeOK
<1>2. /\ DOMAIN flights' = S \ {key[t]}
      /\ \A k \in S \ {key[t]} : flights'[k] = flights[k]
      /\ flights' \in [S \ {key[t]} -> Flights]
      /\ S \ {key[t]} \in SUBSET Keys
  BY <1>1 DEF Without
<1>3. flights' \in UNION {[R -> Flights] : R \in SUBSET Keys}
  BY <1>2
<1>4. /\ pc' \in [Threads -> Control] /\ pc'[t] = p
      /\ \A u \in Threads \ {t} : pc'[u] = pc[u]
  BY DEF TypeOK, Control
<1>5. References' /\ SleepersHaveLeader'
  BY <1>4 DEF References, SleepersHaveLeader, Engaged, Leading, Finishing, Waiting
<1>6. Landing'
  BY <1>4 DEF Landing, Waiting, Leading
<1>7. OneLeader'
  <2>1. ~ Leading(t)' /\ \A u \in Threads \ {t} : Leading(u)' = Leading(u)
    BY <1>4 DEF Leading
  <2>2. \A u \in Threads \ {t} : Leading(u) => key[u] # key[t] /\ key[u] \in S
    BY <1>1 DEF OneLeader
  <2>3. \A u \in Threads : Leading(u)' =>
            key[u] \in DOMAIN flights' /\ flights'[key[u]] = flight[u]
    BY <1>1, <1>2, <2>1, <2>2 DEF OneLeader
  <2>4. \A k \in DOMAIN flights' : \E u \in Threads : Leading(u)' /\ key[u] = k
    <3> SUFFICES ASSUME NEW k \in S \ {key[t]}
                 PROVE  \E u \in Threads : Leading(u)' /\ key[u] = k
      BY <1>2
    <3>1. PICK u \in Threads : Leading(u) /\ key[u] = k
      BY <1>1 DEF OneLeader
    <3> QED
      BY <2>1, <3>1
  <2>5. \A u, v \in Threads : u # v /\ Leading(u)' /\ Leading(v)' => key[u] # key[v]
    BY <2>1 DEF OneLeader
  <2> QED
    BY <2>3, <2>4, <2>5 DEF OneLeader
<1> QED
  BY <1>3, <1>4, <1>5, <1>6, <1>7

LEMMA StoreValueStep == ASSUME IInv, NEW t \in Threads, StoreValue(t) PROVE IInv'
<1> DEFINE k == key[t]
           v == Bound[key[t]]
<1>1. /\ k \in Keys /\ v \in Bounds /\ values \in Caches
      /\ Cardinality(DOMAIN values) <= Budget
  BY BoundIsFunction DEF IInv, TypeOK
<1>2. values' = With(values, k, v, Budget)
  BY DEF StoreValue
<1>3. UNCHANGED <<key, flight, answer, memo, state>>
  BY DEF StoreValue
<1> HIDE DEF k, v
<1>4. values' \in Caches /\ Cardinality(DOMAIN values') <= Budget
  BY <1>1, <1>2, Inserted, BudgetsAreNaturals
<1>5. \A j \in DOMAIN values' :
         \/ j \in DOMAIN values /\ values'[j] = values[j]
         \/ j = k /\ values'[j] = v
  BY <1>1, <1>2, Inserted, BudgetsAreNaturals
<1>6. AnswersAreBounds'
  BY <1>3, <1>5 DEF IInv, AnswersAreBounds, k, v
<1>7. /\ flights' \in UNION {[S -> Flights] : S \in SUBSET Keys}
      /\ pc' \in [Threads -> Control]
      /\ References' /\ Landing' /\ OneLeader' /\ SleepersHaveLeader'
  BY Removed DEF StoreValue, Leading
<1>8. TypeOK'
  BY <1>3, <1>4, <1>7 DEF IInv, TypeOK
<1> QED
  BY <1>6, <1>7, <1>8 DEF IInv

LEMMA WithdrawStep == ASSUME IInv, NEW t \in Threads, Withdraw(t) PROVE IInv'
<1>1. Leading(t)
  BY DEF Withdraw, Leading
<1>2. key[t] \in DOMAIN flights /\ flights[key[t]] = flight[t]
  BY <1>1 DEF IInv, OneLeader
<1>3. flights' = Without(key[t])
  BY <1>2 DEF Withdraw
<1>4. UNCHANGED <<key, flight, answer, memo, values, state>>
  BY DEF Withdraw
<1>5. /\ flights' \in UNION {[S -> Flights] : S \in SUBSET Keys}
      /\ pc' \in [Threads -> Control]
      /\ References' /\ Landing' /\ OneLeader' /\ SleepersHaveLeader'
  BY <1>1, <1>3, Removed DEF Withdraw
<1>6. TypeOK' /\ AnswersAreBounds'
  BY <1>4, <1>5 DEF IInv, TypeOK, AnswersAreBounds
<1> QED
  BY <1>5, <1>6 DEF IInv

\* A thread that has removed its entry wakes those that sleep on its flight.
LEMMA Woken ==
    ASSUME IInv, NEW t \in Threads, Finishing(t), NEW p \in {"Idle", "Panicked"},
           pc' = Notified(flight[t], t, p), flight' = [flight EXCEPT ![t] = NoFlight],
           UNCHANGED <<key, flights, state>>
    PROVE  /\ pc' \in [Threads -> Control]
           /\ flight' \in [Threads -> Flights \cup {NoFlight}]
           /\ References' /\ Landing' /\ OneLeader' /\ SleepersHaveLeader'
<1> USE DEF IInv
<1>1. /\ flight' \in [Threads -> Flights \cup {NoFlight}] /\ flight'[t] = NoFlight
      /\ \A u \in Threads \ {t} : flight'[u] = flight[u]
  BY DEF TypeOK
<1>2. pc' \in [Threads -> Control] /\ pc'[t] = p
  BY DEF TypeOK, Control, Notified
<1>3. \A u \in Threads \ {t} :
         \/ pc'[u] = pc[u] /\ ~ (pc[u] = "Sleeping" /\ flight[u] = flight[t])
         \/ pc'[u] = "Checking" /\ pc[u] = "Sleeping" /\ flight[u] = flight[t]
  BY DEF Notified
<1>4. ~ Leading(t)' /\ ~ Finishing(t)' /\ ~ Waiting(t)'
  BY <1>2 DEF Leading, Finishing, Waiting
<1>5. ~ Leading(t) /\ \A u \in Threads \ {t} :
         /\ Leading(u)' = Leading(u)
         /\ Finishing(u)' = Finishing(u)
         /\ Waiting(u)' = Waiting(u)
  BY <1>3 DEF Leading, Finishing, Waiting
<1>6. References'
  BY <1>1, <1>4, <1>5 DEF References, Engaged
<1>7. OneLeader'
  BY <1>1, <1>4, <1>5 DEF OneLeader
<1>8. Landing'
  <2>1. state[flight[t]].kind # "Pending"
    BY DEF Landing, References, Engaged, Finishing
  <2>2. \A u \in Threads \ {t} : pc'[u] \in {"Computing", "Storing", "Notifying", "Aborting",
                                            "Leaving"} \/ pc[u] = "Computing" => pc'[u] = pc[u]
    BY <1>3
  <2>3. pc[t] # "Computing" /\ pc'[t] \notin {"Computing", "Storing", "Notifying", "Aborting",
                                            "Leaving"}
    BY <1>2 DEF Finishing
  <2> QED
    BY <1>1, <1>4, <1>5, <2>1, <2>2, <2>3 DEF Landing
<1>9. SleepersHaveLeader'
  <2> SUFFICES ASSUME NEW u \in Threads, pc'[u] = "Sleeping"
               PROVE  \E w \in Threads : (Leading(w)' \/ Finishing(w)') /\ flight'[w] = flight'[u]
    BY DEF SleepersHaveLeader
  <2>1. u # t /\ pc[u] = "Sleeping" /\ flight[u] # flight[t]
    BY <1>2, <1>3
  <2>2. PICK w \in Threads : (Leading(w) \/ Finishing(w)) /\ flight[w] = flight[u]
    BY <2>1 DEF SleepersHaveLeader
  <2>3. w # t
    BY <2>1, <2>2
  <2> QED
    BY <1>1, <1>5, <2>1, <2>2, <2>3
<1> QED
  BY <1>1, <1>2, <1>6, <1>7, <1>8, <1>9

LEMMA NotifyStep == ASSUME IInv, NEW t \in Threads, Notify(t) PROVE IInv'
<1>1. Bound[key[t]] \in Bounds /\ Finishing(t)
  BY BoundIsFunction DEF IInv, TypeOK, Notify, Finishing
<1>2. Return(t, Bound[key[t]]) /\ UNCHANGED <<key, values, flights, state>>
  BY DEF Notify
<1>3. /\ pc' \in [Threads -> Control]
      /\ References' /\ Landing' /\ OneLeader' /\ SleepersHaveLeader'
  BY <1>1, <1>2, Woken DEF Notify, Return
<1>4. TypeOK' /\ AnswersAreBounds'
  BY <1>1, <1>2, <1>3, Returned DEF IInv, TypeOK, AnswersAreBounds
<1> QED
  BY <1>3, <1>4 DEF IInv

LEMMA LeaveStep == ASSUME IInv, NEW t \in Threads, Leave(t) PROVE IInv'
<1>1. Finishing(t)
  BY DEF Leave, Finishing
<1>2. UNCHANGED <<key, answer, memo, values, flights, state>>
  BY DEF Leave
<1>3. /\ pc' \in [Threads -> Control]
      /\ flight' \in [Threads -> Flights \cup {NoFlight}]
      /\ References' /\ Landing' /\ OneLeader' /\ SleepersHaveLeader'
  BY <1>1, Woken DEF Leave
<1>4. TypeOK' /\ AnswersAreBounds'
  BY <1>2, <1>3 DEF IInv, TypeOK, AnswersAreBounds
<1> QED
  BY <1>3, <1>4 DEF IInv

-----------------------------------------------------------------------------
(* Theorems *)

LEMMA NextIInv == IInv /\ [Next]_vars => IInv'
<1> SUFFICES ASSUME IInv, [Next]_vars PROVE IInv'
  OBVIOUS
<1>1. CASE UNCHANGED vars
  BY <1>1 DEF vars, IInv, TypeOK, References, Landing, OneLeader, SleepersHaveLeader,
              AnswersAreBounds, Engaged, Leading, Finishing, Waiting
<1>2. ASSUME NEW t \in Threads, NEW k \in Keys, Ask(t, k) PROVE IInv'
  BY <1>2, AskStep
<1>3. ASSUME NEW t \in Threads, Step(t) PROVE IInv'
  BY <1>3, HitStep, JoinStep, LeadStep, SleepStep, ReceiveStep, RetryStep, PublishStep,
     StoreValueStep, NotifyStep, WithdrawStep, LeaveStep DEF Step
<1>4. ASSUME NEW t \in Threads, SpuriousWakeup(t) \/ Abort(t) PROVE IInv'
  BY <1>4, SpuriousWakeupStep, AbortStep
<1> QED
  BY <1>1, <1>2, <1>3, <1>4 DEF Next

\* The invariant of the protocol holds always.
THEOREM Inductive == Spec => []IInv
<1> QED
  BY InitIInv, NextIInv, PTL DEF Spec

\* Both caches stay within their budgets and every variable has its type,
\* whatever the threads, keys and budgets.
THEOREM TypeCorrect == Spec => []TypeOK
<1>1. IInv => TypeOK
  BY DEF IInv
<1> QED
  BY <1>1, Inductive, PTL

\* A bound is searched for by one thread at a time, and no publish or drop
\* guard removes a flight that is not its own.
THEOREM OneLeaderPerKey == Spec => []OneLeader
<1>1. IInv => OneLeader
  BY DEF IInv
<1> QED
  BY <1>1, Inductive, PTL

\* Every answer, and every value in a cache, is the bound of its key, although
\* allocations of flights are reused while threads still hold the old ones.
THEOREM AnswersCorrect == Spec => []AnswersAreBounds
<1>1. IInv => AnswersAreBounds
  BY DEF IInv
<1> QED
  BY <1>1, Inductive, PTL

\* No wakeup is lost: a thread that sleeps has a thread that will notify it.
THEOREM NoLostWakeup == Spec => []SleepersHaveLeader
<1>1. IInv => SleepersHaveLeader
  BY DEF IInv
<1> QED
  BY <1>1, Inductive, PTL

=============================================================================
