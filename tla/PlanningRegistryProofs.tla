------------------------ MODULE PlanningRegistryProofs ------------------------
(***************************************************************************)
(* Proofs about PlanningRegistry, for any threads, namespaces, addresses,  *)
(* roots, plans and limits.                                                *)
(***************************************************************************)
EXTENDS PlanningRegistry, FoldTheorems

(* A thread that left "Idle" holds knowledge, and no two threads plan for  *)
(* the same knowledge: the mutex of its cache is held by one of them.      *)
Holders ==
    /\ \A t \in Threads : pc[t] # "Idle" => known[t] \in Knowledge
    /\ \A t, u \in Threads :
         pc[t] = "Planning" /\ pc[u] = "Planning" /\ known[t] = known[u] => t = u

(* Knowledge somebody refers to was made for some namespace, and knowledge *)
(* is registered under the namespace it was made for.                      *)
InUse ==
    /\ \A t \in Threads : known[t] # NoKnowledge => space[known[t]] \in Namespaces
    /\ \A n \in DOMAIN entries : space[entries[n].knowledge] = n

IInv == TypeOK /\ Holders /\ InUse /\ AnswersAgree

-----------------------------------------------------------------------------
(* Data *)

LEMMA CachesIntro ==
    ASSUME NEW R \in SUBSET Roots, NEW c \in [R -> Plans]
    PROVE  c \in Caches
BY DEF Caches

LEMMA CachesElim ==
    ASSUME NEW c \in Caches
    PROVE  DOMAIN c \in SUBSET Roots /\ c \in [DOMAIN c -> Plans]
BY DEF Caches

LEMMA NoPlansIsACache == NoPlans \in Caches
<1>1. {} \in SUBSET Roots /\ NoPlans \in [{} -> Plans]
  BY DEF NoPlans
<1> QED
  BY <1>1, CachesIntro

(* The weight of knowledge is a number. *)
LEMMA WeightIsNatural ==
    ASSUME NEW n \in Namespaces, NEW c \in Caches
    PROVE  WeightOf(n, c) \in Nat
<1>1. IsFiniteSet(DOMAIN c)
  BY CachesElim, RootsAreFinite, FS_Subset
<1>2. Cardinality(DOMAIN c) \in Nat
  BY <1>1, FS_CardinalityType
<1> QED
  BY <1>2, WeightsAreNaturals DEF WeightOf

(* Merging keeps every plan that was there, whatever is merged. *)
LEMMA MergedKeeps ==
    ASSUME NEW old \in Caches, NEW R \in SUBSET Roots, NEW staged \in [R -> Plans]
    PROVE  /\ Merged(old, staged) \in Caches
           /\ DOMAIN old \subseteq DOMAIN Merged(old, staged)
           /\ \A r \in DOMAIN old : Merged(old, staged)[r] = old[r]
<1> DEFINE inserted == {r \in R : \A c \in Conflicts(old, staged) : r < c}
           D == DOMAIN old \cup inserted
           m == [r \in D |-> IF r \in DOMAIN old THEN old[r] ELSE staged[r]]
<1>1. Merged(old, staged) = m
  BY DEF Merged
<1>2. DOMAIN old \in SUBSET Roots /\ old \in [DOMAIN old -> Plans]
  BY CachesElim
<1>3. D \in SUBSET Roots /\ m \in [D -> Plans]
  BY <1>2
<1>4. m \in Caches
  BY <1>3, CachesIntro
<1> QED
  BY <1>1, <1>4

(* Without a conflict everything staged is merged. *)
LEMMA MergedTakesAll ==
    ASSUME NEW old, NEW staged, Conflicts(old, staged) = {}
    PROVE  DOMAIN staged \subseteq DOMAIN Merged(old, staged)
BY DEF Merged

(* Eviction only removes entries, and refreshes nothing but their weights. *)
LEMMA EvictedShrinks ==
    ASSUME NEW D \in SUBSET Namespaces, NEW e \in [D -> Entries], NEW n,
           weight \in [Knowledge -> Nat]
    PROVE  LET f == Evicted(e, n)
           IN  /\ DOMAIN f \in SUBSET D
               /\ f \in [DOMAIN f -> Entries]
               /\ \A m \in DOMAIN f : /\ f[m].knowledge = e[m].knowledge
                                      /\ f[m].last_access = e[m].last_access
<1> DEFINE fresh == Refreshed(e)
           K == Kept(fresh, n)
<1>1. /\ DOMAIN fresh = D
      /\ \A m \in D : /\ fresh[m] \in Entries
                      /\ fresh[m].knowledge = e[m].knowledge
                      /\ fresh[m].last_access = e[m].last_access
  BY DEF Refreshed, Entries
<1>2. K \subseteq D
  BY <1>1 DEF Kept
<1>3. Evicted(e, n) = [m \in K |-> fresh[m]]
  BY DEF Evicted
<1> HIDE DEF fresh, K
<1> QED
  BY <1>1, <1>2, <1>3

-----------------------------------------------------------------------------
(* Initially *)

LEMMA InitIInv == Init => IInv
<1> SUFFICES ASSUME Init PROVE IInv
  OBVIOUS
<1>1. TypeOK
  BY NoPlansIsACache, LimitsAreNaturals, NothingIsNoKnowledge
  DEF Init, TypeOK, Control, Entries
<1>2. Holders /\ InUse /\ AnswersAgree
  BY DEF Init, Holders, InUse, AnswersAgree
<1> QED
  BY <1>1, <1>2 DEF IInv

-----------------------------------------------------------------------------
(* Steps.  After each type-correct step the others are first-order facts.  *)

LEMMA ShareKnownStep ==
    ASSUME IInv, NEW t \in Threads, NEW n \in Namespaces, ShareKnown(t, n)
    PROVE  IInv'
<1> DEFINE touched == [entries EXCEPT ![n].last_access = clock']
           k == entries[n].knowledge
<1>1. /\ pc[t] = "Idle" /\ n \in DOMAIN entries
      /\ clock < MaxClock /\ clock' = clock + 1
      /\ entries' = Evicted(touched, n)
      /\ known' = [known EXCEPT ![t] = k]
      /\ request' = [request EXCEPT ![t] = {}]
      /\ answer' = [answer EXCEPT ![t] = NoPlans]
      /\ measured' = [measured EXCEPT ![t] = 0]
      /\ UNCHANGED <<space, cache, planner, weight, pc>>
  BY DEF ShareKnown, Tick, Hold
<1>2. clock' \in 0..MaxClock
  BY <1>1, LimitsAreNaturals DEF IInv, TypeOK
<1>3. /\ DOMAIN entries \in SUBSET Namespaces
      /\ touched \in [DOMAIN entries -> Entries]
      /\ \A m \in DOMAIN entries : touched[m].knowledge = entries[m].knowledge
      /\ k \in Knowledge
  <2>1. DOMAIN entries \in SUBSET Namespaces /\ entries \in [DOMAIN entries -> Entries]
    BY DEF IInv, TypeOK
  <2>2. \A m \in DOMAIN entries : entries[m] \in Entries
    BY <2>1
  <2>3. k \in Knowledge
    BY <1>1, <2>2 DEF Entries
  <2>4. ASSUME NEW m \in DOMAIN entries
        PROVE  touched[m] \in Entries /\ touched[m].knowledge = entries[m].knowledge
    <3>1. clock' \in Nat
      BY <1>2, LimitsAreNaturals
    <3> QED BY <2>2, <3>1 DEF Entries
  <2>5. touched = [m \in DOMAIN entries |-> touched[m]]
    OBVIOUS
  <2> QED BY <2>1, <2>3, <2>4, <2>5
<1>4. /\ DOMAIN entries' \in SUBSET DOMAIN entries
      /\ entries' \in [DOMAIN entries' -> Entries]
      /\ \A m \in DOMAIN entries' : entries'[m].knowledge = entries[m].knowledge
  <2>1. weight \in [Knowledge -> Nat]
    BY DEF IInv, TypeOK
  <2> HIDE DEF touched
  <2>2. /\ DOMAIN Evicted(touched, n) \in SUBSET DOMAIN entries
        /\ Evicted(touched, n) \in [DOMAIN Evicted(touched, n) -> Entries]
        /\ \A m \in DOMAIN Evicted(touched, n) :
                Evicted(touched, n)[m].knowledge = touched[m].knowledge
    BY <1>3, <2>1, EvictedShrinks
  <2> QED
    BY <1>1, <1>3, <2>2
<1>5. TypeOK'
  <2>1. \A q \in Knowledge : {u \in Threads : pc[u] = "Planning" /\ known'[u] = q}
                               = {u \in Threads : pc[u] = "Planning" /\ known[u] = q}
    BY <1>1 DEF IInv, TypeOK
  <2> QED
    BY <1>1, <1>2, <1>3, <1>4, <2>1, NoPlansIsACache DEF IInv, TypeOK
<1>6. Holders'
  BY <1>1 DEF IInv, TypeOK, Holders
<1>7. InUse'
  <2>1. space[k] = n
    BY <1>1 DEF IInv, InUse
  <2>2. \A u \in Threads : known'[u] # NoKnowledge => space'[known'[u]] \in Namespaces
    BY <1>1, <2>1 DEF IInv, TypeOK, InUse
  <2>3. \A m \in DOMAIN entries' : space'[entries'[m].knowledge] = m
    BY <1>1, <1>4 DEF IInv, InUse
  <2> QED
    BY <2>2, <2>3 DEF InUse
<1>8. AnswersAgree'
  BY <1>1 DEF IInv, TypeOK, AnswersAgree, NoPlans
<1> QED
  BY <1>5, <1>6, <1>7, <1>8 DEF IInv

LEMMA ShareNewStep ==
    ASSUME IInv, NEW t \in Threads, NEW n \in Namespaces, NEW k \in Knowledge,
           ShareNew(t, n, k)
    PROVE  IInv'
<1> DEFINE new == [knowledge |-> k, last_access |-> clock', weight |-> weight'[k]]
           inserted == [m \in DOMAIN entries \cup {n} |->
                            IF m = n THEN new
                            ELSE [entries[m] EXCEPT !.weight = weight[entries[m].knowledge]]]
           K == Kept(inserted, n)
<1>1. /\ pc[t] = "Idle" /\ n \notin DOMAIN entries /\ Free(k)
      /\ clock < MaxClock /\ clock' = clock + 1
      /\ space' = [space EXCEPT ![k] = n]
      /\ cache' = [cache EXCEPT ![k] = NoPlans]
      /\ weight' = [weight EXCEPT ![k] = WeightOf(n, NoPlans)]
      /\ entries' = [m \in K |-> inserted[m]]
      /\ known' = [known EXCEPT ![t] = k]
      /\ request' = [request EXCEPT ![t] = {}]
      /\ answer' = [answer EXCEPT ![t] = NoPlans]
      /\ measured' = [measured EXCEPT ![t] = 0]
      /\ UNCHANGED <<planner, pc>>
  BY DEF ShareNew, Tick, Hold
<1>2. clock' \in 0..MaxClock /\ clock' \in Nat
  BY <1>1, LimitsAreNaturals DEF IInv, TypeOK
<1>3. weight' \in [Knowledge -> Nat] /\ weight'[k] \in Nat
  BY <1>1, WeightIsNatural, NoPlansIsACache DEF IInv, TypeOK
<1>4. /\ DOMAIN inserted \subseteq Namespaces
      /\ \A m \in DOMAIN inserted :
            /\ inserted[m] \in Entries
            /\ inserted[m].knowledge = IF m = n THEN k ELSE entries[m].knowledge
  BY <1>2, <1>3 DEF IInv, TypeOK, Entries
<1>5. K \subseteq DOMAIN inserted
  BY DEF Kept
<1>6. /\ DOMAIN entries' \subseteq Namespaces
      /\ entries' \in [DOMAIN entries' -> Entries]
      /\ \A m \in DOMAIN entries' :
            \/ m = n /\ entries'[m].knowledge = k
            \/ m # n /\ m \in DOMAIN entries /\ entries'[m].knowledge = entries[m].knowledge
  <2>1. DOMAIN inserted = DOMAIN entries \cup {n}
    OBVIOUS
  <2> HIDE DEF inserted, K
  <2> QED
    BY <1>1, <1>4, <1>5, <2>1
<1>7. TypeOK'
  <2>1. \A q \in Knowledge : {u \in Threads : pc[u] = "Planning" /\ known'[u] = q}
                               = {u \in Threads : pc[u] = "Planning" /\ known[u] = q}
    BY <1>1 DEF IInv, TypeOK
  <2> QED
    BY <1>1, <1>2, <1>3, <1>6, <2>1, NoPlansIsACache DEF IInv, TypeOK
<1>8. Holders'
  BY <1>1 DEF IInv, TypeOK, Holders
<1>9. InUse'
  <2>1. \A u \in Threads : known'[u] # NoKnowledge => space'[known'[u]] \in Namespaces
    <3>1. SUFFICES ASSUME NEW u \in Threads, known'[u] # NoKnowledge
                   PROVE  space'[known'[u]] \in Namespaces
      OBVIOUS
    <3>2. CASE u = t
      BY <1>1, <3>2 DEF IInv, TypeOK
    <3>3. CASE u # t
      BY <1>1, <3>1, <3>3 DEF IInv, TypeOK, InUse, Free
    <3> QED
      BY <3>2, <3>3
  <2>2. \A m \in DOMAIN entries' : space'[entries'[m].knowledge] = m
    <3>1. SUFFICES ASSUME NEW m \in DOMAIN entries'
                   PROVE  space'[entries'[m].knowledge] = m
      OBVIOUS
    <3>2. CASE m = n /\ entries'[m].knowledge = k
      BY <1>1, <3>2 DEF IInv, TypeOK
    <3>3. CASE m \in DOMAIN entries /\ entries'[m].knowledge = entries[m].knowledge
      <4>1. entries[m].knowledge # k /\ space[entries[m].knowledge] = m
        BY <1>1, <3>3 DEF IInv, InUse, Free
      <4> QED
        BY <1>1, <3>3, <4>1 DEF IInv, TypeOK
    <3> QED
      BY <1>6, <3>2, <3>3
  <2> QED
    BY <2>1, <2>2 DEF InUse
<1>10. AnswersAgree'
  BY <1>1 DEF IInv, TypeOK, AnswersAgree, NoPlans, Free
<1> QED
  BY <1>7, <1>8, <1>9, <1>10 DEF IInv

LEMMA DropStep ==
    ASSUME IInv, NEW t \in Threads, Drop(t) PROVE IInv'
<1>1. TypeOK'
  <2>1. \A q \in Knowledge : {u \in Threads : pc[u] = "Planning" /\ known'[u] = q}
                               = {u \in Threads : pc[u] = "Planning" /\ known[u] = q}
    BY NothingIsNoKnowledge DEF IInv, TypeOK, Drop, Hold
  <2> QED
    BY <2>1, NoPlansIsACache DEF IInv, TypeOK, Drop, Hold
<1>2. Holders' /\ InUse' /\ AnswersAgree'
  BY DEF IInv, TypeOK, Drop, Hold, Holders, InUse, AnswersAgree
<1> QED
  BY <1>1, <1>2 DEF IInv

LEMMA PrepareCachedStep ==
    ASSUME IInv, NEW t \in Threads, NEW R \in SUBSET Roots, PrepareCached(t, R)
    PROVE  IInv'
<1>1. known[t] \in Knowledge /\ cache[known[t]] \in Caches
  BY DEF IInv, TypeOK, PrepareCached
<1>2. [r \in R |-> cache[known[t]][r]] \in Caches
  <2>1. [r \in R |-> cache[known[t]][r]] \in [R -> Plans]
    BY <1>1, CachesElim DEF PrepareCached
  <2> QED
    BY <2>1, CachesIntro
<1>3. TypeOK'
  BY <1>2 DEF IInv, TypeOK, PrepareCached
<1>4. Holders' /\ InUse' /\ AnswersAgree'
  BY <1>1 DEF IInv, TypeOK, PrepareCached, Holders, InUse, AnswersAgree
<1> QED
  BY <1>3, <1>4 DEF IInv

LEMMA PrepareMissingStep ==
    ASSUME IInv, NEW t \in Threads, NEW R \in SUBSET Roots, PrepareMissing(t, R)
    PROVE  IInv'
<1>1. known[t] \in Knowledge
  BY DEF IInv, TypeOK, PrepareMissing
<1>2. \A u \in Threads : ~ (pc[u] = "Planning" /\ known[u] = known[t])
  BY <1>1 DEF IInv, TypeOK, PrepareMissing
<1>3. TypeOK'
  <2>1. planner' = [k \in Knowledge |->
                      {u \in Threads : pc'[u] = "Planning" /\ known'[u] = k}]
    <3>1. \A k \in Knowledge : planner'[k]
                = {u \in Threads : pc'[u] = "Planning" /\ known'[u] = k}
      BY <1>1, <1>2 DEF IInv, TypeOK, PrepareMissing
    <3> QED
      BY <3>1 DEF IInv, TypeOK, PrepareMissing
  <2> QED
    BY <2>1, NoPlansIsACache DEF IInv, TypeOK, PrepareMissing, Control
<1>4. Holders' /\ InUse' /\ AnswersAgree'
  BY <1>1, <1>2 DEF IInv, TypeOK, PrepareMissing, Holders, InUse, AnswersAgree, NoPlans
<1> QED
  BY <1>3, <1>4 DEF IInv

(* A merge, complete or not, disturbs no plan anybody was given. *)
LEMMA MergeKeepsAnswers ==
    ASSUME IInv, NEW k \in Knowledge, NEW R \in SUBSET Roots, NEW staged \in [R -> Plans],
           cache' = [cache EXCEPT ![k] = Merged(@, staged)]
    PROVE  /\ cache' \in [Knowledge -> Caches]
           /\ \A q \in Knowledge : \A r \in DOMAIN cache[q] :
                 r \in DOMAIN cache'[q] /\ cache'[q][r] = cache[q][r]
<1>1. cache \in [Knowledge -> Caches] /\ cache[k] \in Caches
  BY DEF IInv, TypeOK
<1>2. /\ Merged(cache[k], staged) \in Caches
      /\ \A r \in DOMAIN cache[k] : /\ r \in DOMAIN Merged(cache[k], staged)
                                    /\ Merged(cache[k], staged)[r] = cache[k][r]
  BY <1>1, MergedKeeps
<1> QED
  BY <1>1, <1>2

LEMMA StagedShape ==
    ASSUME IInv, NEW t \in Threads, NEW staged \in Staged(t)
    PROVE  /\ DOMAIN staged \in SUBSET Roots
           /\ staged \in [DOMAIN staged -> Plans]
           /\ request[t] \ DOMAIN cache[known[t]] \subseteq DOMAIN staged
<1>1. request[t] \in SUBSET Roots
  BY DEF IInv, TypeOK
<1> QED
  BY <1>1 DEF Staged

LEMMA LandStep ==
    ASSUME IInv, NEW t \in Threads, Land(t) PROVE IInv'
<1> DEFINE k == known[t]
<1>1. k \in Knowledge /\ pc[t] = "Planning"
  BY DEF IInv, Holders, Land
<1>2. PICK staged \in Staged(t) : /\ Conflicts(cache[k], staged) = {}
                                  /\ cache' = [cache EXCEPT ![k] = Merged(@, staged)]
  BY DEF Land
<1>3. /\ DOMAIN staged \in SUBSET Roots
      /\ staged \in [DOMAIN staged -> Plans]
      /\ request[t] \ DOMAIN cache[k] \subseteq DOMAIN staged
  BY StagedShape
<1>4. /\ cache' \in [Knowledge -> Caches]
      /\ \A q \in Knowledge : \A r \in DOMAIN cache[q] :
            r \in DOMAIN cache'[q] /\ cache'[q][r] = cache[q][r]
  BY <1>1, <1>2, <1>3, MergeKeepsAnswers
<1>5. request[t] \in SUBSET Roots /\ request[t] \subseteq DOMAIN cache'[k]
  <2>1. cache'[k] = Merged(cache[k], staged)
    BY <1>1, <1>2 DEF IInv, TypeOK
  <2>2. DOMAIN staged \subseteq DOMAIN cache'[k]
    BY <1>2, <2>1, MergedTakesAll
  <2> QED
    BY <1>1, <1>3, <1>4, <2>2 DEF IInv, TypeOK
<1>6. [r \in request[t] |-> cache'[k][r]] \in Caches
  <2>1. cache'[k] \in [DOMAIN cache'[k] -> Plans]
    BY <1>1, <1>4, CachesElim
  <2>2. [r \in request[t] |-> cache'[k][r]] \in [request[t] -> Plans]
    BY <1>5, <2>1
  <2> QED
    BY <1>5, <2>2, CachesIntro
<1>7. WeightOf(space[k], cache'[k]) \in Nat
  <2>1. space[k] \in Namespaces
    BY <1>1, NothingIsNoKnowledge DEF IInv, InUse
  <2> QED
    BY <1>1, <1>4, <2>1, WeightIsNatural
<1>8. /\ answer' = [answer EXCEPT ![t] = [r \in request[t] |-> cache'[k][r]]]
      /\ measured' = [measured EXCEPT ![t] = WeightOf(space[k], cache'[k])]
      /\ planner' = [planner EXCEPT ![k] = {}]
      /\ pc' = [pc EXCEPT ![t] = "Storing"]
      /\ UNCHANGED <<entries, clock, space, weight, known, request>>
  BY DEF Land
<1>9. TypeOK'
  <2>1. planner' = [q \in Knowledge |->
                      {u \in Threads : pc'[u] = "Planning" /\ known'[u] = q}]
    <3>1. \A q \in Knowledge : planner'[q]
                = {u \in Threads : pc'[u] = "Planning" /\ known'[u] = q}
      BY <1>1, <1>8 DEF IInv, TypeOK, Holders
    <3> QED
      BY <1>8, <3>1 DEF IInv, TypeOK
  <2> QED
    BY <1>4, <1>6, <1>7, <1>8, <2>1 DEF IInv, TypeOK, Control
<1>10. Holders' /\ InUse'
  BY <1>1, <1>8 DEF IInv, TypeOK, Holders, InUse
<1>11. AnswersAgree'
  <2>1. SUFFICES ASSUME NEW u \in Threads, known[u] # NoKnowledge,
                        NEW r \in DOMAIN answer'[u]
                 PROVE  /\ r \in DOMAIN cache'[known[u]]
                        /\ answer'[u][r] = cache'[known[u]][r]
    BY <1>8 DEF AnswersAgree
  <2>2. CASE u = t
    <3>1. answer'[u] = [q \in request[t] |-> cache'[k][q]]
      BY <1>8, <2>2 DEF IInv, TypeOK
    <3> QED
      BY <1>5, <2>1, <2>2, <3>1
  <2>3. CASE u # t
    <3>1. answer'[u] = answer[u] /\ known[u] \in Knowledge
      BY <1>8, <2>1, <2>3 DEF IInv, TypeOK
    <3> QED
      BY <1>4, <2>1, <3>1 DEF IInv, AnswersAgree
  <2> QED
    BY <2>2, <2>3
<1> QED
  BY <1>9, <1>10, <1>11 DEF IInv

LEMMA FailStep ==
    ASSUME IInv, NEW t \in Threads, Fail(t) PROVE IInv'
<1> DEFINE k == known[t]
<1>1. k \in Knowledge /\ pc[t] = "Planning"
  BY DEF IInv, Holders, Fail
<1>2. /\ cache' \in [Knowledge -> Caches]
      /\ \A q \in Knowledge : \A r \in DOMAIN cache[q] :
            r \in DOMAIN cache'[q] /\ cache'[q][r] = cache[q][r]
  <2>1. CASE UNCHANGED cache
    BY <2>1 DEF IInv, TypeOK
  <2>2. CASE \E staged \in Staged(t) : cache' = [cache EXCEPT ![k] = Merged(@, staged)]
    <3>1. PICK staged \in Staged(t) : cache' = [cache EXCEPT ![k] = Merged(@, staged)]
      BY <2>2
    <3>2. DOMAIN staged \in SUBSET Roots /\ staged \in [DOMAIN staged -> Plans]
      BY StagedShape
    <3> QED
      BY <1>1, <3>1, <3>2, MergeKeepsAnswers
  <2> QED
    BY <2>1, <2>2 DEF Fail
<1>3. /\ planner' = [planner EXCEPT ![k] = {}]
      /\ request' = [request EXCEPT ![t] = {}]
      /\ pc' = [pc EXCEPT ![t] = "Idle"]
      /\ UNCHANGED <<entries, clock, space, weight, known, answer, measured>>
  BY DEF Fail
<1>4. TypeOK'
  <2>1. planner' = [q \in Knowledge |->
                      {u \in Threads : pc'[u] = "Planning" /\ known'[u] = q}]
    <3>1. \A q \in Knowledge : planner'[q]
                = {u \in Threads : pc'[u] = "Planning" /\ known'[u] = q}
      BY <1>1, <1>3 DEF IInv, TypeOK, Holders
    <3> QED
      BY <1>3, <3>1 DEF IInv, TypeOK
  <2> QED
    BY <1>2, <1>3, <2>1 DEF IInv, TypeOK, Control
<1>5. Holders' /\ InUse'
  BY <1>1, <1>3 DEF IInv, TypeOK, Holders, InUse
<1>6. AnswersAgree'
  BY <1>2, <1>3 DEF IInv, TypeOK, AnswersAgree
<1> QED
  BY <1>4, <1>5, <1>6 DEF IInv

LEMMA StoreWeightStep ==
    ASSUME IInv, NEW t \in Threads, StoreWeight(t) PROVE IInv'
<1>1. TypeOK'
  <2>1. \A u \in Threads : pc'[u] = "Planning" <=> pc[u] = "Planning"
    BY DEF IInv, TypeOK, StoreWeight
  <2>2. known[t] \in Knowledge /\ measured[t] \in Nat
    BY DEF IInv, TypeOK, Holders, StoreWeight
  <2> QED
    BY <2>1, <2>2 DEF IInv, TypeOK, StoreWeight, ofThreads, Control
<1>2. Holders' /\ InUse' /\ AnswersAgree'
  BY DEF IInv, TypeOK, StoreWeight, ofThreads, Holders, InUse, AnswersAgree
<1> QED
  BY <1>1, <1>2 DEF IInv

(* What a refresh leaves of the entries. *)
LEMMA RefreshEntries ==
    ASSUME IInv, NEW t \in Threads, Refresh(t)
    PROVE  /\ clock' \in 0..MaxClock
           /\ DOMAIN entries' \in SUBSET DOMAIN entries
           /\ entries' \in [DOMAIN entries' -> Entries]
           /\ \A m \in DOMAIN entries' :
                 /\ entries'[m].knowledge = entries[m].knowledge
                 /\ \/ entries'[m].last_access = entries[m].last_access
                    \/ entries[m].knowledge = known[t]
<1> DEFINE n == space[known[t]]
           touched == IF Registered(known[t])
                      THEN [entries EXCEPT ![n].last_access = clock + 1]
                      ELSE entries
<1>1. clock' \in 0..MaxClock /\ clock + 1 \in Nat
  BY LimitsAreNaturals DEF IInv, TypeOK, Refresh, Tick
<1>2. /\ DOMAIN entries \in SUBSET Namespaces
      /\ touched \in [DOMAIN entries -> Entries]
      /\ \A m \in DOMAIN entries :
            /\ touched[m].knowledge = entries[m].knowledge
            /\ \/ touched[m].last_access = entries[m].last_access
               \/ entries[m].knowledge = known[t]
  BY <1>1 DEF IInv, TypeOK, Entries, Registered
<1>3. weight \in [Knowledge -> Nat]
  BY DEF IInv, TypeOK
<1>4. entries' = Evicted(touched, n)
  BY DEF Refresh
<1> HIDE DEF touched, n
<1>5. /\ DOMAIN Evicted(touched, n) \in SUBSET DOMAIN entries
      /\ Evicted(touched, n) \in [DOMAIN Evicted(touched, n) -> Entries]
      /\ \A m \in DOMAIN Evicted(touched, n) :
            /\ Evicted(touched, n)[m].knowledge = touched[m].knowledge
            /\ Evicted(touched, n)[m].last_access = touched[m].last_access
  <2> DEFINE D == DOMAIN entries
  <2>1. D \in SUBSET Namespaces /\ touched \in [D -> Entries]
    BY <1>2
  <2> HIDE DEF D
  <2>2. /\ DOMAIN Evicted(touched, n) \in SUBSET D
        /\ Evicted(touched, n) \in [DOMAIN Evicted(touched, n) -> Entries]
        /\ \A m \in DOMAIN Evicted(touched, n) :
              /\ Evicted(touched, n)[m].knowledge = touched[m].knowledge
              /\ Evicted(touched, n)[m].last_access = touched[m].last_access
    BY <1>3, <2>1, EvictedShrinks
  <2> QED BY <2>2 DEF D
<1> QED
  BY <1>1, <1>2, <1>4, <1>5

LEMMA RefreshStep ==
    ASSUME IInv, NEW t \in Threads, Refresh(t) PROVE IInv'
<1>1. /\ clock' \in 0..MaxClock
      /\ DOMAIN entries' \in SUBSET DOMAIN entries
      /\ entries' \in [DOMAIN entries' -> Entries]
      /\ \A m \in DOMAIN entries' : entries'[m].knowledge = entries[m].knowledge
  BY RefreshEntries
<1>2. TypeOK'
  <2>1. \A u \in Threads : pc'[u] = "Planning" <=> pc[u] = "Planning"
    BY DEF IInv, TypeOK, Refresh
  <2> QED
    BY <1>1, <2>1 DEF IInv, TypeOK, Refresh, ofThreads, Control
<1>3. Holders' /\ InUse' /\ AnswersAgree'
  <2>1. UNCHANGED <<space, cache, known, answer>> /\ pc' = [pc EXCEPT ![t] = "Idle"]
    BY DEF Refresh, ofThreads
  <2>2. Holders'
    <3>1. \A u \in Threads : pc'[u] = "Idle" \/ pc'[u] = pc[u]
      BY <2>1 DEF IInv, TypeOK
    <3> QED BY <2>1, <3>1 DEF IInv, Holders
  <2>3. InUse'
    BY <1>1, <2>1 DEF IInv, InUse
  <2>4. AnswersAgree'
    BY <2>1 DEF IInv, AnswersAgree
  <2> QED BY <2>2, <2>3, <2>4
<1> QED
  BY <1>2, <1>3 DEF IInv

-----------------------------------------------------------------------------
(* Theorems *)

LEMMA NextIInv == IInv /\ [Next]_vars => IInv'
<1> SUFFICES ASSUME IInv, [Next]_vars PROVE IInv'
  OBVIOUS
<1>1. CASE UNCHANGED vars
  BY <1>1 DEF vars, IInv, TypeOK, Holders, InUse, AnswersAgree
<1>2. CASE Next
  BY <1>2, ShareKnownStep, ShareNewStep, DropStep, PrepareCachedStep, PrepareMissingStep,
     LandStep, FailStep, StoreWeightStep, RefreshStep DEF Next
<1> QED
  BY <1>1, <1>2

(* Types, and the mutex of each common cache is held by at most one        *)
(* planning thread, which holds its knowledge (prepare_common).            *)
THEOREM Inductive == Spec => []IInv
<1> QED
  BY InitIInv, NextIInv, PTL DEF Spec

(* Every variable has its type, and the mutex of a common cache is held by *)
(* the thread that plans for it (prepare_common).                          *)
THEOREM TypeCorrect == Spec => []TypeOK
<1>1. IInv => TypeOK
  BY DEF IInv
<1> QED
  BY <1>1, Inductive, PTL

(* Plans pinned for a thread stay those of the common cache, for any       *)
(* number of threads and devices, although planners contradict each other, *)
(* merges stop half-way and entries are evicted under their users.         *)
THEOREM CommonAnswers == Spec => []AnswersAgree
<1>1. IInv => AnswersAgree
  BY DEF IInv
<1> QED
  BY <1>1, Inductive, PTL

(* Thread t steps, and entry n is and stays that of what t holds.          *)
Earns(t, n) ==
    /\ Refreshes(t) \/ Opens(t)
    /\ known'[t] = entries[n].knowledge
    /\ entries'[n].knowledge = entries[n].knowledge

(* A session that outlived its entry never makes the entry that took its   *)
(* place more recent, although addresses are reused (ptr::eq in            *)
(* refresh_registry_entry).                                                *)
LEMMA StepEarnsRecency ==
    ASSUME IInv, [Next]_vars, NEW n \in DOMAIN entries \cap DOMAIN entries',
           entries'[n].last_access # entries[n].last_access
    PROVE  \E t \in Threads : Earns(t, n)
<1>1. CASE UNCHANGED vars
  BY <1>1 DEF vars
<1>2. ASSUME NEW t \in Threads, NEW m \in Namespaces, ShareKnown(t, m)
      PROVE  Earns(t, n)
  <2> DEFINE touched == [entries EXCEPT ![m].last_access = clock']
  <2>1. /\ m \in DOMAIN entries /\ clock' \in Nat /\ weight \in [Knowledge -> Nat]
        /\ DOMAIN entries \in SUBSET Namespaces
        /\ entries' = Evicted(touched, m)
        /\ known' = [known EXCEPT ![t] = entries[m].knowledge]
    BY <1>2, LimitsAreNaturals DEF ShareKnown, Tick, Hold, IInv, TypeOK
  <2>2. /\ touched \in [DOMAIN entries -> Entries]
        /\ touched[n].knowledge = entries[n].knowledge
        /\ n # m => touched[n].last_access = entries[n].last_access
    BY <2>1 DEF IInv, TypeOK, Entries
  <2>3. /\ entries'[n].knowledge = touched[n].knowledge
        /\ entries'[n].last_access = touched[n].last_access
    <3> HIDE DEF touched
    <3>1. \A q \in DOMAIN Evicted(touched, m) :
             /\ Evicted(touched, m)[q].knowledge = touched[q].knowledge
             /\ Evicted(touched, m)[q].last_access = touched[q].last_access
      BY <2>1, <2>2, EvictedShrinks
    <3> QED
      BY <2>1, <3>1
  <2>4. n = m
    BY <2>2, <2>3
  <2>5. /\ known'[t] = entries[m].knowledge
        /\ \A u \in Threads \ {t} : known'[u] = known[u]
    BY <2>1 DEF IInv, TypeOK
  <2>6. Opens(t)
    BY <1>2, <2>5 DEF Opens, ShareKnown
  <2>7. known'[t] = entries[n].knowledge /\ entries'[n].knowledge = entries[n].knowledge
    BY <2>2, <2>3, <2>4, <2>5
  <2> QED
    BY <2>6, <2>7 DEF Earns
<1>3. ASSUME NEW t \in Threads, NEW m \in Namespaces, NEW k \in Knowledge, ShareNew(t, m, k)
      PROVE  FALSE
  <2> DEFINE new == [knowledge |-> k, last_access |-> clock', weight |-> weight'[k]]
             inserted == [q \in DOMAIN entries \cup {m} |->
                            IF q = m THEN new
                            ELSE [entries[q] EXCEPT !.weight = weight[entries[q].knowledge]]]
             K == Kept(inserted, m)
  <2>1. n # m /\ entries' = [q \in K |-> inserted[q]]
    BY <1>3 DEF ShareNew
  <2>2. inserted[n].last_access = entries[n].last_access
    BY <2>1 DEF IInv, TypeOK, Entries
  <2> HIDE DEF inserted, K
  <2> QED
    BY <2>1, <2>2
<1>4. ASSUME NEW t \in Threads, Refresh(t)
      PROVE  Earns(t, n)
  <2>1. /\ entries'[n].knowledge = entries[n].knowledge
        /\ entries[n].knowledge = known[t]
    BY <1>4, RefreshEntries
  <2>2. known' = known
    BY <1>4 DEF Refresh, ofThreads
  <2>3. pc[t] = "Refreshing" /\ pc'[t] = "Idle"
    BY <1>4 DEF Refresh, IInv, TypeOK
  <2>4. Refreshes(t)
    BY <2>3 DEF Refreshes
  <2> QED
    BY <2>1, <2>2, <2>4 DEF Earns
<1>5. CASE UNCHANGED entries
  BY <1>5
<1> QED
  BY <1>1, <1>2, <1>3, <1>4, <1>5
  DEF Next, Drop, PrepareCached, PrepareMissing, Land, Fail, StoreWeight

(* An entry becomes more recent only by a call of the thread whose own     *)
(* knowledge it is, whatever was evicted and registered anew in between.   *)
THEOREM RecencyEarned == Spec => RecencyIsEarned
<1>1. ASSUME IInv, [Next]_vars
      PROVE  [\A n \in DOMAIN entries \cap DOMAIN entries' :
                entries'[n].last_access # entries[n].last_access =>
                   \E t \in Threads :
                       /\ Refreshes(t) \/ Opens(t)
                       /\ known'[t] = entries[n].knowledge
                       /\ entries'[n].knowledge = entries[n].knowledge]_vars
  BY <1>1, StepEarnsRecency DEF Earns
<1> QED
  BY <1>1, Inductive, PTL DEF Spec, RecencyIsEarned

-----------------------------------------------------------------------------
(* Evictions *)

(* The weights of a set of entries add up to a sum over the set.           *)
LEMMA FitsIsSum ==
    ASSUME NEW e, NEW N, IsFiniteSet(N)
    PROVE  Fits(e, N) <=> /\ Cardinality(N) <= MaxEntries
                          /\ SumFunctionOnSet([n \in N |-> e[n].weight], N) <= MaxWeight
<1> DEFINE w == [n \in N |-> e[n].weight]
           AddsHere(iter) == iter = [s \in SUBSET N |->
                IF s = {} THEN 0 ELSE e[Pick(s)].weight + iter[s \ {Pick(s)}]]
<1>1. ASSUME NEW iter PROVE AddsHere(iter) <=> AddsAll(iter, w, N)
  <2>1. ASSUME NEW s \in SUBSET N
        PROVE  (IF s = {} THEN 0 ELSE e[Pick(s)].weight + iter[s \ {Pick(s)}])
                 = (IF s = {} THEN 0 ELSE w[Pick(s)] + iter[s \ {Pick(s)}])
    BY DEF Pick
  <2>2. [s \in SUBSET N |-> IF s = {} THEN 0 ELSE e[Pick(s)].weight + iter[s \ {Pick(s)}]]
          = [s \in SUBSET N |-> IF s = {} THEN 0 ELSE w[Pick(s)] + iter[s \ {Pick(s)}]]
    BY <2>1, Zenon
  <2> QED BY <2>2, Zenon DEF AddsAll
<1>2. (CHOOSE iter : AddsHere(iter)) = (CHOOSE iter : AddsAll(iter, w, N))
  BY <1>1, Zenon
<1>3. SumFunctionOnSet(w, N) = (CHOOSE iter : AddsAll(iter, w, N))[N]
  BY DEF SumFunctionOnSet, FoldFunctionOnSet, MapThenFoldSet, AddsAll, Pick
<1>4. MapThenSumSet(LAMBDA n : e[n].weight, N) = (CHOOSE iter : AddsHere(iter))[N]
  BY DEF MapThenSumSet, MapThenFoldSet, Pick
<1> QED BY <1>2, <1>3, <1>4 DEF Fits

(* Every part of what fits fits.                                           *)
LEMMA FitsMonotone ==
    ASSUME NEW D, NEW e \in [D -> Entries], NEW S \in SUBSET D, IsFiniteSet(S),
           NEW R \in SUBSET S, Fits(e, S)
    PROVE  Fits(e, R)
<1> DEFINE w == [n \in S |-> e[n].weight]
           v == [n \in R |-> e[n].weight]
<1>1. IsFiniteSet(R) /\ Cardinality(R) <= Cardinality(S)
  BY FS_Subset
<1>2. /\ \A n \in S : w[n] \in Nat
      /\ \A n \in R : v[n] = w[n]
  BY DEF Entries
<1>3. Cardinality(S) <= MaxEntries /\ SumFunctionOnSet(w, S) <= MaxWeight
  BY FitsIsSum
<1> HIDE DEF w, v
<1>4. /\ SumFunctionOnSet(w, R) <= SumFunctionOnSet(w, S)
      /\ SumFunctionOnSet(v, R) = SumFunctionOnSet(w, R)
      /\ SumFunctionOnSet(w, R) \in Nat /\ SumFunctionOnSet(w, S) \in Nat
  BY <1>1, <1>2, SumMonotone, SumCongruent, SumIsNatural
<1>5. Cardinality(R) <= MaxEntries
  BY <1>1, <1>3, FS_CardinalityType, LimitsAreNaturals
<1>6. SumFunctionOnSet(v, R) <= MaxWeight
  BY <1>3, <1>4, LimitsAreNaturals
<1> QED BY <1>1, <1>5, <1>6, FitsIsSum DEF v

(* Whether entries fit depends on their weights only.                      *)
LEMMA FitsCongruent ==
    ASSUME NEW e, NEW f, NEW N, IsFiniteSet(N), \A n \in N : e[n].weight = f[n].weight
    PROVE  Fits(e, N) <=> Fits(f, N)
<1>1. [n \in N |-> e[n].weight] = [n \in N |-> f[n].weight]
  OBVIOUS
<1> QED BY <1>1, FitsIsSum, Zenon

(* What the loop leaves fits, or is the protected entry alone.             *)
LEMMA KeptFits ==
    ASSUME NEW D, IsFiniteSet(D), NEW e \in [D -> Entries], NEW p
    PROVE  Fits(e, Kept(e, p)) \/ Cardinality(Kept(e, p)) = 1
<1> DEFINE K == Kept(e, p)
           U(n) == {m \in D : m = p \/ e[m].last_access >= e[n].last_access}
           Times == {e[n].last_access : n \in K \ {p}}
<1>1. /\ K \subseteq D /\ IsFiniteSet(K)
      /\ \A n \in K \ {p} : Fits(e, U(n))
      /\ \A n \in D : U(n) \in SUBSET D /\ IsFiniteSet(U(n))
  <2>1. K \subseteq D /\ \A n \in D : U(n) \in SUBSET D
    BY DEF Kept
  <2>2. \A n \in K \ {p} : Fits(e, U(n))
    BY DEF Kept
  <2> HIDE DEF K, U
  <2> QED BY <2>1, <2>2, FS_Subset
<1>2. \A n \in D : e[n].last_access \in Nat
  BY DEF Entries
<1>3. CASE K \ {p} # {}
  <2>1. PICK n \in K \ {p} : \A m \in K \ {p} : e[n].last_access <= e[m].last_access
    <3> HIDE DEF K
    <3>1. Times \subseteq Nat /\ Times # {}
      BY <1>1, <1>2, <1>3
    <3>2. PICK time \in Times : \A other \in Times : time <= other
      <4> HIDE DEF Times
      <4> QED BY <3>1, LeastNatural
    <3> QED BY <3>2
  <2>2. K \in SUBSET U(n)
    <3> HIDE DEF K
    <3> QED BY <1>1, <1>2, <2>1
  <2> HIDE DEF K, U
  <2> QED BY <1>1, <2>1, <2>2, FitsMonotone DEF K
<1>4. CASE K = {}
  <2> DEFINE w == [n \in {} |-> e[n].weight]
  <2>1. Fits(e, {}) <=> Cardinality({}) <= MaxEntries /\ SumFunctionOnSet(w, {}) <= MaxWeight
    BY FS_EmptySet, FitsIsSum, Zenon
  <2> HIDE DEF w
  <2>2. Fits(e, {})
    BY <2>1, FS_EmptySet, SumEmpty, LimitsAreNaturals
  <2> QED BY <1>4, <2>2
<1>5. CASE K = {p}
  BY <1>5, FS_Singleton
<1> HIDE DEF K
<1> QED BY <1>3, <1>4, <1>5 DEF K

(* A section of the registry evicts from entries e, of the namespaces E,   *)
(* protecting p: those registered, p perhaps inserted or touched.          *)
Evicts(E, e, p) ==
    /\ clock' = clock + 1
    /\ DOMAIN entries \subseteq E /\ E \subseteq DOMAIN entries \cup {p}
    /\ \A q \in DOMAIN entries :
         /\ e[q].weight = weight[entries[q].knowledge]
         /\ q # p => e[q].last_access = entries[q].last_access
    /\ p \in E \ DOMAIN entries => e[p].last_access = clock'
    /\ p \in DOMAIN entries =>
         \/ e[p].last_access = clock'
         \/ /\ e[p].last_access = entries[p].last_access
            /\ \E t \in Threads : pc[t] = "Refreshing" /\ pc'[t] = "Idle" /\ space[known[t]] = p
    /\ entries' = [m \in Kept(e, p) |-> e[m]]

\* Each step evicts so, or leaves the entries alone.
LEMMA SharesOrEvicts ==
    ASSUME IInv, [Next]_vars
    PROVE  \/ entries' = entries /\ clock' = clock
           \/ \E E \in SUBSET Namespaces : \E e \in [E -> Entries], p \in Namespaces :
                Evicts(E, e, p)
<1> DEFINE Goal == \E E \in SUBSET Namespaces : \E e \in [E -> Entries], p \in Namespaces :
                     Evicts(E, e, p)
           D == DOMAIN entries
<1>1. /\ D \in SUBSET Namespaces /\ weight \in [Knowledge -> Nat] /\ clock + 1 \in Nat
      /\ \A q \in D : entries[q] \in Entries /\ entries[q].knowledge \in Knowledge
  BY LimitsAreNaturals DEF IInv, TypeOK, Entries
<1>2. ASSUME NEW f \in [D -> Entries], \A q \in D : f[q].knowledge = entries[q].knowledge
      PROVE  /\ Refreshed(f) \in [D -> Entries]
             /\ \A q \in D : /\ Refreshed(f)[q].last_access = f[q].last_access
                             /\ Refreshed(f)[q].weight = weight[entries[q].knowledge]
  BY <1>1, <1>2 DEF Refreshed, Entries
<1>3. ASSUME NEW t \in Threads, NEW n \in Namespaces, ShareKnown(t, n) PROVE Goal
  <2> DEFINE touched == [entries EXCEPT ![n].last_access = clock']
             e == Refreshed(touched)
  <2>1. /\ n \in D /\ clock' = clock + 1
        /\ entries' = [m \in Kept(e, n) |-> e[m]]
    BY <1>3 DEF ShareKnown, Tick, Evicted
  <2>2. /\ touched \in [D -> Entries]
        /\ \A q \in D : touched[q].knowledge = entries[q].knowledge
        /\ touched[n].last_access = clock'
        /\ \A q \in D : q # n => touched[q].last_access = entries[q].last_access
    BY <1>1, <2>1 DEF Entries
  <2> HIDE DEF touched
  <2>3. /\ e \in [D -> Entries]
        /\ \A q \in D : /\ e[q].last_access = touched[q].last_access
                        /\ e[q].weight = weight[entries[q].knowledge]
    BY <1>2, <2>2
  <2> HIDE DEF e
  <2>4. Evicts(D, e, n)
    BY <2>1, <2>2, <2>3 DEF Evicts
  <2> QED BY <1>1, <2>3, <2>4
<1>4. ASSUME NEW t \in Threads, NEW n \in Namespaces, NEW k \in Knowledge, ShareNew(t, n, k)
      PROVE  Goal
  <2> DEFINE E == D \cup {n}
             new == [knowledge |-> k, last_access |-> clock', weight |-> weight'[k]]
             e == [q \in E |-> IF q = n THEN new
                               ELSE [entries[q] EXCEPT !.weight = weight[entries[q].knowledge]]]
  <2>1. /\ n \notin D /\ clock' = clock + 1
        /\ entries' = [m \in Kept(e, n) |-> e[m]]
    BY <1>4 DEF ShareNew, Tick
  <2>2. new \in Entries
    <3>1. weight'[k] \in Nat
      BY <1>1, <1>4, NoPlansIsACache, WeightIsNatural DEF ShareNew
    <3> QED BY <1>1, <2>1, <3>1 DEF Entries
  <2>3. /\ E \in SUBSET Namespaces /\ e \in [E -> Entries]
        /\ e[n].last_access = clock'
        /\ \A q \in D : /\ e[q].last_access = entries[q].last_access
                        /\ e[q].weight = weight[entries[q].knowledge]
    <3>1. e[n] = new /\ new.last_access = clock'
      OBVIOUS
    <3>2. \A q \in D : /\ e[q] \in Entries
                       /\ e[q].last_access = entries[q].last_access
                       /\ e[q].weight = weight[entries[q].knowledge]
      <4> HIDE DEF new
      <4> QED BY <1>1, <2>1 DEF Entries
    <3>3. E \in SUBSET Namespaces
      BY <1>1
    <3> HIDE DEF new
    <3> QED BY <2>2, <3>1, <3>2, <3>3
  <2> HIDE DEF e
  <2>4. Evicts(E, e, n)
    BY <2>1, <2>3 DEF Evicts
  <2> QED BY <2>3, <2>4
<1>5. ASSUME NEW t \in Threads, Refresh(t) PROVE Goal
  <2> DEFINE n == space[known[t]]
             touched == IF Registered(known[t])
                        THEN [entries EXCEPT ![n].last_access = clock + 1]
                        ELSE entries
             e == Refreshed(touched)
  <2>1. /\ clock' = clock + 1
        /\ pc[t] = "Refreshing" /\ pc'[t] = "Idle"
        /\ entries' = [m \in Kept(e, n) |-> e[m]]
    BY <1>5 DEF Refresh, Tick, Evicted, IInv, TypeOK
  <2>2. n \in Namespaces
    BY <2>1, NothingIsNoKnowledge DEF IInv, Holders, InUse
  <2>3. /\ touched \in [D -> Entries]
        /\ \A q \in D : touched[q].knowledge = entries[q].knowledge
        /\ n \in D => \/ touched[n].last_access = clock'
                      \/ touched[n].last_access = entries[n].last_access
        /\ \A q \in D : q # n => touched[q].last_access = entries[q].last_access
    BY <1>1, <2>1 DEF Entries, Registered, IInv, TypeOK
  <2> HIDE DEF touched
  <2>4. /\ e \in [D -> Entries]
        /\ \A q \in D : /\ e[q].last_access = touched[q].last_access
                        /\ e[q].weight = weight[entries[q].knowledge]
    BY <1>2, <2>3
  <2> HIDE DEF e
  <2>5. Evicts(D, e, n)
    BY <2>1, <2>3, <2>4 DEF Evicts
  <2> QED BY <1>1, <2>2, <2>4, <2>5
<1>6. CASE UNCHANGED vars
  BY <1>6 DEF vars
<1> QED BY <1>3, <1>4, <1>5, <1>6
  DEF Next, Drop, PrepareCached, PrepareMissing, Land, Fail, StoreWeight

(* The entries are finitely many, and their accesses tell them apart.      *)
EntriesApart ==
    /\ IsFiniteSet(DOMAIN entries)
    /\ \A n \in DOMAIN entries : entries[n].last_access <= clock
    /\ \A m, n \in DOMAIN entries :
         entries[m].last_access = entries[n].last_access => m = n

\* An eviction keeps them so, and what it leaves is within the limits.
LEMMA EvictsApart ==
    ASSUME IInv, EntriesApart,
           NEW E \in SUBSET Namespaces, NEW e \in [E -> Entries], NEW p \in Namespaces,
           Evicts(E, e, p)
    PROVE  EntriesApart' /\ WithinLimits'
<1> DEFINE K == Kept(e, p)
           D == DOMAIN entries
<1>1. IsFiniteSet(E)
  <2>1. IsFiniteSet(D \cup {p})
    BY FS_Union, FS_Singleton DEF EntriesApart
  <2> QED BY <2>1, FS_Subset DEF Evicts
<1>2. K \in SUBSET E /\ IsFiniteSet(K)
  <2>1. K \in SUBSET E
    BY DEF Kept
  <2> HIDE DEF K
  <2> QED BY <1>1, <2>1, FS_Subset
<1>3. DOMAIN entries' = K /\ \A q \in K : entries'[q] = e[q]
  BY DEF Evicts
<1>4. EntriesApart'
  <2>1. clock \in Nat /\ \A q \in D : entries[q].last_access \in Nat
    BY DEF IInv, TypeOK, Entries
  <2>2. \A q \in E : \/ e[q].last_access = clock' /\ q = p
                     \/ q \in D /\ e[q].last_access = entries[q].last_access
    BY DEF Evicts
  <2>3. clock' = clock + 1
    BY DEF Evicts
  <2> HIDE DEF K, D
  <2>4. \A q \in E : e[q].last_access <= clock'
    BY <2>1, <2>2, <2>3 DEF EntriesApart, D
  <2>5. \A q, r \in E : e[q].last_access = e[r].last_access => q = r
    BY <2>1, <2>2, <2>3 DEF EntriesApart, D
  <2> QED BY <1>2, <1>3, <2>4, <2>5 DEF EntriesApart
<1>5. WithinLimits'
  <2>1. Fits(e, K) \/ Cardinality(K) = 1
    BY <1>1, KeptFits
  <2> HIDE DEF K
  <2>2. Fits(entries', K) <=> Fits(e, K)
    BY <1>2, <1>3, FitsCongruent
  <2>3. Fits(entries', DOMAIN entries') \/ Cardinality(DOMAIN entries') = 1
    BY <1>3, <2>1, <2>2, Zenon
  <2> QED BY <2>3, Zenon DEF WithinLimits
<1> QED BY <1>4, <1>5

(* What EvictionIsLRU says of a step.                                      *)
EvictsOldest ==
    LET gone == DOMAIN entries \ DOMAIN entries' IN
    \A g \in gone :
      /\ \A n \in DOMAIN entries' \cap DOMAIN entries :
           \/ entries[g].last_access < entries[n].last_access
           \/ entries'[n].last_access = clock'
           \/ \E t \in Threads : /\ pc[t] = "Refreshing" /\ pc'[t] = "Idle"
                                 /\ space[known[t]] = n
      /\ LET younger == {n \in gone : entries[n].last_access > entries[g].last_access}
             rest == DOMAIN entries' \cup younger \cup {g}
             load == [n \in rest |->
                         [weight |-> IF n \in DOMAIN entries'
                                     THEN entries'[n].weight
                                     ELSE weight[entries[n].knowledge]]]
         IN  ~ Fits(load, rest)

\* What an eviction removes would not fit with what stays, and is older.
LEMMA EvictsLRU ==
    ASSUME IInv, EntriesApart,
           NEW E \in SUBSET Namespaces, NEW e \in [E -> Entries], NEW p \in Namespaces,
           Evicts(E, e, p)
    PROVE  EvictsOldest
<1> DEFINE K == Kept(e, p)
           D == DOMAIN entries
           U(n) == {m \in E : m = p \/ e[m].last_access >= e[n].last_access}
<1>1. IsFiniteSet(E) /\ D \subseteq E
  <2>1. IsFiniteSet(D \cup {p})
    BY FS_Union, FS_Singleton DEF EntriesApart
  <2> QED BY <2>1, FS_Subset DEF Evicts
<1>2. /\ K \in SUBSET E
      /\ \A n \in E : n \in K <=> n = p \/ Fits(e, U(n))
      /\ \A n \in E : U(n) \in SUBSET E /\ p \in K \cup (Namespaces \ E)
  BY DEF Kept
<1>3. DOMAIN entries' = K /\ \A q \in K : entries'[q] = e[q]
  BY DEF Evicts
<1>4. /\ \A q \in D : /\ entries[q].last_access \in Nat
                      /\ e[q].weight = weight[entries[q].knowledge]
                      /\ q # p => e[q].last_access = entries[q].last_access
      /\ \A q \in E : e[q].last_access \in Nat
  BY DEF Evicts, IInv, TypeOK, Entries
<1>5. \A g \in E \ K, n \in K : n = p \/ e[g].last_access < e[n].last_access
  <2> SUFFICES ASSUME NEW g \in E \ K, NEW n \in K, n # p,
                      ~ (e[g].last_access < e[n].last_access)
               PROVE  FALSE
    OBVIOUS
  <2>1. Fits(e, U(n)) /\ ~ Fits(e, U(g)) /\ n \in E /\ U(n) \in SUBSET E /\ IsFiniteSet(U(n))
    <3>1. Fits(e, U(n)) /\ ~ Fits(e, U(g)) /\ n \in E /\ U(n) \in SUBSET E
      BY <1>2
    <3> HIDE DEF U, K
    <3> QED BY <1>1, <3>1, FS_Subset
  <2>2. U(g) \in SUBSET U(n)
    <3> HIDE DEF K
    <3>1. e[n].last_access <= e[g].last_access
      BY <1>4, <2>1
    <3> QED BY <1>4, <2>1, <3>1
  <2> HIDE DEF U
  <2> QED BY <2>1, <2>2, FitsMonotone
<1>6. ASSUME NEW g \in D \ K, NEW n \in K \cap D
      PROVE  \/ entries[g].last_access < entries[n].last_access
             \/ entries'[n].last_access = clock'
             \/ \E t \in Threads : /\ pc[t] = "Refreshing" /\ pc'[t] = "Idle"
                                   /\ space[known[t]] = n
  <2>1. CASE n = p
    BY <1>3, <2>1 DEF Evicts
  <2>2. CASE n # p
    <3>1. g # p
      BY <1>1, <1>2
    <3> HIDE DEF K, D
    <3> QED BY <1>1, <1>4, <1>5, <2>2, <3>1
  <2> QED BY <2>1, <2>2
<1>7. ASSUME NEW g \in D \ K
      PROVE  LET younger == {n \in D \ K : entries[n].last_access > entries[g].last_access}
                 rest == K \cup younger \cup {g}
                 load == [n \in rest |-> [weight |-> IF n \in K THEN entries'[n].weight
                                                     ELSE weight[entries[n].knowledge]]]
             IN  ~ Fits(load, rest)
  <2> DEFINE younger == {n \in D \ K : entries[n].last_access > entries[g].last_access}
             rest == K \cup younger \cup {g}
             load == [n \in rest |-> [weight |-> IF n \in K THEN entries'[n].weight
                                                 ELSE weight[entries[n].knowledge]]]
  <2>1. g \in E /\ g # p /\ ~ Fits(e, U(g))
    BY <1>1, <1>2
  <2>2. U(g) \in SUBSET rest /\ rest \in SUBSET E
    <3>1. \A q \in U(g) \ K : q \in younger \cup {g}
      <4> SUFFICES ASSUME NEW q \in U(g) \ K, q # g PROVE q \in younger
        OBVIOUS
      <4>1. q \in D /\ q # p
        BY <1>2 DEF Evicts
      <4>2. entries[q].last_access >= entries[g].last_access
        BY <1>4, <2>1, <4>1
      <4>3. entries[q].last_access # entries[g].last_access
        BY <4>1 DEF EntriesApart
      <4> QED BY <1>4, <4>1, <4>2, <4>3
    <3> HIDE DEF U, younger
    <3>2. U(g) \in SUBSET E /\ younger \subseteq D
      BY <1>2, <2>1 DEF younger
    <3> HIDE DEF K, D
    <3> QED BY <1>1, <1>2, <2>1, <3>1, <3>2
  <2>3. \A n \in rest : load[n].weight = e[n].weight
    <3>1. \A n \in K : entries'[n].weight = e[n].weight
      BY <1>3
    <3>2. \A n \in rest \ K : n \in D /\ weight[entries[n].knowledge] = e[n].weight
      BY <1>4
    <3> HIDE DEF K, D
    <3> QED BY <3>1, <3>2
  <2> HIDE DEF U, K, D, rest, load
  <2>4. IsFiniteSet(rest)
    BY <1>1, <2>2, FS_Subset
  <2>5. ~ Fits(e, rest)
    BY <2>1, <2>2, <2>4, FitsMonotone
  <2>6. ~ Fits(load, rest)
    BY <2>3, <2>4, <2>5, FitsCongruent
  <2> QED BY <2>6 DEF rest, load
<1> HIDE DEF K
<1> QED BY <1>3, <1>6, <1>7 DEF EvictsOldest

LEMMA EvictionStep ==
    ASSUME IInv, EntriesApart, [Next]_vars
    PROVE  EntriesApart' /\ (WithinLimits => WithinLimits') /\ EvictsOldest
<1>1. CASE entries' = entries /\ clock' = clock
  BY <1>1 DEF EntriesApart, WithinLimits, EvictsOldest
<1>2. CASE \E E \in SUBSET Namespaces : \E e \in [E -> Entries], p \in Namespaces :
             Evicts(E, e, p)
  BY <1>2, EvictsApart, EvictsLRU
<1> QED BY <1>1, <1>2, SharesOrEvicts

LEMMA NoEntries == Init => EntriesApart /\ WithinLimits
<1> SUFFICES ASSUME Init PROVE EntriesApart /\ WithinLimits
  OBVIOUS
<1> DEFINE e == entries
           w == [n \in {} |-> e[n].weight]
<1>1. DOMAIN e = {}
  BY DEF Init
<1>2. EntriesApart
  BY <1>1, FS_EmptySet DEF EntriesApart
<1>3. Fits(e, {}) <=> Cardinality({}) <= MaxEntries /\ SumFunctionOnSet(w, {}) <= MaxWeight
  BY FS_EmptySet, FitsIsSum, Zenon
<1>4. Fits(e, {})
  <2> HIDE DEF w
  <2> QED BY <1>3, FS_EmptySet, SumEmpty, LimitsAreNaturals
<1>5. WithinLimits
  BY <1>1, <1>4, Zenon DEF WithinLimits
<1> QED BY <1>2, <1>5

(* After every section of the registry its entries respect both limits,    *)
(* but for a single entry in use that is too heavy (evict_to_limits), for  *)
(* any limits and weights, whoever stored the weights since.               *)
THEOREM LimitsKept == Spec => []WithinLimits
<1>1. IInv /\ EntriesApart /\ WithinLimits /\ [Next]_vars
        => (EntriesApart /\ WithinLimits)'
  BY EvictionStep
<1> QED BY <1>1, NoEntries, Inductive, PTL DEF Spec

(* An entry is evicted only when it would not fit with those that stay,    *)
(* and only if they are younger, but for the one protected                 *)
(* (evict_to_limits): the accesses tell the entries apart at all times.    *)
THEOREM EvictsLeastRecent == Spec => EvictionIsLRU
<1>1. IInv /\ EntriesApart /\ [Next]_vars => EntriesApart'
  BY EvictionStep
<1>2. IInv /\ EntriesApart /\ [Next]_vars => [EvictsOldest]_vars
  BY EvictionStep
<1> QED BY <1>1, <1>2, NoEntries, Inductive, PTL DEF Spec, EvictionIsLRU, EvictsOldest

=============================================================================
