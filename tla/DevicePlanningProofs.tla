------------------------- MODULE DevicePlanningProofs -------------------------
(***************************************************************************)
(* Proofs about the two parts of compile/device_planning that a workflow   *)
(* runs: PlanningSession (session.rs), for any threads, roots, limits and  *)
(* planner, and DevicePlanner (planner.rs), for any library of rules and   *)
(* templates, any device and any limits.                                   *)
(*                                                                         *)
(* The session comes first; the accounts of its cache (sizes, bytes and    *)
(* clock) follow its threads.  Of the planner there come the order of keys *)
(* and the profiles and costs of plans, the helpers that sort, intern and  *)
(* flatten, the shape of graph and plans (Structure), the measure of the   *)
(* search, what pruning may not lose (Matches), and the plans there could  *)
(* be at all (Arena), of which the best is exported (Agreement).           *)
(***************************************************************************)
EXTENDS PlanningSession, DevicePlanner, FoldTheorems, SequenceTheorems

-----------------------------------------------------------------------------
(* The inductive invariant *)

\* What of TypeOK the proofs need of the threads ...
ThreadShape ==
    /\ pc \in [Threads -> Control]
    /\ request \in [Threads -> SUBSET Roots]
    /\ missing \in [Threads -> SUBSET Roots]
    /\ local = [t \in Threads |-> local[t]]
    /\ answer = [t \in Threads |-> answer[t]]

\* ... and of the cache: batches are records, last used no later than now.
CacheShape ==
    /\ clock \in Nat
    /\ batches = [k \in DOMAIN batches |->
                     [roots |-> batches[k].roots, bytes |-> batches[k].bytes,
                      lastUsed |-> batches[k].lastUsed]]
    /\ \A k \in DOMAIN batches : batches[k].lastUsed \in 0 .. clock

\* A thread plans what its leftovers lack of its request, and something.
PlansTheRest ==
    \A t \in Threads : Flying(t) =>
        /\ missing[t] # {}
        /\ request[t] \subseteq DOMAIN local[t] \cup missing[t]

IInv == ThreadShape /\ CacheShape /\ PlansTheRest /\ FlightsApart /\ WaitersHaveFlight /\ CacheCoherent

-----------------------------------------------------------------------------
(* Caches *)

\* Compatibility does not depend on the order.
LEMMA CompatibleSymmetric ==
    ASSUME NEW c, NEW d, Compatible(c, d) PROVE Compatible(d, c)
BY DEF Compatible

\* Among batches that hold a root there is one used last.
LEMMA LatestExists ==
    ASSUME CacheShape, NEW r, Holding(r) # {}
    PROVE  Latest(r) \in Holding(r)
<1> DEFINE Age(k) == clock - batches[k].lastUsed
           Ages == {Age(k) : k \in Holding(r)}
<1>1. \A k \in Holding(r) : /\ batches[k].lastUsed \in Nat /\ batches[k].lastUsed <= clock
                            /\ Age(k) \in Nat
  BY DEF CacheShape, Holding
<1>2. Ages \subseteq Nat /\ Ages # {}
  BY <1>1
<1>3. PICK a \in Ages : \A b \in Ages : ~ (<<b, a>> \in OpToRel(<, Nat))
  <2> HIDE DEF Ages
  <2> QED BY <1>2, NatLessThanWellFounded, WFMin
<1>4. PICK k \in Holding(r) : a = Age(k)
  OBVIOUS
<1>5. ASSUME NEW j \in Holding(r) PROVE batches[j].lastUsed <= batches[k].lastUsed
  <2>1. Age(j) \in Ages
    OBVIOUS
  <2>2. ~ (Age(j) < Age(k))
    BY <1>1, <1>3, <1>4, <2>1 DEF OpToRel
  <2> QED BY <1>1, <2>2 DEF CacheShape
<1> QED BY <1>5 DEF Latest

\* Leftovers are plans of cached batches, and agree with every batch.
LEMMA ReusableFacts ==
    ASSUME CacheShape, CacheCoherent, NEW R \in SUBSET Roots
    PROVE  /\ DOMAIN Reusable(R) = R \ Missing(R)
           /\ CompatibleWithAll(Reusable(R))
<1>1. DOMAIN Reusable(R) = {r \in R : Holding(r) # {}}
  BY DEF Reusable
<1>2. DOMAIN Reusable(R) = R \ Missing(R)
  BY <1>1 DEF Missing
<1>3. ASSUME NEW k \in DOMAIN batches, NEW r \in DOMAIN batches[k].roots \cap DOMAIN Reusable(R)
      PROVE  batches[k].roots[r] = Reusable(R)[r]
  <2>1. Latest(r) \in DOMAIN batches /\ r \in DOMAIN batches[Latest(r)].roots
    BY <1>1, LatestExists DEF Holding
  <2>2. Reusable(R)[r] = batches[Latest(r)].roots[r]
    BY <1>1 DEF Reusable
  <2> QED BY <2>1, <2>2 DEF CacheCoherent, Compatible
<1> QED BY <1>2, <1>3 DEF CompatibleWithAll, Compatible

\* Storing a batch adds at most that batch, and drops others.
LEMMA StoreFacts ==
    ASSUME NEW R, NEW c, CacheShape, Store(R, c)
    PROVE  /\ clock' \in Nat /\ clock <= clock'
           /\ batches' = [k \in DOMAIN batches' |-> batches'[k]]
           /\ \A k \in DOMAIN batches' :
                \/ k \in DOMAIN batches /\ batches'[k] = batches[k]
                \/ /\ k = R
                   /\ \E b : batches'[k] = [roots |-> c, bytes |-> b, lastUsed |-> clock']
<1>1. CASE Bytes(c) > MaxBytes
  BY <1>1 DEF Store, cacheState, CacheShape
<1>2. CASE ~ (Bytes(c) > MaxBytes)
  <2>1. /\ clock' = clock + 1
        /\ batches' = [k \in Kept(R, c) |-> BatchesWith(R, c)[k]]
    BY <1>2 DEF Store
  <2>2. /\ Kept(R, c) \subseteq DOMAIN batches \cup {R}
        /\ \A k \in Kept(R, c) : BatchesWith(R, c)[k] =
              IF k = R THEN [roots |-> c, bytes |-> Bytes(c), lastUsed |-> clock + 1]
              ELSE batches[k]
    BY DEF Kept, BatchesWith
  <2>3. clock' \in Nat /\ clock <= clock'
    BY <2>1 DEF CacheShape
  <2>4. DOMAIN batches' = Kept(R, c) /\ batches' = [k \in DOMAIN batches' |-> batches'[k]]
    BY <2>1
  <2>5. ASSUME NEW k \in DOMAIN batches'
        PROVE  \/ k \in DOMAIN batches /\ batches'[k] = batches[k]
               \/ /\ k = R
                  /\ \E b : batches'[k] = [roots |-> c, bytes |-> b, lastUsed |-> clock']
    <3>1. batches'[k] = BatchesWith(R, c)[k] /\ k \in Kept(R, c)
      BY <2>1, <2>4
    <3>2. CASE k = R
      BY <2>1, <2>2, <3>1, <3>2
    <3>3. CASE k # R
      BY <2>2, <3>1, <3>3
    <3> QED BY <3>2, <3>3
  <2> QED BY <2>3, <2>4, <2>5
<1> QED BY <1>1, <1>2

\* A compatible batch that is stored keeps the cache coherent.
LEMMA StoreKeepsCoherence ==
    ASSUME NEW R, NEW c, CacheShape, CacheCoherent,
           R \subseteq DOMAIN c, CompatibleWithAll(c), Store(R, c)
    PROVE  /\ CacheShape' /\ CacheCoherent'
           /\ \A k \in DOMAIN batches' : Compatible(batches'[k].roots, c)
<1>1. ASSUME NEW k \in DOMAIN batches'
      PROVE  /\ batches'[k].lastUsed \in 0 .. clock'
             /\ batches'[k] = [roots |-> batches'[k].roots, bytes |-> batches'[k].bytes,
                               lastUsed |-> batches'[k].lastUsed]
             /\ k \subseteq DOMAIN batches'[k].roots
             /\ \/ k \in DOMAIN batches /\ batches'[k].roots = batches[k].roots
                \/ batches'[k].roots = c
  <2>1. CASE k \in DOMAIN batches /\ batches'[k] = batches[k]
    BY <2>1, StoreFacts DEF CacheShape, CacheCoherent
  <2>2. CASE k = R /\ \E b : batches'[k] = [roots |-> c, bytes |-> b, lastUsed |-> clock']
    BY <2>2, StoreFacts
  <2> QED BY <2>1, <2>2, StoreFacts
<1>2. CacheShape'
  BY <1>1, StoreFacts DEF CacheShape
<1>3. ASSUME NEW k \in DOMAIN batches' PROVE Compatible(batches'[k].roots, c)
  BY <1>1 DEF CompatibleWithAll, Compatible
<1>4. ASSUME NEW j \in DOMAIN batches', NEW k \in DOMAIN batches'
      PROVE  Compatible(batches'[j].roots, batches'[k].roots)
  <2>1. CASE batches'[k].roots = c
    BY <1>3, <2>1
  <2>2. CASE batches'[j].roots = c
    BY <1>3, <2>2, CompatibleSymmetric
  <2>3. CASE /\ k \in DOMAIN batches /\ batches'[k].roots = batches[k].roots
             /\ j \in DOMAIN batches /\ batches'[j].roots = batches[j].roots
    BY <2>3 DEF CacheCoherent
  <2> QED BY <1>1, <2>1, <2>2, <2>3
<1> QED BY <1>1, <1>2, <1>3, <1>4 DEF CacheCoherent

\* Touching a batch changes no result.
LEMMA TouchKeepsCoherence ==
    ASSUME CacheShape, CacheCoherent, NEW k \in DOMAIN batches,
           batches' = [batches EXCEPT ![k].lastUsed = clock + 1], clock' = clock + 1
    PROVE  /\ CacheShape' /\ CacheCoherent'
           /\ DOMAIN batches' = DOMAIN batches
           /\ \A j \in DOMAIN batches : batches'[j].roots = batches[j].roots
<1>1. ASSUME NEW j \in DOMAIN batches
      PROVE  batches'[j] = [roots |-> batches[j].roots, bytes |-> batches[j].bytes,
                            lastUsed |-> IF j = k THEN clock + 1 ELSE batches[j].lastUsed]
  BY DEF CacheShape
<1>2. DOMAIN batches' = DOMAIN batches
  OBVIOUS
<1>3. CacheShape'
  <2>1. clock' \in Nat
    BY DEF CacheShape
  <2>2. batches' = [j \in DOMAIN batches' |->
                     [roots |-> batches'[j].roots, bytes |-> batches'[j].bytes,
                      lastUsed |-> batches'[j].lastUsed]]
    <3>1. batches' = [j \in DOMAIN batches' |-> batches'[j]]
      OBVIOUS
    <3> QED BY <1>1, <1>2, <3>1
  <2>3. \A j \in DOMAIN batches' : batches'[j].lastUsed \in 0 .. clock'
    BY <1>1, <1>2 DEF CacheShape
  <2> QED BY <2>1, <2>2, <2>3 DEF CacheShape
<1>4. CacheCoherent'
  BY <1>1, <1>2 DEF CacheCoherent
<1> QED BY <1>1, <1>2, <1>3, <1>4

-----------------------------------------------------------------------------
(* Every step *)

\* A step touches a batch, stores a compatible batch of the roots it was asked
\* for, or leaves the cache alone.
LEMMA Served ==
    ASSUME NEW t \in Threads, ServeCached(t), IInv
    PROVE  /\ CacheShape' /\ CacheCoherent'
           /\ request[t] \subseteq DOMAIN answer'[t].roots
           /\ \A j \in DOMAIN batches' : Compatible(batches'[j].roots, answer'[t].roots)
<1>1. PICK k \in Answering(request[t]) :
            /\ batches' = [batches EXCEPT ![k].lastUsed = clock + 1]
            /\ answer' = [answer EXCEPT ![t] = Found(batches[k].roots)]
            /\ clock' = clock + 1
  BY DEF ServeCached, Return
<1>2. k \in DOMAIN batches /\ request[t] \subseteq DOMAIN batches[k].roots
  BY DEF Answering, IInv, CacheCoherent
<1>3. answer'[t].roots = batches[k].roots
  BY <1>1 DEF IInv, ThreadShape, Found
<1>4. /\ CacheShape' /\ CacheCoherent' /\ DOMAIN batches' = DOMAIN batches
      /\ \A j \in DOMAIN batches : batches'[j].roots = batches[j].roots
  BY <1>1, <1>2, TouchKeepsCoherence DEF IInv
<1>5. \A j \in DOMAIN batches : Compatible(batches[j].roots, batches[k].roots)
  BY <1>2 DEF IInv, CacheCoherent
<1> QED BY <1>2, <1>3, <1>4, <1>5

\* Leftovers that make up a request never conflict, and become a batch.
LEMMA Combined ==
    ASSUME NEW t \in Threads, ServeCombined(t), IInv
    PROVE  /\ CacheShape' /\ CacheCoherent'
           /\ request[t] \subseteq DOMAIN answer'[t].roots
           /\ \A j \in DOMAIN batches' : Compatible(batches'[j].roots, answer'[t].roots)
<1> DEFINE c == Reusable(request[t])
<1>1. DOMAIN c = request[t] /\ CompatibleWithAll(c)
  BY ReusableFacts DEF IInv, ThreadShape, ServeCombined
<1>2. Store(request[t], c) /\ answer' = [answer EXCEPT ![t] = Found(c)]
  BY <1>1 DEF ServeCombined, Return
<1>3. answer'[t].roots = c
  BY <1>2 DEF IInv, ThreadShape, Found
<1>4. /\ CacheShape' /\ CacheCoherent'
      /\ \A j \in DOMAIN batches' : Compatible(batches'[j].roots, c)
  <2> HIDE DEF c
  <2> QED BY <1>1, <1>2, StoreKeepsCoherence DEF IInv
<1> QED BY <1>1, <1>3, <1>4

\* What lands is complete and compatible, or is reported as a failure.
LEMMA Landed ==
    ASSUME NEW t \in Threads, Land(t), IInv
    PROVE  /\ CacheShape' /\ CacheCoherent'
           /\ answer'[t].ok =>
                /\ request[t] \subseteq DOMAIN answer'[t].roots
                /\ \A j \in DOMAIN batches' : Compatible(batches'[j].roots, answer'[t].roots)
<1>1. CASE answer' = [answer EXCEPT ![t] = Failed] /\ UNCHANGED cacheState
  <2>1. ~ answer'[t].ok
    BY <1>1 DEF IInv, ThreadShape, Failed
  <2> QED BY <1>1, <2>1 DEF IInv, CacheShape, CacheCoherent, cacheState
<1>2. ASSUME NEW staged \in Staged(missing[t]),
             Compatible(local[t], staged), CompatibleWithAll(Merged(local[t], staged)),
             answer' = [answer EXCEPT ![t] = Found(Merged(local[t], staged))],
             Store(request[t], Merged(local[t], staged))
      PROVE  /\ CacheShape' /\ CacheCoherent'
             /\ request[t] \subseteq DOMAIN answer'[t].roots
             /\ \A j \in DOMAIN batches' : Compatible(batches'[j].roots, answer'[t].roots)
  <2> DEFINE c == Merged(local[t], staged)
  <2>1. missing[t] \subseteq DOMAIN staged
    BY DEF Staged
  <2>2. request[t] \subseteq DOMAIN c
    BY <2>1 DEF Merged, IInv, PlansTheRest, Flying, Land
  <2>3. answer'[t].roots = c
    BY <1>2 DEF IInv, ThreadShape, Found
  <2>4. /\ CacheShape' /\ CacheCoherent'
        /\ \A j \in DOMAIN batches' : Compatible(batches'[j].roots, c)
    <3>1. CompatibleWithAll(c) /\ Store(request[t], c)
      BY <1>2
    <3> HIDE DEF c
    <3> QED BY <2>2, <3>1, StoreKeepsCoherence DEF IInv
  <2> QED BY <2>2, <2>3, <2>4
<1> QED BY <1>1, <1>2 DEF Land

\* The cache stays coherent.
LEMMA CacheStep ==
    ASSUME IInv, [Next]_vars PROVE CacheShape' /\ CacheCoherent'
<1>1. CASE UNCHANGED cacheState
  BY <1>1 DEF IInv, CacheShape, CacheCoherent, cacheState
<1>2. CASE UNCHANGED vars
  BY <1>1, <1>2 DEF vars, cacheState
<1>3. ASSUME NEW t \in Threads,
             (\E R \in Requests : Call(t, R)) \/ TakeOff(t) \/ Wait(t)
                \/ SpuriousWakeup(t) \/ Panic(t)
      PROVE  UNCHANGED cacheState
  BY <1>3 DEF Call, TakeOff, Wait, SpuriousWakeup, Panic
<1> QED BY <1>1, <1>2, <1>3, Served, Combined, Landed DEF Next, Look

\* The variables of the threads keep their shape.
LEMMA ThreadStep ==
    ASSUME IInv, [Next]_vars PROVE ThreadShape'
<1> USE DEF IInv, ThreadShape, Control
<1>1. CASE UNCHANGED vars
  BY <1>1 DEF vars
<1> SUFFICES ASSUME NEW t \in Threads,
                    (\E R \in Requests : Call(t, R)) \/ Look(t) \/ SpuriousWakeup(t)
                        \/ Land(t) \/ Panic(t)
             PROVE  ThreadShape'
  BY <1>1 DEF Next
<1>2. ASSUME NEW R \in Requests, Call(t, R) PROVE ThreadShape'
  BY <1>2, RequestsAreOfRoots DEF Call
<1>3. CASE ServeCached(t)
  BY <1>3 DEF ServeCached, Return, Forget
<1>4. CASE ServeCombined(t)
  BY <1>4 DEF ServeCombined, Return, Forget
<1>5. CASE TakeOff(t)
  BY <1>5 DEF TakeOff, Missing
<1>6. CASE Wait(t)
  BY <1>6 DEF Wait, Missing
<1>7. CASE SpuriousWakeup(t)
  BY <1>7 DEF SpuriousWakeup, call
<1>8. CASE Land(t)
  BY <1>8 DEF Land, Forget, Notified
<1>9. CASE Panic(t)
  BY <1>9 DEF Panic, call
<1> QED BY <1>2, <1>3, <1>4, <1>5, <1>6, <1>7, <1>8, <1>9 DEF Look

\* What a step does to the threads that plan: one takes off with roots nobody
\* plans, one lands, or none of them moves.
LEMMA FlyingStep ==
    ASSUME IInv, [Next]_vars
    PROVE  \/ /\ flights' = flights
              /\ \A u \in Threads : /\ Flying(u)' <=> Flying(u)
                                    /\ Flying(u) => UNCHANGED <<request[u], missing[u], local[u]>>
           \/ \E t \in Threads : TakeOff(t)
           \/ \E t \in Threads : Land(t)
<1> USE DEF IInv, ThreadShape, Flying
<1>1. CASE UNCHANGED vars
  BY <1>1 DEF vars
<1>2. ASSUME NEW t \in Threads, NEW R \in Requests, Call(t, R)
      PROVE  /\ flights' = flights
             /\ \A u \in Threads : /\ Flying(u)' <=> Flying(u)
                                   /\ Flying(u) => UNCHANGED <<request[u], missing[u], local[u]>>
  BY <1>2 DEF Call
<1>3. ASSUME NEW t \in Threads, ServeCached(t) \/ ServeCombined(t)
      PROVE  /\ flights' = flights
             /\ \A u \in Threads : /\ Flying(u)' <=> Flying(u)
                                   /\ Flying(u) => UNCHANGED <<request[u], missing[u], local[u]>>
  BY <1>3 DEF ServeCached, ServeCombined, Return, Forget
<1>4. ASSUME NEW t \in Threads, Wait(t) \/ SpuriousWakeup(t) \/ Panic(t)
      PROVE  /\ flights' = flights
             /\ \A u \in Threads : /\ Flying(u)' <=> Flying(u)
                                   /\ Flying(u) => UNCHANGED <<request[u], missing[u], local[u]>>
  BY <1>4 DEF Wait, SpuriousWakeup, Panic, call
<1> QED BY <1>1, <1>2, <1>3, <1>4 DEF Next, Look

\* A thread takes off with what its leftovers lack, which nobody is planning.
LEMMA TakeOffFacts ==
    ASSUME IInv, NEW t \in Threads, TakeOff(t)
    PROVE  /\ \A u \in Threads : Flying(u)' <=> Flying(u) \/ u = t
           /\ ~ Flying(t)
           /\ flights' = flights \cup {missing'[t]}
           /\ missing'[t] # {}
           /\ request'[t] \subseteq DOMAIN local'[t] \cup missing'[t]
           /\ \A u \in Threads : Flying(u) => missing[u] \cap missing'[t] = {}
           /\ \A u \in Threads : u # t => UNCHANGED <<request[u], missing[u], local[u]>>
           /\ \A u \in Threads : pc'[u] = "Waiting" <=> pc[u] = "Waiting"
<1>1. /\ missing'[t] = Missing(request[t]) /\ local'[t] = Reusable(request[t])
      /\ request' = request /\ request[t] \in SUBSET Roots
  BY DEF TakeOff, IInv, ThreadShape
<1>2. DOMAIN local'[t] = request[t] \ missing'[t]
  BY <1>1, ReusableFacts DEF IInv
<1>3. \A u \in Threads : Flying(u) => missing[u] \cap missing'[t] = {}
  BY <1>1 DEF TakeOff, OverlapsFlight, IInv, FlightsApart
<1>4. /\ \A u \in Threads : Flying(u)' <=> Flying(u) \/ u = t
      /\ ~ Flying(t)
      /\ flights' = flights \cup {missing'[t]} /\ missing'[t] # {}
      /\ \A u \in Threads : u # t => UNCHANGED <<request[u], missing[u], local[u]>>
      /\ \A u \in Threads : pc'[u] = "Waiting" <=> pc[u] = "Waiting"
  BY <1>1 DEF TakeOff, IInv, ThreadShape, Flying
<1> QED BY <1>1, <1>2, <1>3, <1>4

\* A landing ends the flight of one thread and leaves nobody waiting.
LEMMA LandFacts ==
    ASSUME IInv, NEW t \in Threads, Land(t)
    PROVE  /\ Flying(t)
           /\ \A u \in Threads : Flying(u)' <=> Flying(u) /\ u # t
           /\ flights' = flights \ {missing[t]}
           /\ \A u \in Threads : u # t => UNCHANGED <<request[u], missing[u], local[u]>>
           /\ \A u \in Threads : pc'[u] # "Waiting"
BY DEF Land, IInv, ThreadShape, Flying, Notified, Forget

\* A thread that plans has something to plan, and all the rest.
LEMMA PlansStep ==
    ASSUME IInv, [Next]_vars PROVE PlansTheRest'
<1>1. ASSUME NEW t \in Threads, TakeOff(t) PROVE PlansTheRest'
  BY <1>1, TakeOffFacts DEF IInv, PlansTheRest
<1>2. ASSUME NEW t \in Threads, Land(t) PROVE PlansTheRest'
  BY <1>2, LandFacts DEF IInv, PlansTheRest
<1>3. CASE /\ flights' = flights
           /\ \A u \in Threads : /\ Flying(u)' <=> Flying(u)
                                 /\ Flying(u) => UNCHANGED <<request[u], missing[u], local[u]>>
  BY <1>3 DEF IInv, PlansTheRest
<1> QED BY <1>1, <1>2, <1>3, FlyingStep

\* Flights stay apart, and each thread ends only its own.
LEMMA FlightStep ==
    ASSUME IInv, [Next]_vars PROVE FlightsApart'
<1>1. ASSUME NEW t \in Threads, TakeOff(t) PROVE FlightsApart'
  <2>1. flights' = {missing'[u] : u \in {v \in Threads : Flying(v)'}}
    BY <1>1, TakeOffFacts DEF IInv, FlightsApart
  <2>2. ASSUME NEW u \in Threads, NEW v \in Threads, u # v, Flying(u)', Flying(v)'
        PROVE  missing'[u] \cap missing'[v] = {}
    BY <1>1, <2>2, TakeOffFacts DEF IInv, FlightsApart
  <2> QED BY <2>1, <2>2 DEF FlightsApart
<1>2. ASSUME NEW t \in Threads, Land(t) PROVE FlightsApart'
  <2>1. \A u \in Threads : Flying(u) /\ u # t => missing[u] # missing[t]
    BY <1>2, LandFacts DEF IInv, FlightsApart, PlansTheRest
  <2>2. flights' = {missing'[u] : u \in {v \in Threads : Flying(v)'}}
    BY <1>2, <2>1, LandFacts DEF IInv, FlightsApart
  <2>3. ASSUME NEW u \in Threads, NEW v \in Threads, u # v, Flying(u)', Flying(v)'
        PROVE  missing'[u] \cap missing'[v] = {}
    BY <1>2, <2>3, LandFacts DEF IInv, FlightsApart
  <2> QED BY <2>2, <2>3 DEF FlightsApart
<1>3. CASE /\ flights' = flights
           /\ \A u \in Threads : /\ Flying(u)' <=> Flying(u)
                                 /\ Flying(u) => UNCHANGED <<request[u], missing[u], local[u]>>
  BY <1>3 DEF IInv, FlightsApart
<1> QED BY <1>1, <1>2, <1>3, FlyingStep

\* Whoever waits has begun to wait in this step, or waits for the same roots.
LEMMA WaitingStep ==
    ASSUME IInv, [Next]_vars, NEW w \in Threads, pc'[w] = "Waiting"
    PROVE  \/ pc[w] = "Waiting" /\ missing'[w] = missing[w]
           \/ Wait(w)
<1> USE DEF IInv, ThreadShape
<1>1. CASE UNCHANGED vars
  BY <1>1 DEF vars
<1>2. ASSUME NEW t \in Threads, NEW R \in Requests, Call(t, R)
      PROVE  pc[w] = "Waiting" /\ missing'[w] = missing[w]
  BY <1>2 DEF Call
<1>3. ASSUME NEW t \in Threads, ServeCached(t) \/ ServeCombined(t)
      PROVE  pc[w] = "Waiting" /\ missing'[w] = missing[w]
  BY <1>3 DEF ServeCached, ServeCombined, Return, Forget
<1>4. ASSUME NEW t \in Threads, SpuriousWakeup(t) \/ Panic(t) \/ TakeOff(t)
      PROVE  pc[w] = "Waiting" /\ missing'[w] = missing[w]
  BY <1>4 DEF SpuriousWakeup, Panic, TakeOff, call
<1>5. ASSUME NEW t \in Threads, Wait(t), t # w
      PROVE  pc[w] = "Waiting" /\ missing'[w] = missing[w]
  BY <1>5 DEF Wait
<1>6. ASSUME NEW t \in Threads, Land(t) PROVE FALSE
  BY <1>6, LandFacts
<1> QED BY <1>1, <1>2, <1>3, <1>4, <1>5, <1>6 DEF Next, Look

\* Every waiting thread has a flight to wait for.
LEMMA WaitStep ==
    ASSUME IInv, [Next]_vars PROVE WaitersHaveFlight'
<1> SUFFICES ASSUME NEW w \in Threads, pc'[w] = "Waiting"
             PROVE  \E u \in Threads : Flying(u)' /\ missing'[u] \cap missing'[w] # {}
  BY DEF WaitersHaveFlight
<1>1. CASE Wait(w)
  <2>1. missing'[w] = Missing(request[w]) /\ OverlapsFlight(Missing(request[w]))
    BY <1>1 DEF Wait, IInv, ThreadShape
  <2>2. PICK u \in Threads : Flying(u) /\ missing[u] \cap missing'[w] # {}
    BY <2>1 DEF OverlapsFlight, IInv, FlightsApart
  <2>3. Flying(u)' /\ missing'[u] = missing[u]
    BY <1>1, <2>2 DEF Wait, Flying, IInv, ThreadShape
  <2> QED BY <2>2, <2>3
<1>2. CASE pc[w] = "Waiting" /\ missing'[w] = missing[w]
  <2>1. PICK u \in Threads : Flying(u) /\ missing[u] \cap missing[w] # {}
    BY <1>2 DEF IInv, WaitersHaveFlight
  <2>2. ASSUME NEW t \in Threads, TakeOff(t) PROVE Flying(u)' /\ missing'[u] = missing[u]
    BY <2>1, <2>2, TakeOffFacts
  <2>3. ASSUME NEW t \in Threads, Land(t) PROVE FALSE
    BY <2>3, LandFacts
  <2>4. Flying(u)' /\ missing'[u] = missing[u]
    BY <2>1, <2>2, <2>3, FlyingStep
  <2> QED BY <1>2, <2>1, <2>4
<1> QED BY <1>1, <1>2, WaitingStep

\* A call that returns a snapshot was served, or landed.
LEMMA SnapshotStep ==
    ASSUME IInv, [Next]_vars, NEW t \in Threads, Returns(t)
    PROVE  /\ request[t] \subseteq DOMAIN answer'[t].roots
           /\ \A k \in DOMAIN batches' : Compatible(batches'[k].roots, answer'[t].roots)
<1> USE DEF IInv, ThreadShape, Returns
<1>1. ~ UNCHANGED vars
  BY DEF vars
<1>2. ASSUME NEW u \in Threads, NEW R \in Requests, Call(u, R) PROVE FALSE
  BY <1>2 DEF Call
<1>3. ASSUME NEW u \in Threads, TakeOff(u) \/ Wait(u) \/ SpuriousWakeup(u) \/ Panic(u)
      PROVE  FALSE
  BY <1>3 DEF TakeOff, Wait, SpuriousWakeup, Panic
<1>4. ASSUME NEW u \in Threads, ServeCached(u) \/ ServeCombined(u) PROVE u = t
  BY <1>4 DEF ServeCached, ServeCombined, Return
<1>5. ASSUME NEW u \in Threads, Land(u) PROVE u = t
  BY <1>5 DEF Land, Notified
<1> QED BY <1>1, <1>2, <1>3, <1>4, <1>5, Served, Combined, Landed DEF Next, Look

-----------------------------------------------------------------------------
(* Theorems *)

\* The invariant is inductive.
THEOREM Inductive == Spec => []IInv
<1>1. Init => IInv
  BY DEF Init, IInv, ThreadShape, CacheShape, PlansTheRest, FlightsApart, WaitersHaveFlight,
         CacheCoherent, Flying, Control
<1>2. IInv /\ [Next]_vars => IInv'
  BY ThreadStep, CacheStep, PlansStep, FlightStep, WaitStep DEF IInv
<1> QED BY <1>1, <1>2, PTL DEF Spec

\* No root is planned by two threads at a time, and a landing removes only the
\* flight of the thread that lands (prepare_local).
THEOREM PlannedOnceAtATime == Spec => []FlightsApart
<1>1. IInv => FlightsApart
  BY DEF IInv
<1> QED BY <1>1, Inductive, PTL

\* Whoever waits on `ready` waits for a flight that has not landed, so that its
\* landing will notify it (prepare_local).
THEOREM NoLostWakeup == Spec => []WaitersHaveFlight
<1>1. IInv => WaitersHaveFlight
  BY DEF IInv
<1> QED BY <1>1, Inductive, PTL

\* Cached batches never contradict each other, whatever the planner returns
\* (ensure_compatible, merge, reusable_roots).
THEOREM OnePlanPerRoot == Spec => []CacheCoherent
<1>1. IInv => CacheCoherent
  BY DEF IInv
<1> QED BY <1>1, Inductive, PTL

\* A snapshot returned by prepare_local has a plan of every requested root and
\* contradicts no batch.
THEOREM SnapshotsAreComplete == Spec => SnapshotsComplete
<1>1. IInv /\ [Next]_vars =>
        [\A t \in Threads : Returns(t) =>
            /\ request[t] \subseteq DOMAIN answer'[t].roots
            /\ \A k \in DOMAIN batches' :
                    Compatible(batches'[k].roots, answer'[t].roots)]_vars
  BY SnapshotStep
<1> QED BY <1>1, Inductive, PTL DEF Spec, SnapshotsComplete

-----------------------------------------------------------------------------
(* What is stored, and when *)

\* Threads in a call.  Each step that moves the clock ends one of the calls.
Busy == {t \in Threads : pc[t] # "Idle"}

ClockEarned ==
    /\ IsFiniteSet(Busy)
    /\ clock + Cardinality(Busy) <= calls

\* The bytes noted for a batch are those of its roots, and a call has roots.
BytesNoted == \A k \in DOMAIN batches : batches[k].bytes = Bytes(batches[k].roots)

CallsHaveRoots == \A t \in Busy : request[t] # {}

Accounts == TypeOK /\ ClockEarned /\ BytesNoted /\ CallsHaveRoots /\ CacheWithinLimits

\* The sum over a function is that of any weights it agrees with.
LEMMA TotalIsSum ==
    ASSUME NEW w, NEW S, IsFiniteSet(S), NEW f, DOMAIN f = S, \A k \in S : f[k] = w[k]
    PROVE  Total(f) = SumFunctionOnSet(w, S)
<1>1. Total(f) = SumFunctionOnSet(f, S)
  BY DEF Total, SumFunctionOnSet, FoldFunction
<1> QED BY <1>1, SumCongruent

\* There are finitely many sets of roots, and their bytes are naturals.
LEMMA RootsFinite ==
    /\ \A S \in SUBSET SUBSET Roots : IsFiniteSet(S)
    /\ \A c \in Caches : IsFiniteSet(DOMAIN c) /\ Bytes(c) \in Nat
<1>1. IsFiniteSet(SUBSET Roots)
  BY RootsAreFinite, FS_SUBSET
<1>2. ASSUME NEW S \in SUBSET SUBSET Roots PROVE IsFiniteSet(S)
  BY <1>1, FS_Subset
<1>3. ASSUME NEW c \in Caches PROVE IsFiniteSet(DOMAIN c) /\ Bytes(c) \in Nat
  <2>1. DOMAIN c \in SUBSET Roots /\ IsFiniteSet(DOMAIN c)
    BY RootsAreFinite, FS_Subset DEF Caches
  <2> DEFINE f == [r \in DOMAIN c |-> RootBytes[r]]
  <2>2. Bytes(c) = SumFunctionOnSet(RootBytes, DOMAIN c)
    <3>1. DOMAIN f = DOMAIN c /\ \A r \in DOMAIN c : f[r] = RootBytes[r]
      OBVIOUS
    <3>2. Bytes(c) = Total(f)
      BY DEF Bytes
    <3> HIDE DEF f
    <3> QED BY <2>1, <3>1, <3>2, TotalIsSum
  <2> QED BY <2>1, <2>2, RootsAreWeighed, SumIsNatural
<1> QED BY <1>2, <1>3

\* The counter and the batches before anything is evicted: the bytes of a batch
\* that is replaced are given back.
LEMMA CounterIsSum ==
    ASSUME TypeOK, BytesNoted, CacheWithinLimits, NEW R \in RootSets, NEW c \in Caches
    PROVE  /\ DOMAIN BatchesWith(R, c) = DOMAIN batches \cup {R}
           /\ IsFiniteSet(DOMAIN BatchesWith(R, c))
           /\ \A k \in DOMAIN BatchesWith(R, c) : BatchesWith(R, c)[k].bytes \in Nat
           /\ CounterWith(R, c) = SumFunctionOnSet(
                [k \in DOMAIN BatchesWith(R, c) |-> BatchesWith(R, c)[k].bytes],
                DOMAIN BatchesWith(R, c))
<1> DEFINE all == BatchesWith(R, c)
           D == DOMAIN batches
           w == [k \in DOMAIN all |-> all[k].bytes]
           v == [k \in D |-> batches[k].bytes]
<1>1. DOMAIN all = D \cup {R} /\ D \in SUBSET RootSets
  BY DEF BatchesWith, TypeOK
<1>2. IsFiniteSet(DOMAIN all) /\ IsFiniteSet(D)
  BY <1>1, RootsFinite DEF RootSets
<1>3. \A k \in D : batches[k].bytes \in Nat
  BY DEF TypeOK, Batch
<1>4. Bytes(c) \in Nat
  BY RootsFinite
<1>5. /\ \A k \in DOMAIN all : all[k].bytes = IF k = R THEN Bytes(c) ELSE batches[k].bytes
      /\ \A k \in DOMAIN all : all[k].bytes \in Nat
  <2>1. \A k \in DOMAIN all : all[k].bytes = IF k = R THEN Bytes(c) ELSE batches[k].bytes
    BY <1>1 DEF BatchesWith
  <2> QED BY <1>1, <1>3, <1>4, <2>1
<1>6. /\ \A k \in DOMAIN all : w[k] \in Nat
      /\ w[R] = Bytes(c)
      /\ \A k \in D \ {R} : w[k] = v[k]
      /\ \A k \in D : v[k] = batches[k].bytes /\ v[k] \in Nat
  BY <1>1, <1>3, <1>5
<1>7. estimatedBytes = SumFunctionOnSet(v, D)
  <2> DEFINE f == [k \in D |-> Bytes(batches[k].roots)]
  <2>1. DOMAIN f = D /\ \A k \in D : f[k] = v[k]
    BY DEF BytesNoted
  <2>2. estimatedBytes = Total(f)
    BY DEF CacheWithinLimits
  <2> HIDE DEF f, v, D
  <2> QED BY <1>2, <2>1, <2>2, TotalIsSum
<1>8. CounterWith(R, c) = SumFunctionOnSet(w, DOMAIN all)
  <2> DEFINE rest == D \ {R}
  <2> HIDE DEF all, w, v, D
  <2>1. DOMAIN all \ {R} = rest /\ IsFiniteSet(rest)
    BY <1>1, <1>2, FS_RemoveElement
  <2>2. SumFunctionOnSet(w, DOMAIN all) = w[R] + SumFunctionOnSet(w, rest)
    <3>1. SumFunctionOnSet(w, DOMAIN all) = w[R] + SumFunctionOnSet(w, DOMAIN all \ {R})
      BY <1>1, <1>2, <1>6, SumTakesOut
    <3> HIDE DEF rest
    <3> QED BY <2>1, <3>1, Zenon
  <2>3. SumFunctionOnSet(w, rest) = SumFunctionOnSet(v, rest)
    BY <1>6, <2>1, SumCongruent
  <2>4. SumFunctionOnSet(v, rest) \in Nat
    BY <1>6, <2>1, SumIsNatural
  <2>5. CASE R \in D
    <3>1. SumFunctionOnSet(v, D) = v[R] + SumFunctionOnSet(v, rest)
      BY <1>2, <1>6, <2>5, SumTakesOut
    <3>2. CounterWith(R, c) = estimatedBytes - v[R] + w[R] /\ v[R] \in Nat
      BY <1>6, <2>5 DEF CounterWith, D
    <3> HIDE DEF rest
    <3> QED BY <1>4, <1>6, <1>7, <2>2, <2>3, <2>4, <3>1, <3>2
  <2>6. CASE R \notin D
    <3>1. rest = D
      BY <2>6
    <3>2. CounterWith(R, c) = estimatedBytes - 0 + w[R]
      BY <1>6, <2>6 DEF CounterWith, D
    <3>3. SumFunctionOnSet(v, rest) = SumFunctionOnSet(v, D)
      <4> HIDE DEF rest
      <4> QED BY <3>1, Zenon
    <3> HIDE DEF rest
    <3> QED BY <1>4, <1>6, <1>7, <2>2, <2>3, <2>4, <3>2, <3>3
  <2> QED BY <2>5, <2>6
<1> QED BY <1>1, <1>2, <1>5, <1>8

\* What is kept fits, and the counter is its sum.
LEMMA KeptFits ==
    ASSUME TypeOK, BytesNoted, CacheWithinLimits, CacheShape,
           NEW R \in RootSets, NEW c \in Caches
    PROVE  /\ Kept(R, c) \subseteq DOMAIN BatchesWith(R, c)
           /\ Cardinality(Kept(R, c)) <= MaxEntries
           /\ LET w == [k \in DOMAIN BatchesWith(R, c) |-> BatchesWith(R, c)[k].bytes]
                  gone == DOMAIN BatchesWith(R, c) \ Kept(R, c)
              IN  /\ CounterWith(R, c) - Total([k \in gone |-> BatchesWith(R, c)[k].bytes])
                        = SumFunctionOnSet(w, Kept(R, c))
                  /\ SumFunctionOnSet(w, Kept(R, c)) \in 0 .. MaxBytes
<1> DEFINE all == BatchesWith(R, c)
           K == Kept(R, c)
           w == [k \in DOMAIN all |-> all[k].bytes]
           sum(S) == SumFunctionOnSet(w, S)
           newer(k) == {j \in DOMAIN all : all[j].lastUsed >= all[k].lastUsed}
<1>1. /\ DOMAIN all = DOMAIN batches \cup {R}
      /\ IsFiniteSet(DOMAIN all)
      /\ \A k \in DOMAIN all : all[k].bytes \in Nat
      /\ CounterWith(R, c) = sum(DOMAIN all)
  BY CounterIsSum
<1>2. /\ \A k \in DOMAIN all : w[k] = all[k].bytes
      /\ \A k \in DOMAIN all : w[k] \in Nat
  BY <1>1
<1>3. \A S \in SUBSET DOMAIN all :
        /\ IsFiniteSet(S) /\ sum(S) \in Nat
        /\ CounterWith(R, c) - Total([k \in DOMAIN all \ S |-> all[k].bytes]) = sum(S)
  <2>1. SUFFICES ASSUME NEW S \in SUBSET DOMAIN all
                 PROVE  /\ IsFiniteSet(S) /\ sum(S) \in Nat
                        /\ CounterWith(R, c) - Total([k \in DOMAIN all \ S |-> all[k].bytes]) = sum(S)
    OBVIOUS
  <2> DEFINE gone == DOMAIN all \ S
             f == [k \in gone |-> all[k].bytes]
  <2>2. IsFiniteSet(S) /\ IsFiniteSet(gone) /\ gone \in SUBSET DOMAIN all
    BY <1>1, FS_Subset
  <2>3. DOMAIN f = gone /\ \A k \in gone : f[k] = w[k]
    BY <1>2
  <2>4. sum(DOMAIN all) = sum(S) + sum(gone)
    <3> HIDE DEF w, all
    <3> QED BY <1>1, <1>2, SumSplits
  <2> HIDE DEF gone
  <2>5. sum(S) \in Nat /\ sum(gone) \in Nat
    <3> HIDE DEF w, all
    <3> QED BY <1>2, <2>2, SumIsNatural
  <2>6. Total(f) = sum(gone)
    <3> HIDE DEF w, all, f
    <3> QED BY <2>2, <2>3, TotalIsSum
  <2>7. CounterWith(R, c) - Total(f) = sum(S)
    <3> HIDE DEF sum, f
    <3> QED BY <1>1, <2>4, <2>5, <2>6
  <2> QED BY <2>2, <2>5, <2>7 DEF gone
<1>4. /\ K \subseteq DOMAIN all
      /\ \A k \in K : /\ Cardinality(newer(k)) <= MaxEntries
                      /\ CounterWith(R, c)
                            - Total([j \in DOMAIN all \ newer(k) |-> all[j].bytes]) <= MaxBytes
  BY DEF Kept
<1>5. \A k \in DOMAIN all : all[k].lastUsed \in Nat
  <2>1. \A k \in DOMAIN all : k # R => all[k] = batches[k] /\ k \in DOMAIN batches
    BY <1>1 DEF BatchesWith
  <2>2. all[R].lastUsed = clock + 1
    BY DEF BatchesWith
  <2> QED BY <2>1, <2>2 DEF CacheShape
<1>6. CASE K = {}
  <2>1. sum({}) = 0 /\ Cardinality({}) = 0
    BY SumEmpty, FS_EmptySet
  <2>2. sum(K) = 0 /\ Cardinality(K) = 0
    BY <1>6, <2>1
  <2>3. sum(K) \in 0 .. MaxBytes /\ Cardinality(K) <= MaxEntries
    <3> HIDE DEF sum, K
    <3> QED BY <2>2, LimitsAreNaturals
  <2> QED BY <1>3, <1>4, <2>3
<1>7. CASE K # {}
  <2> DEFINE ages == {all[k].lastUsed : k \in K}
  <2>1. ages \subseteq Nat /\ ages # {}
    BY <1>4, <1>5, <1>7
  <2>2. PICK a \in ages : \A b \in ages : a <= b
    <3> HIDE DEF ages
    <3> QED BY <2>1, LeastNatural
  <2>3. PICK k \in K : a = all[k].lastUsed
    OBVIOUS
  <2>4. K \in SUBSET newer(k) /\ newer(k) \in SUBSET DOMAIN all
    <3>1. ASSUME NEW j \in K PROVE j \in newer(k)
      <4>1. all[j].lastUsed \in ages
        OBVIOUS
      <4>2. a <= all[j].lastUsed
        BY <2>2, <4>1
      <4> QED BY <1>4, <1>5, <2>3, <4>2
    <3> QED BY <3>1
  <2>5. Cardinality(K) <= MaxEntries
    <3>1. IsFiniteSet(newer(k)) /\ Cardinality(newer(k)) <= MaxEntries
      BY <1>3, <1>4, <2>4
    <3> HIDE DEF newer, K
    <3>2. Cardinality(K) <= Cardinality(newer(k)) /\ IsFiniteSet(K)
      BY <2>4, <3>1, FS_Subset
    <3> QED BY <3>1, <3>2, FS_CardinalityType, LimitsAreNaturals
  <2>6. sum(K) <= sum(newer(k))
    <3>1. IsFiniteSet(newer(k)) /\ \A j \in newer(k) : w[j] \in Nat
      BY <1>2, <1>3, <2>4
    <3> HIDE DEF newer, K, w
    <3> QED BY <2>4, <3>1, SumMonotone
  <2>7. sum(newer(k)) <= MaxBytes /\ sum(newer(k)) \in Nat /\ sum(K) \in Nat
    <3>1. CounterWith(R, c) - Total([j \in DOMAIN all \ newer(k) |-> all[j].bytes]) = sum(newer(k))
      BY <1>3, <2>4
    <3> QED BY <1>3, <1>4, <2>3, <2>4, <3>1
  <2>8. sum(K) \in 0 .. MaxBytes
    <3> HIDE DEF sum, K, newer
    <3> QED BY <2>6, <2>7, LimitsAreNaturals
  <2> QED BY <1>3, <1>4, <2>5, <2>8
<1> QED BY <1>6, <1>7

\* What makes a cache.
LEMMA CacheIs ==
    ASSUME NEW S \in SUBSET Roots, NEW c \in [S -> Plans] PROVE c \in Caches
BY DEF Caches

LEMMA CacheHas ==
    ASSUME NEW c \in Caches
    PROVE  /\ DOMAIN c \in SUBSET Roots
           /\ c \in [DOMAIN c -> Plans]
BY DEF Caches

\* Storing keeps all accounts.
LEMMA StoreAccounts ==
    ASSUME TypeOK, BytesNoted, CacheWithinLimits, CacheShape,
           NEW R \in RootSets, NEW c \in Caches, Store(R, c)
    PROVE  /\ DOMAIN batches' \subseteq RootSets
           /\ \A k \in DOMAIN batches' : /\ batches'[k].roots \in Caches
                                         /\ batches'[k].bytes = Bytes(batches'[k].roots)
           /\ estimatedBytes' \in Nat
           /\ CacheWithinLimits'
           /\ clock' \in {clock, clock + 1}
<1>1. CASE Bytes(c) > MaxBytes
  <2>1. UNCHANGED <<batches, estimatedBytes, clock>>
    BY <1>1 DEF Store, cacheState
  <2>2. \A k \in DOMAIN batches : batches[k].roots \in Caches
    BY DEF TypeOK, Batch
  <2>3. CacheWithinLimits'
    BY <2>1 DEF CacheWithinLimits
  <2> QED BY <2>1, <2>2, <2>3 DEF TypeOK, BytesNoted
<1>2. CASE ~ (Bytes(c) > MaxBytes)
  <2> DEFINE all == BatchesWith(R, c)
             K == Kept(R, c)
             w == [k \in DOMAIN all |-> all[k].bytes]
             gone == DOMAIN all \ K
  <2>1. /\ clock' = clock + 1
        /\ batches' = [k \in K |-> all[k]]
        /\ estimatedBytes' = CounterWith(R, c) - Total([k \in gone |-> all[k].bytes])
    BY <1>2 DEF Store
  <2>2. /\ K \subseteq DOMAIN all
        /\ Cardinality(K) <= MaxEntries
        /\ estimatedBytes' = SumFunctionOnSet(w, K)
        /\ SumFunctionOnSet(w, K) \in 0 .. MaxBytes
    BY <2>1, KeptFits
  <2>3. DOMAIN batches' = K /\ \A k \in K : batches'[k] = all[k]
    BY <2>1
  <2>4. /\ DOMAIN all = DOMAIN batches \cup {R}
        /\ IsFiniteSet(DOMAIN all)
    BY CounterIsSum
  <2>5. ASSUME NEW k \in DOMAIN all
        PROVE  /\ k \in RootSets
               /\ all[k].roots \in Caches
               /\ all[k].bytes = Bytes(all[k].roots)
    <3>1. CASE k = R
      BY <3>1 DEF BatchesWith
    <3>2. CASE k # R
      <4>1. k \in DOMAIN batches /\ all[k] = batches[k]
        BY <2>4, <3>2 DEF BatchesWith
      <4> QED BY <4>1 DEF TypeOK, Batch, BytesNoted
    <3> QED BY <3>1, <3>2
  <2>6. estimatedBytes' = Total([k \in K |-> Bytes(batches'[k].roots)])
    <3> DEFINE f == [k \in K |-> Bytes(batches'[k].roots)]
    <3>1. DOMAIN f = K /\ \A k \in K : f[k] = w[k]
      BY <2>2, <2>3, <2>5
    <3>2. IsFiniteSet(K)
      BY <2>2, <2>4, FS_Subset
    <3>3. Total(f) = SumFunctionOnSet(w, K)
      <4> HIDE DEF f, w, K
      <4> QED BY <3>1, <3>2, TotalIsSum
    <3> QED BY <2>2, <3>3
  <2>7. estimatedBytes' \in Nat /\ estimatedBytes' <= MaxBytes
    <3> HIDE DEF w, K
    <3> QED BY <2>2, LimitsAreNaturals
  <2>8. CacheWithinLimits'
    <3>1. Cardinality(DOMAIN batches') <= MaxEntries
      BY <2>2, <2>3, Zenon
    <3>2. [k \in DOMAIN batches' |-> Bytes(batches'[k].roots)] = [k \in K |-> Bytes(batches'[k].roots)]
      BY <2>3
    <3>3. estimatedBytes' = Total([k \in DOMAIN batches' |-> Bytes(batches'[k].roots)])
      BY <2>6, <3>2, Zenon
    <3> QED BY <2>7, <3>1, <3>3, Zenon DEF CacheWithinLimits
  <2> HIDE DEF all, K
  <2> QED BY <2>1, <2>2, <2>3, <2>5, <2>7, <2>8
<1> QED BY <1>1, <1>2

\* Every call has room in the clock for one tick.
LEMMA ClockStep ==
    ASSUME Accounts, IInv, [Next]_vars
    PROVE  ClockEarned' /\ calls' \in 0 .. MaxCalls
<1>1. /\ IsFiniteSet(Busy) /\ Cardinality(Busy) \in Nat /\ clock \in Nat /\ calls \in 0 .. MaxCalls
      /\ clock + Cardinality(Busy) <= calls
      /\ pc \in [Threads -> Control]
  BY FS_CardinalityType DEF Accounts, ClockEarned, TypeOK
<1>2. CASE Busy' = Busy /\ clock' = clock /\ calls' = calls
  BY <1>1, <1>2 DEF ClockEarned
<1>3. ASSUME NEW t \in Threads, NEW R \in Requests, Call(t, R)
      PROVE  ClockEarned' /\ calls' \in 0 .. MaxCalls
  <2>1. t \notin Busy /\ Busy' = Busy \cup {t}
    BY <1>1, <1>3 DEF Call, Busy
  <2>2. IsFiniteSet(Busy') /\ Cardinality(Busy') = Cardinality(Busy) + 1
    BY <1>1, <2>1, FS_AddElement
  <2>3. clock' = clock /\ calls' = calls + 1 /\ calls < MaxCalls
    BY <1>3 DEF Call, cacheState
  <2> QED BY <1>1, <2>2, <2>3, LimitsAreNaturals DEF ClockEarned
<1>4. ASSUME NEW t \in Busy, Busy' = Busy \ {t}, clock' \in {clock, clock + 1}, calls' = calls
      PROVE  ClockEarned' /\ calls' \in 0 .. MaxCalls
  <2>1. IsFiniteSet(Busy') /\ Cardinality(Busy') = Cardinality(Busy) - 1
    BY <1>1, <1>4, FS_RemoveElement
  <2> QED BY <1>1, <1>4, <2>1 DEF ClockEarned
<1>5. ASSUME NEW t \in Threads, TakeOff(t) \/ Wait(t) \/ SpuriousWakeup(t) \/ Panic(t)
      PROVE  Busy' = Busy /\ clock' = clock /\ calls' = calls
  BY <1>1, <1>5 DEF TakeOff, Wait, SpuriousWakeup, Panic, cacheState, Busy
<1>6. ASSUME NEW R, NEW c, Store(R, c) PROVE clock' \in {clock, clock + 1}
  BY <1>6 DEF Store, cacheState
<1>7. ASSUME NEW t \in Threads, ServeCached(t) \/ ServeCombined(t)
      PROVE  t \in Busy /\ Busy' = Busy \ {t} /\ clock' \in {clock, clock + 1} /\ calls' = calls
  <2>1. t \in Busy /\ Busy' = Busy \ {t} /\ calls' = calls
    BY <1>1, <1>7 DEF ServeCached, ServeCombined, Return, Busy
  <2>2. clock' \in {clock, clock + 1}
    BY <1>6, <1>7 DEF ServeCached, ServeCombined, cacheState
  <2> QED BY <2>1, <2>2
<1>8. ASSUME NEW t \in Threads, Land(t)
      PROVE  t \in Busy /\ Busy' = Busy \ {t} /\ clock' \in {clock, clock + 1} /\ calls' = calls
  <2>1. t \in Busy /\ Busy' = Busy \ {t} /\ calls' = calls
    BY <1>1, <1>8 DEF Land, Notified, Busy
  <2>2. clock' \in {clock, clock + 1}
    BY <1>6, <1>8 DEF Land, cacheState
  <2> QED BY <2>1, <2>2
<1>9. CASE UNCHANGED vars
  BY <1>2, <1>9 DEF vars, Busy
<1>10. CASE \E t \in Threads : ServeCached(t) \/ ServeCombined(t) \/ Land(t)
  BY <1>4, <1>7, <1>8, <1>10
<1> QED BY <1>2, <1>3, <1>5, <1>9, <1>10 DEF Next, Look

\* What a thread takes from the cache, or gets from the planner, is a cache.
LEMMA CachesTyped ==
    ASSUME Accounts, IInv, NEW t \in Threads
    PROVE  /\ EmptyCache \in Caches
           /\ Reusable(request[t]) \in Caches
           /\ \A staged \in Staged(missing[t]) : Merged(local[t], staged) \in Caches
<1>1. /\ request[t] \in SUBSET Roots /\ missing[t] \in SUBSET Roots /\ local[t] \in Caches
      /\ \A k \in DOMAIN batches : batches[k].roots \in Caches
  BY DEF Accounts, TypeOK, Batch
<1>2. EmptyCache \in Caches
  <2>1. EmptyCache \in [{} -> Plans]
    BY DEF EmptyCache
  <2> QED BY <2>1, CacheIs
<1>3. Reusable(request[t]) \in Caches
  <2> DEFINE S == {r \in request[t] : Holding(r) # {}}
  <2>1. ASSUME NEW r \in S PROVE batches[Latest(r)].roots[r] \in Plans
    <3>1. Latest(r) \in DOMAIN batches /\ r \in DOMAIN batches[Latest(r)].roots
      BY LatestExists DEF Holding, IInv
    <3> QED BY <1>1, <3>1, CacheHas
  <2>2. Reusable(request[t]) \in [S -> Plans]
    BY <2>1 DEF Reusable
  <2>3. S \in SUBSET Roots
    BY <1>1
  <2> HIDE DEF S
  <2> QED BY <2>2, <2>3, CacheIs
<1>4. ASSUME NEW staged \in Staged(missing[t]) PROVE Merged(local[t], staged) \in Caches
  <2>1. PICK X \in SUBSET UNION {Depends[r] : r \in missing[t]} :
            staged \in [missing[t] \cup X -> Plans]
    BY DEF Staged
  <2>2. missing[t] \cup X \in SUBSET Roots
    BY <1>1, RootsAreWeighed
  <2>3. DOMAIN local[t] \in SUBSET Roots /\ local[t] \in [DOMAIN local[t] -> Plans]
    BY <1>1, CacheHas
  <2>4. DOMAIN staged \in SUBSET Roots /\ staged \in [DOMAIN staged -> Plans]
    BY <2>1, <2>2
  <2>5. Merged(local[t], staged) \in [DOMAIN local[t] \cup DOMAIN staged -> Plans]
    BY <2>3, <2>4 DEF Merged
  <2>6. DOMAIN local[t] \cup DOMAIN staged \in SUBSET Roots
    BY <2>3, <2>4
  <2> QED BY <2>5, <2>6, CacheIs
<1> QED BY <1>2, <1>3, <1>4

\* The variables of the threads stay in their types.
LEMMA ThreadTypesStep ==
    ASSUME Accounts, IInv, IInv', [Next]_vars
    PROVE  /\ pc' \in [Threads -> Control]
           /\ request' \in [Threads -> SUBSET Roots]
           /\ missing' \in [Threads -> SUBSET Roots]
           /\ local' \in [Threads -> Caches]
           /\ answer' \in [Threads -> [ok : BOOLEAN, roots : Caches]]
           /\ flights' \subseteq RootSets
           /\ CallsHaveRoots'
<1>1. /\ pc' \in [Threads -> Control]
      /\ request' \in [Threads -> SUBSET Roots]
      /\ missing' \in [Threads -> SUBSET Roots]
  BY DEF IInv, ThreadShape
<1>2. flights' \subseteq RootSets
  BY <1>1 DEF IInv, FlightsApart, PlansTheRest, RootSets
<1>3. /\ local \in [Threads -> Caches]
      /\ answer \in [Threads -> [ok : BOOLEAN, roots : Caches]]
      /\ pc \in [Threads -> Control] /\ request \in [Threads -> SUBSET Roots]
      /\ CallsHaveRoots
  BY DEF Accounts, TypeOK
<1>4. ASSUME NEW c \in Caches
      PROVE  Found(c) \in [ok : BOOLEAN, roots : Caches] /\ Failed \in [ok : BOOLEAN, roots : Caches]
  <2>1. EmptyCache \in Caches
    <3>1. EmptyCache \in [{} -> Plans]
      BY DEF EmptyCache
    <3> QED BY <3>1, CacheIs
  <2> QED BY <2>1 DEF Found, Failed
<1>5. CASE UNCHANGED vars
  BY <1>1, <1>2, <1>3, <1>5 DEF vars, CallsHaveRoots, Busy
<1> SUFFICES ASSUME NEW t \in Threads,
                    (\E R \in Requests : Call(t, R)) \/ Look(t) \/ SpuriousWakeup(t)
                        \/ Land(t) \/ Panic(t)
             PROVE  /\ local' \in [Threads -> Caches]
                    /\ answer' \in [Threads -> [ok : BOOLEAN, roots : Caches]]
                    /\ CallsHaveRoots'
  BY <1>1, <1>2, <1>5 DEF Next
<1>6. /\ EmptyCache \in Caches
      /\ Reusable(request[t]) \in Caches
      /\ \A staged \in Staged(missing[t]) : Merged(local[t], staged) \in Caches
  BY CachesTyped
<1>7. Failed \in [ok : BOOLEAN, roots : Caches]
  BY <1>4, <1>6
<1>8. ASSUME NEW R \in Requests, Call(t, R)
      PROVE  /\ local' \in [Threads -> Caches]
             /\ answer' \in [Threads -> [ok : BOOLEAN, roots : Caches]]
             /\ CallsHaveRoots'
  BY <1>3, <1>7, <1>8, RequestsAreOfRoots DEF Call, CallsHaveRoots, Busy
<1>9. ASSUME Forget(t), NEW a \in [ok : BOOLEAN, roots : Caches], answer' = [answer EXCEPT ![t] = a],
             \A u \in Threads : pc'[u] # "Idle" <=> pc[u] # "Idle" /\ u # t
      PROVE  /\ local' \in [Threads -> Caches]
             /\ answer' \in [Threads -> [ok : BOOLEAN, roots : Caches]]
             /\ CallsHaveRoots'
  BY <1>3, <1>6, <1>9 DEF Forget, CallsHaveRoots, Busy
<1>10. CASE ServeCached(t)
  <2>1. PICK k \in Answering(request[t]) : Return(t, Found(batches[k].roots))
    BY <1>10 DEF ServeCached
  <2>2. Found(batches[k].roots) \in [ok : BOOLEAN, roots : Caches]
    <3>1. k \in DOMAIN batches
      BY DEF Answering
    <3> QED BY <1>4, <3>1 DEF Accounts, TypeOK, Batch
  <2> QED BY <1>3, <1>9, <2>1, <2>2 DEF Return
<1>11. CASE ServeCombined(t)
  <2>1. \E a \in [ok : BOOLEAN, roots : Caches] : Return(t, a)
    BY <1>4, <1>6, <1>7, <1>11 DEF ServeCombined
  <2> QED BY <1>3, <1>9, <2>1 DEF Return
<1>12. CASE TakeOff(t)
  BY <1>3, <1>6, <1>12 DEF TakeOff, CallsHaveRoots, Busy
<1>13. CASE Wait(t) \/ SpuriousWakeup(t) \/ Panic(t)
  BY <1>3, <1>13 DEF Wait, SpuriousWakeup, Panic, call, CallsHaveRoots, Busy
<1>14. CASE Land(t)
  <2>1. Forget(t) /\ \A u \in Threads : pc'[u] # "Idle" <=> pc[u] # "Idle" /\ u # t
    BY <1>3, <1>14 DEF Land, Notified
  <2>2. \E a \in [ok : BOOLEAN, roots : Caches] : answer' = [answer EXCEPT ![t] = a]
    BY <1>4, <1>6, <1>7, <1>14 DEF Land
  <2> QED BY <1>9, <2>1, <2>2
<1> QED BY <1>8, <1>10, <1>11, <1>12, <1>13, <1>14 DEF Look

\* The cache stays in its types and within its limits.
LEMMA LimitsStep ==
    ASSUME Accounts, IInv, [Next]_vars
    PROVE  /\ DOMAIN batches' \subseteq RootSets
           /\ \A k \in DOMAIN batches' : batches'[k].roots \in Caches
           /\ estimatedBytes' \in Nat
           /\ BytesNoted' /\ CacheWithinLimits'
<1> DEFINE Goal == /\ DOMAIN batches' \subseteq RootSets
                   /\ \A k \in DOMAIN batches' : batches'[k].roots \in Caches
                   /\ estimatedBytes' \in Nat
                   /\ BytesNoted' /\ CacheWithinLimits'
<1>1. CASE batches' = batches /\ estimatedBytes' = estimatedBytes
  <2>1. BytesNoted' /\ CacheWithinLimits'
    BY <1>1 DEF Accounts, BytesNoted, CacheWithinLimits
  <2> QED BY <1>1, <2>1 DEF Accounts, TypeOK, Batch
<1>2. ASSUME NEW t \in Threads, NEW c \in Caches, t \in Busy, Store(request[t], c) PROVE Goal
  <2>1. request[t] \in RootSets
    BY <1>2 DEF Accounts, TypeOK, CallsHaveRoots, RootSets
  <2>2. /\ DOMAIN batches' \subseteq RootSets
        /\ \A k \in DOMAIN batches' : /\ batches'[k].roots \in Caches
                                      /\ batches'[k].bytes = Bytes(batches'[k].roots)
        /\ estimatedBytes' \in Nat
        /\ CacheWithinLimits'
    BY <1>2, <2>1, StoreAccounts DEF Accounts, IInv
  <2> QED BY <2>2, Zenon DEF BytesNoted
<1>3. ASSUME NEW t \in Threads, ServeCached(t) PROVE Goal
  <2>1. PICK k \in Answering(request[t]) : batches' = [batches EXCEPT ![k].lastUsed = clock + 1]
    BY <1>3 DEF ServeCached
  <2>2. k \in DOMAIN batches /\ estimatedBytes' = estimatedBytes
    BY <1>3 DEF Answering, ServeCached
  <2>3. /\ DOMAIN batches' = DOMAIN batches
        /\ \A j \in DOMAIN batches : /\ batches'[j].roots = batches[j].roots
                                     /\ batches'[j].bytes = batches[j].bytes
    BY <2>1, <2>2 DEF Accounts, TypeOK, Batch
  <2>4. BytesNoted'
    BY <2>3 DEF Accounts, BytesNoted
  <2>5. CacheWithinLimits'
    <3>1. [j \in DOMAIN batches' |-> Bytes(batches'[j].roots)] = [j \in DOMAIN batches |-> Bytes(batches[j].roots)]
      BY <2>3
    <3>2. Cardinality(DOMAIN batches') = Cardinality(DOMAIN batches)
      BY <2>3, Zenon
    <3>3. estimatedBytes' = Total([j \in DOMAIN batches' |-> Bytes(batches'[j].roots)])
      BY <2>2, <3>1, Zenon DEF Accounts, CacheWithinLimits
    <3>4. Cardinality(DOMAIN batches') <= MaxEntries /\ estimatedBytes' <= MaxBytes
      BY <2>2, <3>2 DEF Accounts, CacheWithinLimits
    <3> QED BY <3>3, <3>4 DEF CacheWithinLimits
  <2> QED BY <2>2, <2>3, <2>4, <2>5 DEF Accounts, TypeOK, Batch
<1>4. ASSUME NEW t \in Threads, ServeCombined(t) PROVE Goal
  <2>1. \/ Store(request[t], Reusable(request[t]))
        \/ batches' = batches /\ estimatedBytes' = estimatedBytes
    BY <1>4 DEF ServeCombined, cacheState
  <2>2. t \in Busy
    BY <1>4 DEF ServeCombined, Busy
  <2> QED BY <1>1, <1>2, <2>1, <2>2, CachesTyped
<1>5. ASSUME NEW t \in Threads, Land(t) PROVE Goal
  <2>1. \/ \E c \in Caches : Store(request[t], c)
        \/ batches' = batches /\ estimatedBytes' = estimatedBytes
    BY <1>5, CachesTyped DEF Land, cacheState
  <2>2. t \in Busy
    BY <1>5 DEF Land, Busy
  <2> QED BY <1>1, <1>2, <2>1, <2>2
<1>6. ASSUME NEW t \in Threads,
             (\E R \in Requests : Call(t, R)) \/ TakeOff(t) \/ Wait(t)
                \/ SpuriousWakeup(t) \/ Panic(t)
      PROVE  batches' = batches /\ estimatedBytes' = estimatedBytes
  BY <1>6 DEF Call, TakeOff, Wait, SpuriousWakeup, Panic, cacheState
<1>7. CASE UNCHANGED vars
  BY <1>1, <1>7 DEF vars
<1> HIDE DEF Goal
<1>8. Goal
  BY <1>1, <1>3, <1>4, <1>5, <1>6, <1>7 DEF Next, Look, Goal
<1> QED BY <1>8 DEF Goal

\* All accounts are kept.
LEMMA AccountsStep ==
    ASSUME Accounts, IInv, IInv', [Next]_vars PROVE Accounts'
<1>1. ClockEarned' /\ calls' \in 0 .. MaxCalls
  BY ClockStep
<1>2. clock' \in 0 .. MaxCalls
  <2>1. clock' \in Nat
    BY DEF IInv, CacheShape
  <2>2. Cardinality(Busy') \in Nat
    BY <1>1, FS_CardinalityType DEF ClockEarned
  <2> QED BY <1>1, <2>1, <2>2, LimitsAreNaturals DEF ClockEarned
<1>3. \A k \in DOMAIN batches' : batches'[k] \in Batch
  <2>1. SUFFICES ASSUME NEW k \in DOMAIN batches' PROVE batches'[k] \in Batch
    OBVIOUS
  <2>2. /\ batches'[k] = [roots |-> batches'[k].roots, bytes |-> batches'[k].bytes,
                          lastUsed |-> batches'[k].lastUsed]
        /\ batches'[k].lastUsed \in 0 .. clock'
    BY DEF IInv, CacheShape
  <2>3. batches'[k].roots \in Caches /\ batches'[k].bytes = Bytes(batches'[k].roots)
    BY LimitsStep, Zenon DEF BytesNoted
  <2>4. batches'[k].bytes \in Nat
    BY <2>3, RootsFinite
  <2>5. /\ batches'[k].roots \in Caches /\ batches'[k].bytes \in Nat
        /\ batches'[k].lastUsed \in 0 .. MaxCalls
    <3>1. batches'[k].lastUsed \in 0 .. MaxCalls
      <4> DEFINE l == batches'[k].lastUsed
                 m == clock'
      <4>1. l \in 0 .. m /\ m \in 0 .. MaxCalls
        BY <1>2, <2>2
      <4> HIDE DEF l, m
      <4>2. l \in 0 .. MaxCalls
        BY <4>1, LimitsAreNaturals
      <4> QED BY <4>2 DEF l
    <3> QED BY <2>3, <2>4, <3>1, Zenon
  <2>6. \A a \in Caches, b \in Nat, c \in 0 .. MaxCalls :
            [roots |-> a, bytes |-> b, lastUsed |-> c] \in Batch
    BY DEF Batch
  <2> QED BY <2>2, <2>5, <2>6, Zenon
<1>4. TypeOK'
  BY <1>1, <1>2, <1>3, ThreadTypesStep, LimitsStep DEF TypeOK
<1> QED BY <1>1, <1>4, ThreadTypesStep, LimitsStep DEF Accounts

-----------------------------------------------------------------------------
(* Theorems about what is stored *)

\* The accounts hold from the beginning.
LEMMA AccountsInit == ASSUME Init PROVE Accounts
<1>1. TypeOK
  <2>1. EmptyCache \in Caches
    <3>1. EmptyCache \in [{} -> Plans]
      BY DEF EmptyCache
    <3> QED BY <3>1, CacheIs
  <2> QED BY <2>1, LimitsAreNaturals DEF Init, TypeOK, Control, RootSets, Failed
<1>2. Busy = {} /\ clock = 0 /\ calls = 0
  BY DEF Init, Busy
<1>3. ClockEarned /\ CallsHaveRoots
  BY <1>2, FS_EmptySet DEF ClockEarned, CallsHaveRoots
<1>4. DOMAIN batches = {} /\ estimatedBytes = 0
  BY DEF Init
<1>5. CacheWithinLimits
  <2> DEFINE f == [k \in DOMAIN batches |-> Bytes(batches[k].roots)]
  <2>1. DOMAIN f = {} /\ \A k \in {} : f[k] = f[k]
    BY <1>4
  <2>2. Total(f) = 0
    <3> HIDE DEF f
    <3>1. Total(f) = SumFunctionOnSet(f, {})
      BY <2>1, FS_EmptySet, TotalIsSum
    <3> QED BY <3>1, SumEmpty
  <2>3. Cardinality(DOMAIN batches) = 0
    BY <1>4, FS_EmptySet
  <2> QED BY <1>4, <2>2, <2>3, LimitsAreNaturals DEF CacheWithinLimits
<1> QED BY <1>1, <1>3, <1>4, <1>5 DEF Accounts, BytesNoted

\* No call of prepare_local breaks the accounts of the cache.
THEOREM AccountsInductive == Spec => []Accounts
<1>1. Init => Accounts
  BY AccountsInit
<1>2. Accounts /\ IInv /\ IInv' /\ [Next]_vars => Accounts'
  BY AccountsStep
<1> QED BY <1>1, <1>2, Inductive, PTL DEF Spec

\* All variables of the session keep their types; above all the clock of the
\* LRU order advances at most once per call.
THEOREM SessionTypeOK == Spec => []TypeOK
<1>1. Accounts => TypeOK
  BY DEF Accounts
<1> QED BY <1>1, AccountsInductive, PTL

\* The cache never exceeds its limits, and its byte counter is exact through
\* replacements, evictions and oversized batches (insert).
THEOREM LimitsKept == Spec => []CacheWithinLimits
<1>1. Accounts => CacheWithinLimits
  BY DEF Accounts
<1> QED BY <1>1, AccountsInductive, PTL

-----------------------------------------------------------------------------
(* The order of keys *)

\* Two keys differ first at i, and there the first is less ...
FirstDifferAt(a, b, i) ==
    /\ i \in Nat /\ 1 <= i /\ i <= Len(a) /\ i <= Len(b)
    /\ a[i] < b[i]
    /\ \A j \in Nat : 1 <= j /\ j < i => a[j] = b[j]

\* ... or the first is the front of the second.
FrontOf(a, b) ==
    /\ Len(a) < Len(b)
    /\ \A j \in Nat : 1 <= j /\ j <= Len(a) => a[j] = b[j]

\* Keys of integers differ first at some place, or one is the front of the other.
LEMMA LexLessIs ==
    ASSUME NEW a \in Seq(Int), NEW b \in Seq(Int)
    PROVE  LexLess(a, b) <=> FrontOf(a, b) \/ \E i : FirstDifferAt(a, b, i)
<1>1. /\ DOMAIN a = 1..Len(a) /\ DOMAIN b = 1..Len(b)
      /\ Len(a) \in Nat /\ Len(b) \in Nat
  OBVIOUS
<1>2. ASSUME LexLess(a, b) PROVE FrontOf(a, b) \/ \E i : FirstDifferAt(a, b, i)
  <2>1. CASE Len(a) < Len(b) /\ \A i \in DOMAIN a : a[i] = b[i]
    BY <1>1, <2>1 DEF FrontOf
  <2>2. ASSUME NEW i \in DOMAIN a \cap DOMAIN b, a[i] < b[i], \A j \in 1 .. i - 1 : a[j] = b[j]
        PROVE  FirstDifferAt(a, b, i)
    <3>1. i \in Nat /\ 1 <= i /\ i <= Len(a) /\ i <= Len(b)
      BY <1>1
    <3>2. ASSUME NEW j \in Nat, 1 <= j, j < i PROVE a[j] = b[j]
      <4>1. j \in 1 .. i - 1
        BY <3>1, <3>2
      <4> QED BY <2>2, <4>1
    <3> QED BY <2>2, <3>1, <3>2 DEF FirstDifferAt
  <2> QED BY <1>2, <2>1, <2>2 DEF LexLess
<1>3. ASSUME FrontOf(a, b) PROVE LexLess(a, b)
  BY <1>1, <1>3 DEF FrontOf, LexLess
<1>4. ASSUME NEW i, FirstDifferAt(a, b, i) PROVE LexLess(a, b)
  <2>1. i \in DOMAIN a \cap DOMAIN b /\ i \in Nat
    BY <1>1, <1>4 DEF FirstDifferAt
  <2>2. \A j \in 1 .. i - 1 : a[j] = b[j]
    BY <1>4, <2>1 DEF FirstDifferAt
  <2> QED BY <1>4, <2>1, <2>2 DEF LexLess, FirstDifferAt
<1> QED BY <1>2, <1>3, <1>4

\* No key is less than itself.
LEMMA LexIrreflexive == ASSUME NEW a \in Seq(Int) PROVE ~ LexLess(a, a)
<1>1. \A i \in Nat : 1 <= i /\ i <= Len(a) => a[i] \in Int
  OBVIOUS
<1>2. Len(a) \in Nat
  OBVIOUS
<1> QED BY <1>1, <1>2, LexLessIs DEF FirstDifferAt, FrontOf

\* The order of keys is transitive.
LEMMA LexTransitive ==
    ASSUME NEW a \in Seq(Int), NEW b \in Seq(Int), NEW c \in Seq(Int),
           LexLess(a, b), LexLess(b, c)
    PROVE  LexLess(a, c)
<1>1. /\ Len(a) \in Nat /\ Len(b) \in Nat /\ Len(c) \in Nat
      /\ \A i \in Nat : 1 <= i /\ i <= Len(a) => a[i] \in Int
      /\ \A i \in Nat : 1 <= i /\ i <= Len(b) => b[i] \in Int
      /\ \A i \in Nat : 1 <= i /\ i <= Len(c) => c[i] \in Int
  OBVIOUS
<1>2. ASSUME NEW i, FirstDifferAt(a, b, i), NEW k, FirstDifferAt(b, c, k)
      PROVE  \E m : FirstDifferAt(a, c, m)
  <2>0. /\ i \in Nat /\ 1 <= i /\ i <= Len(a) /\ i <= Len(b)
        /\ a[i] < b[i]
        /\ \A j \in Nat : 1 <= j /\ j < i => a[j] = b[j]
        /\ k \in Nat /\ 1 <= k /\ k <= Len(b) /\ k <= Len(c)
        /\ b[k] < c[k]
        /\ \A j \in Nat : 1 <= j /\ j < k => b[j] = c[j]
    BY <1>2 DEF FirstDifferAt
  <2>1. CASE i < k
    <3>1. i \in Nat /\ 1 <= i /\ i <= Len(a) /\ i <= Len(c)
      BY <1>1, <2>0, <2>1
    <3>2. a[i] < c[i]
      <4>1. a[i] \in Int /\ b[i] \in Int /\ c[i] \in Int
        BY <1>1, <2>0, <2>1
      <4>2. a[i] < b[i] /\ b[i] = c[i]
        BY <2>0, <2>1
      <4> QED BY <4>1, <4>2
    <3>3. ASSUME NEW j \in Nat, 1 <= j, j < i PROVE a[j] = c[j]
      <4>1. j < i /\ j < k
        BY <2>0, <2>1, <3>3
      <4>2. a[j] = b[j] /\ b[j] = c[j]
        BY <2>0, <3>3, <4>1
      <4> QED BY <4>2
    <3>4. FirstDifferAt(a, c, i)
      BY <3>1, <3>2, <3>3 DEF FirstDifferAt
    <3> QED BY <3>4
  <2>2. CASE k < i
    <3>1. k \in Nat /\ 1 <= k /\ k <= Len(a) /\ k <= Len(c)
      BY <1>1, <2>0, <2>2
    <3>2. a[k] < c[k]
      <4>1. a[k] \in Int /\ b[k] \in Int /\ c[k] \in Int
        BY <1>1, <2>0, <2>2
      <4>2. a[k] = b[k] /\ b[k] < c[k]
        BY <2>0, <2>2
      <4> QED BY <4>1, <4>2
    <3>3. ASSUME NEW j \in Nat, 1 <= j, j < k PROVE a[j] = c[j]
      <4>1. j < i /\ j < k
        BY <2>0, <2>2, <3>3
      <4>2. a[j] = b[j] /\ b[j] = c[j]
        BY <2>0, <3>3, <4>1
      <4> QED BY <4>2
    <3>4. FirstDifferAt(a, c, k)
      BY <3>1, <3>2, <3>3 DEF FirstDifferAt
    <3> QED BY <3>4
  <2>3. CASE k = i
    <3>1. k \in Nat /\ 1 <= k /\ k <= Len(a) /\ k <= Len(c)
      BY <1>1, <2>0, <2>3
    <3>2. a[k] < c[k]
      <4>1. a[k] \in Int /\ b[k] \in Int /\ c[k] \in Int
        BY <1>1, <2>0, <2>3
      <4>2. a[k] < b[k] /\ b[k] < c[k]
        BY <2>0, <2>3
      <4> QED BY <4>1, <4>2
    <3>3. ASSUME NEW j \in Nat, 1 <= j, j < k PROVE a[j] = c[j]
      <4>1. j < i /\ j < k
        BY <2>0, <2>3, <3>3
      <4>2. a[j] = b[j] /\ b[j] = c[j]
        BY <2>0, <3>3, <4>1
      <4> QED BY <4>2
    <3>4. FirstDifferAt(a, c, k)
      BY <3>1, <3>2, <3>3 DEF FirstDifferAt
    <3> QED BY <3>4
  <2> QED BY <2>0, <2>1, <2>2, <2>3
<1>3. ASSUME NEW i, FirstDifferAt(a, b, i), FrontOf(b, c) PROVE FirstDifferAt(a, c, i)
  <2>0. /\ i \in Nat /\ 1 <= i /\ i <= Len(a) /\ i <= Len(b)
        /\ a[i] < b[i]
        /\ \A j \in Nat : 1 <= j /\ j < i => a[j] = b[j]
        /\ Len(b) < Len(c)
        /\ \A j \in Nat : 1 <= j /\ j <= Len(b) => b[j] = c[j]
    BY <1>3 DEF FirstDifferAt, FrontOf
  <2>1. i <= Len(c) /\ a[i] < c[i]
    BY <1>1, <2>0
  <2>2. ASSUME NEW j \in Nat, 1 <= j, j < i PROVE a[j] = c[j]
    <3>1. j <= Len(b)
      BY <1>1, <2>0, <2>2
    <3> QED BY <2>0, <2>2, <3>1
  <2> QED BY <2>0, <2>1, <2>2 DEF FirstDifferAt
<1>4. ASSUME FrontOf(a, b), NEW k, FirstDifferAt(b, c, k)
      PROVE  FrontOf(a, c) \/ FirstDifferAt(a, c, k)
  <2>0. /\ k \in Nat /\ 1 <= k /\ k <= Len(b) /\ k <= Len(c)
        /\ b[k] < c[k]
        /\ \A j \in Nat : 1 <= j /\ j < k => b[j] = c[j]
        /\ Len(a) < Len(b)
        /\ \A j \in Nat : 1 <= j /\ j <= Len(a) => a[j] = b[j]
    BY <1>4 DEF FirstDifferAt, FrontOf
  <2>1. CASE k <= Len(a)
    <3>1. a[k] < c[k]
      BY <2>0, <2>1
    <3>2. ASSUME NEW j \in Nat, 1 <= j, j < k PROVE a[j] = c[j]
      <4>1. j <= Len(a)
        BY <1>1, <2>0, <2>1, <3>2
      <4> QED BY <2>0, <3>2, <4>1
    <3>3. FirstDifferAt(a, c, k)
      BY <2>0, <2>1, <3>1, <3>2 DEF FirstDifferAt
    <3> QED BY <3>3
  <2>2. CASE ~ (k <= Len(a))
    <3>1. Len(a) < Len(c)
      BY <1>1, <2>0, <2>2
    <3>2. ASSUME NEW j \in Nat, 1 <= j, j <= Len(a) PROVE a[j] = c[j]
      <4>1. j < k
        BY <1>1, <2>0, <2>2, <3>2
      <4> QED BY <2>0, <3>2, <4>1
    <3>3. FrontOf(a, c)
      BY <3>1, <3>2 DEF FrontOf
    <3> QED BY <3>3
  <2> QED BY <2>1, <2>2
<1>5. ASSUME FrontOf(a, b), FrontOf(b, c) PROVE FrontOf(a, c)
  BY <1>1, <1>5 DEF FrontOf
<1>6. (FrontOf(a, b) \/ \E i : FirstDifferAt(a, b, i)) /\ (FrontOf(b, c) \/ \E i : FirstDifferAt(b, c, i))
  BY LexLessIs
<1>7. FrontOf(a, c) \/ \E i : FirstDifferAt(a, c, i)
  BY <1>2, <1>3, <1>4, <1>5, <1>6
<1> QED BY <1>7, LexLessIs

\* What decides keys of one length decides them with whatever follows.
LEMMA LexFirst ==
    ASSUME NEW a \in Seq(Int), NEW b \in Seq(Int), Len(a) = Len(b), LexLess(a, b),
           NEW s \in Seq(Int), NEW t \in Seq(Int)
    PROVE  LexLess(a \o s, b \o t)
<1>1. PICK i : FirstDifferAt(a, b, i)
  BY LexLessIs DEF FrontOf
<1>2. /\ Len(a) \in Nat /\ Len(b) \in Nat
      /\ a \o s \in Seq(Int) /\ Len(a \o s) >= Len(a)
      /\ b \o t \in Seq(Int) /\ Len(b \o t) >= Len(b)
  <2>1. Len(s) \in Nat /\ Len(t) \in Nat /\ Len(a) \in Nat /\ Len(b) \in Nat
    OBVIOUS
  <2> QED BY <2>1, ConcatProperties
<1>3. ASSUME NEW u \in Seq(Int), NEW v \in Seq(Int), NEW j \in Nat, 1 <= j, j <= Len(u)
      PROVE  (u \o v)[j] = u[j]
  <2>1. Len(u) \in Nat /\ Len(v) \in Nat
    OBVIOUS
  <2>2. j \in 1 .. Len(u) + Len(v)
    BY <1>3, <2>1
  <2> QED BY <1>3, <2>2, ConcatProperties
<1>5. FirstDifferAt(a \o s, b \o t, i)
  BY <1>1, <1>2, <1>3 DEF FirstDifferAt
<1> QED BY <1>2, <1>5, LexLessIs

\* Keys of five parts are comparable.
LEMMA LexTotal ==
    ASSUME NEW a \in Seq(Int), NEW b \in Seq(Int), Len(a) = 5, Len(b) = 5,
           ~ LexLess(a, b), ~ LexLess(b, a)
    PROVE  a = b
<1>1. \A i \in 1..5 : a[i] \in Int /\ b[i] \in Int
  BY ElementOfSeq
<1>2. ASSUME NEW i \in Nat, 1 <= i, i <= 5, \A j \in Nat : 1 <= j /\ j < i => a[j] = b[j]
      PROVE  a[i] = b[i]
  <2>1. ~ (a[i] < b[i])
    BY <1>2, LexLessIs DEF FirstDifferAt
  <2>2. ~ (b[i] < a[i])
    BY <1>2, LexLessIs DEF FirstDifferAt
  <2>3. a[i] \in Int /\ b[i] \in Int
    <3>1. i \in 1..5
      BY <1>2
    <3> QED BY <1>1, <3>1
  <2> QED BY <2>1, <2>2, <2>3
<1>4. a[1] = b[1]
  BY <1>2
<1>5. a[2] = b[2]
  BY <1>2, <1>4
<1>6. a[3] = b[3]
  BY <1>2, <1>4, <1>5
<1>7. a[4] = b[4]
  BY <1>2, <1>4, <1>5, <1>6
<1>8. a[5] = b[5]
  BY <1>2, <1>4, <1>5, <1>6, <1>7
<1>9. \A i \in 1..5 : a[i] = b[i]
  BY <1>4, <1>5, <1>6, <1>7, <1>8
<1> QED BY <1>9, SeqEqual

\* An element of a finite set that no other is less than, when elements have
\* keys.
LEMMA LeastKey ==
    ASSUME NEW S, IsFiniteSet(S), S # {}, NEW key, \A x \in S : key[x] \in Seq(Int)
    PROVE  \E x \in S : \A y \in S : ~ LexLess(key[y], key[x])
<1> DEFINE Bad == {T \in SUBSET S : T # {} /\ ~ \E x \in T : \A y \in T : ~ LexLess(key[y], key[x])}
<1>1. SUFFICES ASSUME Bad # {} PROVE FALSE
  <2>1. S \notin Bad
    BY <1>1
  <2> QED BY <2>1
<1>2. PICK T \in Bad : \A U \in Bad : Cardinality(T) <= Cardinality(U)
  <2> HIDE DEF Bad
  <2>1. Bad \in SUBSET SUBSET S
    BY DEF Bad
  <2> QED BY <1>1, <2>1, LeastPart
<1>3. T \in SUBSET S /\ T # {} /\ IsFiniteSet(T)
  BY FS_Subset
<1> DEFINE z == Pick(T)
           R == T \ {z}
<1>4. z \in T /\ ~ (Cardinality(T) <= Cardinality(R))
  BY <1>3, Picking
<1> HIDE DEF z
<1>5. \A x \in S : ~ LexLess(key[x], key[x])
  BY LexIrreflexive
<1>6. CASE R = {}
  <2>1. T = {z}
    BY <1>4, <1>6
  <2>2. \A y \in T : ~ LexLess(key[y], key[z])
    BY <1>3, <1>4, <1>5, <2>1
  <2> QED BY <1>4, <2>2
<1>7. CASE R # {}
  <2>1. R \notin Bad /\ R \in SUBSET S
    BY <1>2, <1>3, <1>4
  <2>2. PICK x \in R : \A y \in R : ~ LexLess(key[y], key[x])
    BY <1>7, <2>1
  <2>3. CASE LexLess(key[z], key[x])
    <3>1. ASSUME NEW y \in T, LexLess(key[y], key[z]) PROVE FALSE
      <4>1. y \in R
        BY <1>3, <1>4, <1>5, <3>1
      <4>2. LexLess(key[y], key[x])
        BY <1>3, <1>4, <2>1, <2>3, <3>1, LexTransitive
      <4> QED BY <2>2, <4>1, <4>2
    <3> QED BY <1>4, <3>1
  <2>4. CASE ~ LexLess(key[z], key[x])
    <3>1. \A y \in T : ~ LexLess(key[y], key[x])
      BY <2>2, <2>4
    <3> QED BY <2>2, <3>1
  <2> QED BY <2>3, <2>4
<1> QED BY <1>6, <1>7

-----------------------------------------------------------------------------
(* Profiles *)

\* The greatest of finitely many numbers.
LEMMA NaturalMax ==
    ASSUME NEW S, S \subseteq Nat, IsFiniteSet(S), S # {}
    PROVE  Max(S) \in S /\ Max(S) \in Nat /\ \A y \in S : y <= Max(S)
<1> DEFINE Bad == {T \in SUBSET S : T # {} /\ ~ \E x \in T : \A y \in T : x >= y}
<1>1. Bad = {}
  <2>1. SUFFICES ASSUME Bad # {} PROVE FALSE
    OBVIOUS
  <2>2. PICK T \in Bad : \A U \in Bad : Cardinality(T) <= Cardinality(U)
    <3> HIDE DEF Bad
    <3>1. Bad \in SUBSET SUBSET S
      BY DEF Bad
    <3> QED BY <2>1, <3>1, LeastPart
  <2>3. T \in SUBSET S /\ T # {} /\ IsFiniteSet(T)
    BY FS_Subset
  <2>4. Pick(T) \in T /\ ~ (Cardinality(T) <= Cardinality(T \ {Pick(T)}))
    BY <2>3, Picking
  <2>5. CASE T \ {Pick(T)} = {}
    <3>1. \A y \in T : Pick(T) >= y
      BY <2>3, <2>4, <2>5
    <3> QED BY <2>4, <3>1
  <2>6. CASE T \ {Pick(T)} # {}
    <3>1. T \ {Pick(T)} \notin Bad
      BY <2>2, <2>4
    <3>2. PICK x \in T \ {Pick(T)} : \A y \in T \ {Pick(T)} : x >= y
      BY <2>3, <2>6, <3>1
    <3>3. x \in Nat /\ Pick(T) \in Nat /\ x \in T
      BY <2>3, <2>4
    <3>4. CASE x >= Pick(T)
      BY <3>2, <3>3, <3>4
    <3>5. CASE ~ (x >= Pick(T))
      <4>1. \A y \in T : Pick(T) >= y
        BY <2>3, <3>2, <3>3, <3>5
      <4> QED BY <2>4, <4>1
    <3> QED BY <3>4, <3>5
  <2> QED BY <2>5, <2>6
<1>2. \E x \in S : \A y \in S : x >= y
  BY <1>1
<1>3. Max(S) \in S /\ \A y \in S : Max(S) >= y
  BY <1>2 DEF Max
<1>4. Max(S) \in Nat /\ \A y \in S : y \in Nat
  BY <1>3
<1> QED BY <1>3, <1>4

\* The image of a finite set is finite.
LEMMA FiniteImage ==
    ASSUME NEW S, IsFiniteSet(S), NEW V, NEW f \in [S -> V]
    PROVE  IsFiniteSet({f[x] : x \in S})
<1> DEFINE T == {f[x] : x \in S}
<1>1. f \in Surjection(S, T)
  BY DEF Surjection
<1> HIDE DEF T
<1>2. IsFiniteSet(T)
  BY <1>1, FS_Surjection
<1> QED BY <1>2 DEF T

\* A delay profile of a plan on the qubits Q: it leads back to each of them.
Profile(p, Q) ==
    /\ p = [x \in DOMAIN p |-> p[x]]
    /\ DOMAIN p \subseteq Q \X Q
    /\ \A q \in Q : <<q, q>> \in DOMAIN p
    /\ \A x \in DOMAIN p : p[x] \in Nat

\* From c by way of m to r.
Via(p, n, r, m, c) == <<r, m>> \in DOMAIN n /\ <<m, c>> \in DOMAIN p

\* What follows connects whatever is connected by way of some qubit, with the
\* longest delay of all ways.
LEMMA FollowedIs ==
    ASSUME NEW Q, IsFiniteSet(Q), NEW p, Profile(p, Q), NEW n, Profile(n, Q)
    PROVE  /\ Profile(Followed(p, n), Q)
           /\ \A z \in DOMAIN Followed(p, n) : \E m \in Q :
                 /\ Via(p, n, z[1], m, z[2])
                 /\ Followed(p, n)[z] = n[<<z[1], m>>] + p[<<m, z[2]>>]
           /\ \A r, m, c : Via(p, n, r, m, c) =>
                 /\ <<r, c>> \in DOMAIN Followed(p, n)
                 /\ n[<<r, m>>] + p[<<m, c>>] <= Followed(p, n)[<<r, c>>]
<1> DEFINE Between(r, c) == {m \in {x[1] : x \in DOMAIN p} :
                                <<r, m>> \in DOMAIN n /\ <<m, c>> \in DOMAIN p}
           connected == {<<x[1], y[2]>> : x \in DOMAIN n, y \in DOMAIN p}
           Delays(r, c) == {n[<<r, m>>] + p[<<m, c>>] : m \in Between(r, c)}
           F == Followed(p, n)
<1>1. F = [x \in {z \in connected : Between(z[1], z[2]) # {}} |-> Max(Delays(x[1], x[2]))]
  BY DEF Followed
<1>2. DOMAIN p \subseteq Q \X Q /\ DOMAIN n \subseteq Q \X Q
  BY DEF Profile
<1>3. ASSUME NEW r, NEW c PROVE \A m : m \in Between(r, c) <=> Via(p, n, r, m, c)
  <2>1. \A m : <<m, c>> \in DOMAIN p => m \in {x[1] : x \in DOMAIN p}
    <3>1. ASSUME NEW m, <<m, c>> \in DOMAIN p PROVE m \in {x[1] : x \in DOMAIN p}
      <4>1. <<m, c>>[1] = m
        OBVIOUS
      <4> QED BY <3>1, <4>1
    <3> QED BY <3>1
  <2> QED BY <2>1 DEF Via
<1>4. ASSUME NEW r, NEW c, NEW k, Via(p, n, r, k, c)
      PROVE  /\ Max(Delays(r, c)) \in Delays(r, c)
             /\ Max(Delays(r, c)) \in Nat
             /\ \A y \in Delays(r, c) : y <= Max(Delays(r, c))
  <2> DEFINE B == Between(r, c)
             f == [m \in B |-> n[<<r, m>>] + p[<<m, c>>]]
  <2>1. B \subseteq Q /\ k \in B
    <3>1. \A m : Via(p, n, r, m, c) => m \in Q
      BY <1>2 DEF Via
    <3> HIDE DEF B
    <3>2. \A m : m \in B <=> Via(p, n, r, m, c)
      BY <1>3 DEF B
    <3> QED BY <1>4, <3>1, <3>2
  <2>2. IsFiniteSet(B)
    BY <2>1, FS_Subset
  <2>3. \A m \in B : n[<<r, m>>] + p[<<m, c>>] \in Nat
    <3>1. ASSUME NEW m \in B PROVE n[<<r, m>>] \in Nat /\ p[<<m, c>>] \in Nat
      <4>1. Via(p, n, r, m, c)
        BY <1>3
      <4> QED BY <4>1 DEF Via, Profile
    <3> QED BY <3>1
  <2>4. Delays(r, c) = {f[m] : m \in B}
    OBVIOUS
  <2>5. f \in [B -> Nat]
    BY <2>3
  <2>6. IsFiniteSet(Delays(r, c))
    <3> HIDE DEF f, B
    <3>1. IsFiniteSet({f[m] : m \in B})
      BY <2>2, <2>5, FiniteImage
    <3> QED BY <2>4, <3>1
  <2>7. Delays(r, c) \subseteq Nat /\ Delays(r, c) # {}
    BY <2>1, <2>3
  <2> HIDE DEF f, B
  <2> QED BY <2>6, <2>7, NaturalMax
<1>5. ASSUME NEW r, NEW m, NEW c, Via(p, n, r, m, c)
      PROVE  /\ <<r, c>> \in DOMAIN F
             /\ n[<<r, m>>] + p[<<m, c>>] <= F[<<r, c>>]
  <2>1. m \in Between(r, c)
    BY <1>3, <1>5
  <2>2. <<r, c>> \in connected
    <3>1. <<r, m>> \in DOMAIN n /\ <<m, c>> \in DOMAIN p /\ <<r, c>> = <<<<r, m>>[1], <<m, c>>[2]>>
      BY <1>5 DEF Via
    <3> QED BY <3>1
  <2>3. n[<<r, m>>] + p[<<m, c>>] \in Delays(r, c)
    BY <2>1
  <2>4. <<r, c>>[1] = r /\ <<r, c>>[2] = c
    OBVIOUS
  <2>5. <<r, c>> \in DOMAIN F /\ F[<<r, c>>] = Max(Delays(r, c))
    <3> HIDE DEF connected, Between, Delays, F
    <3>1. <<r, c>> \in {z \in connected : Between(z[1], z[2]) # {}}
      BY <2>1, <2>2, <2>4
    <3> QED BY <1>1, <2>4, <3>1
  <2> HIDE DEF connected, Between, Delays, F
  <2> QED BY <1>4, <1>5, <2>3, <2>5
<1>6. ASSUME NEW z \in DOMAIN F
      PROVE  /\ z \in Q \X Q /\ F[z] \in Nat
             /\ \E m \in Q : Via(p, n, z[1], m, z[2]) /\ F[z] = n[<<z[1], m>>] + p[<<m, z[2]>>]
  <2>1. z \in connected /\ Between(z[1], z[2]) # {} /\ F[z] = Max(Delays(z[1], z[2]))
    <3> HIDE DEF connected, Between, Delays, F
    <3> QED BY <1>1
  <2>2. PICK k : Via(p, n, z[1], k, z[2])
    <3> HIDE DEF Between
    <3> QED BY <1>3, <2>1
  <2>3. F[z] \in Delays(z[1], z[2]) /\ F[z] \in Nat
    <3> HIDE DEF Between, Delays
    <3> QED BY <1>4, <2>1, <2>2
  <2>4. PICK m \in Between(z[1], z[2]) : F[z] = n[<<z[1], m>>] + p[<<m, z[2]>>]
    <3> HIDE DEF Between, F
    <3> QED BY <2>3
  <2>5. Via(p, n, z[1], m, z[2])
    BY <1>3
  <2>6. m \in Q
    BY <1>2, <2>5 DEF Via
  <2>7. z \in Q \X Q
    <3>1. PICK x \in DOMAIN n, y \in DOMAIN p : z = <<x[1], y[2]>>
      BY <2>1
    <3>2. x[1] \in Q /\ y[2] \in Q
      BY <1>2
    <3> QED BY <3>1, <3>2
  <2> HIDE DEF F
  <2> QED BY <2>3, <2>4, <2>5, <2>6, <2>7
<1>7. Profile(F, Q)
  <2>1. F = [x \in DOMAIN F |-> F[x]]
    <3> HIDE DEF connected, Between, Delays, F
    <3> QED BY <1>1
  <2>2. \A q \in Q : <<q, q>> \in DOMAIN F
    <3>1. \A q \in Q : Via(p, n, q, q, q)
      BY DEF Via, Profile
    <3> HIDE DEF F
    <3> QED BY <1>5, <3>1
  <2> HIDE DEF F
  <2> QED BY <1>6, <2>1, <2>2 DEF Profile
<1> HIDE DEF F
<1>8. F = Followed(p, n)
  BY DEF F
<1> QED BY <1>5, <1>6, <1>7, <1>8

\* The delays of p are delays of q as well.
Keeps(p, q) == \A x \in DOMAIN p : x \in DOMAIN q /\ q[x] = p[x]

\* The embedding is a profile of all the qubits.
LEMMA EmbeddedIs ==
    ASSUME NEW Q, NEW R \in SUBSET Q, NEW n, Profile(n, R)
    PROVE  /\ Profile(Embedded(n, Q), Q)
           /\ DOMAIN Embedded(n, Q) = DOMAIN n \cup {<<q, q>> : q \in Q \ R}
           /\ Keeps(n, Embedded(n, Q))
           /\ \A q \in Q \ R : Embedded(n, Q)[<<q, q>>] = 0
<1> DEFINE others == {<<q, q>> : q \in Q \ R}
           E == Embedded(n, Q)
<1>1. {x[1] : x \in DOMAIN n} = R
  <2>1. \A x \in DOMAIN n : x[1] \in R
    BY DEF Profile
  <2>2. ASSUME NEW q \in R PROVE q \in {x[1] : x \in DOMAIN n}
    <3>1. <<q, q>> \in DOMAIN n /\ <<q, q>>[1] = q
      BY DEF Profile
    <3> QED BY <3>1
  <2> QED BY <2>1, <2>2
<1>2. E = [x \in DOMAIN n \cup others |-> IF x \in others THEN 0 ELSE n[x]]
  BY <1>1 DEF Embedded
<1>3. \A x \in DOMAIN n : x \notin others
  <2>1. ASSUME NEW x \in DOMAIN n, NEW q \in Q \ R, x = <<q, q>> PROVE FALSE
    <3>1. x \in R \X R
      BY DEF Profile
    <3> QED BY <2>1, <3>1
  <2> QED BY <2>1
<1>4. DOMAIN E = DOMAIN n \cup others
  <2> HIDE DEF others, E
  <2> QED BY <1>2
<1>5. \A x \in DOMAIN n : E[x] = n[x]
  <2> HIDE DEF others, E
  <2> QED BY <1>2, <1>3
<1>6. \A x \in others : E[x] = 0
  <2> HIDE DEF others, E
  <2> QED BY <1>2
<1>7. Profile(E, Q)
  <2>1. E = [x \in DOMAIN E |-> E[x]]
    <3> HIDE DEF others, E
    <3> QED BY <1>2
  <2>2. DOMAIN E \subseteq Q \X Q
    <3>1. DOMAIN n \subseteq Q \X Q
      BY DEF Profile
    <3>2. others \subseteq Q \X Q
      OBVIOUS
    <3> QED BY <1>4, <3>1, <3>2
  <2>3. ASSUME NEW q \in Q PROVE <<q, q>> \in DOMAIN E
    <3>1. CASE q \in R
      BY <1>4, <3>1 DEF Profile
    <3>2. CASE q \notin R
      <4>1. <<q, q>> \in others
        BY <3>2
      <4> QED BY <1>4, <4>1
    <3> QED BY <3>1, <3>2
  <2>4. \A x \in DOMAIN E : E[x] \in Nat
    <3> HIDE DEF others, E
    <3>1. \A x \in DOMAIN n : n[x] \in Nat
      BY DEF Profile
    <3> QED BY <1>4, <1>5, <1>6, <3>1
  <2> HIDE DEF E
  <2> QED BY <2>1, <2>2, <2>3, <2>4 DEF Profile
<1>8. \A q \in Q \ R : E[<<q, q>>] = 0
  BY <1>6
<1> HIDE DEF E
<1>9. E = Embedded(n, Q)
  BY DEF E
<1>10. Keeps(n, E)
  BY <1>4, <1>5 DEF Keeps
<1> QED BY <1>4, <1>7, <1>8, <1>9, <1>10

\* What follows takes no less than what it follows, and no less than itself.
LEMMA FollowedGrows ==
    ASSUME NEW Q, IsFiniteSet(Q), NEW p, Profile(p, Q), NEW n, Profile(n, Q)
    PROVE  Within(p, Followed(p, n)) /\ Within(n, Followed(p, n))
<1> DEFINE F == Followed(p, n)
<1>1. ASSUME NEW x \in DOMAIN p PROVE x \in DOMAIN F /\ p[x] <= F[x]
  <2>1. PICK r \in Q, c \in Q : x = <<r, c>>
    BY DEF Profile
  <2>2. Via(p, n, r, r, c) /\ n[<<r, r>>] \in Nat /\ p[<<r, c>>] \in Nat
    BY <2>1 DEF Via, Profile
  <2>3. <<r, c>> \in DOMAIN F /\ n[<<r, r>>] + p[<<r, c>>] <= F[<<r, c>>]
    BY <2>2, FollowedIs
  <2>4. F[<<r, c>>] \in Nat
    BY <2>3, FollowedIs DEF Profile
  <2> HIDE DEF F
  <2> QED BY <2>1, <2>2, <2>3, <2>4
<1>2. ASSUME NEW x \in DOMAIN n PROVE x \in DOMAIN F /\ n[x] <= F[x]
  <2>1. PICK r \in Q, c \in Q : x = <<r, c>>
    BY DEF Profile
  <2>2. Via(p, n, r, c, c) /\ n[<<r, c>>] \in Nat /\ p[<<c, c>>] \in Nat
    BY <2>1 DEF Via, Profile
  <2>3. <<r, c>> \in DOMAIN F /\ n[<<r, c>>] + p[<<c, c>>] <= F[<<r, c>>]
    BY <2>2, FollowedIs
  <2>4. F[<<r, c>>] \in Nat
    BY <2>3, FollowedIs DEF Profile
  <2> HIDE DEF F
  <2> QED BY <2>1, <2>2, <2>3, <2>4
<1> HIDE DEF F
<1>3. F = Followed(p, n)
  BY DEF F
<1> QED BY <1>1, <1>2, <1>3 DEF Within

\* The faster two profiles, the faster the one after the other.
LEMMA FollowedMonotone ==
    ASSUME NEW Q, IsFiniteSet(Q),
           NEW p, Profile(p, Q), NEW n, Profile(n, Q),
           NEW u, Profile(u, Q), NEW v, Profile(v, Q),
           Within(p, u), Within(n, v)
    PROVE  Within(Followed(p, n), Followed(u, v))
<1>1. ASSUME NEW z \in DOMAIN Followed(p, n)
      PROVE  z \in DOMAIN Followed(u, v) /\ Followed(p, n)[z] <= Followed(u, v)[z]
  <2>1. PICK m \in Q : Via(p, n, z[1], m, z[2]) /\ Followed(p, n)[z] = n[<<z[1], m>>] + p[<<m, z[2]>>]
    BY FollowedIs
  <2>2. /\ n[<<z[1], m>>] <= v[<<z[1], m>>] /\ p[<<m, z[2]>>] <= u[<<m, z[2]>>]
        /\ Via(u, v, z[1], m, z[2])
    BY <2>1 DEF Via, Within
  <2>3. /\ n[<<z[1], m>>] \in Nat /\ v[<<z[1], m>>] \in Nat
        /\ p[<<m, z[2]>>] \in Nat /\ u[<<m, z[2]>>] \in Nat
    BY <2>1, <2>2 DEF Via, Profile
  <2>4. z = <<z[1], z[2]>>
    <3>1. z \in Q \X Q
      BY FollowedIs DEF Profile
    <3> QED BY <3>1
  <2>5. z \in DOMAIN Followed(u, v) /\ v[<<z[1], m>>] + u[<<m, z[2]>>] <= Followed(u, v)[z]
    BY <2>2, <2>4, FollowedIs
  <2>6. Followed(u, v)[z] \in Nat
    BY <2>5, FollowedIs DEF Profile
  <2> QED BY <2>1, <2>2, <2>3, <2>5, <2>6
<1> QED BY <1>1 DEF Within

\* Embedding a profile in more qubits keeps the order of profiles.
LEMMA EmbeddedMonotone ==
    ASSUME NEW Q, NEW R \in SUBSET Q, NEW n, Profile(n, R), NEW v, Profile(v, R), Within(n, v)
    PROVE  Within(Embedded(n, Q), Embedded(v, Q))
<1>1. ASSUME NEW x \in DOMAIN n
      PROVE  x \in DOMAIN Embedded(v, Q) /\ Embedded(n, Q)[x] <= Embedded(v, Q)[x]
  <2>1. x \in DOMAIN v /\ n[x] <= v[x]
    BY DEF Within
  <2>2. Keeps(n, Embedded(n, Q)) /\ Keeps(v, Embedded(v, Q))
    BY EmbeddedIs
  <2>3. Embedded(n, Q)[x] = n[x] /\ Embedded(v, Q)[x] = v[x]
    BY <2>1, <2>2 DEF Keeps
  <2>4. DOMAIN Embedded(v, Q) = DOMAIN v \cup {<<q, q>> : q \in Q \ R}
    BY EmbeddedIs
  <2> QED BY <2>1, <2>2, <2>3, <2>4
<1>2. ASSUME NEW q \in Q \ R
      PROVE  <<q, q>> \in DOMAIN Embedded(v, Q) /\ Embedded(n, Q)[<<q, q>>] <= Embedded(v, Q)[<<q, q>>]
  <2>1. Embedded(n, Q)[<<q, q>>] = 0 /\ Embedded(v, Q)[<<q, q>>] = 0
    BY EmbeddedIs, Zenon
  <2>2. <<q, q>> \in DOMAIN Embedded(v, Q)
    BY EmbeddedIs DEF Profile
  <2> QED BY <2>1, <2>2
<1>3. DOMAIN Embedded(n, Q) = DOMAIN n \cup {<<q, q>> : q \in Q \ R}
  BY EmbeddedIs
<1> QED BY <1>1, <1>2, <1>3 DEF Within

\* A profile is within itself, and within is transitive.
LEMMA WithinOrders ==
    /\ \A p : (\A x \in DOMAIN p : p[x] \in Nat) => Within(p, p)
    /\ \A p, q, r : /\ \A x \in DOMAIN p : p[x] \in Nat
                    /\ \A x \in DOMAIN q : q[x] \in Nat
                    /\ \A x \in DOMAIN r : r[x] \in Nat
                    /\ Within(p, q) /\ Within(q, r)
                    => Within(p, r)
<1>1. ASSUME NEW p, \A x \in DOMAIN p : p[x] \in Nat PROVE Within(p, p)
  BY <1>1 DEF Within
<1>2. ASSUME NEW p, NEW q, NEW r, Within(p, q), Within(q, r),
             \A x \in DOMAIN p : p[x] \in Nat,
             \A x \in DOMAIN q : q[x] \in Nat,
             \A x \in DOMAIN r : r[x] \in Nat
      PROVE  Within(p, r)
  <2>1. ASSUME NEW x \in DOMAIN p PROVE x \in DOMAIN r /\ p[x] <= r[x]
    <3>1. x \in DOMAIN q /\ x \in DOMAIN r /\ p[x] <= q[x] /\ q[x] <= r[x]
      BY <1>2 DEF Within
    <3>2. p[x] \in Nat /\ q[x] \in Nat /\ r[x] \in Nat
      BY <1>2, <3>1
    <3> QED BY <3>1, <3>2
  <2> QED BY <2>1 DEF Within
<1> QED BY <1>1, <1>2

\* The output maximum is a delay, and grows with the profile.
LEMMA OutputMaximumIs ==
    ASSUME NEW Q, IsFiniteSet(Q), Q # {}, NEW p, Profile(p, Q)
    PROVE  /\ OutputMaximum(p) \in Nat
           /\ \E x \in DOMAIN p : OutputMaximum(p) = p[x]
           /\ \A x \in DOMAIN p : p[x] <= OutputMaximum(p)
<1>1. IsFiniteSet(DOMAIN p)
  <2>1. IsFiniteSet(Q \X Q)
    BY FS_Product
  <2> QED BY <2>1, FS_Subset DEF Profile
<1>2. p \in [DOMAIN p -> Nat]
  BY DEF Profile
<1>3. IsFiniteSet({p[x] : x \in DOMAIN p})
  BY <1>1, <1>2, FiniteImage
<1>4. Range(p) = {p[x] : x \in DOMAIN p}
  BY DEF Range
<1>5. Range(p) \subseteq Nat /\ Range(p) # {}
  <2>1. PICK q \in Q : TRUE
    OBVIOUS
  <2>2. <<q, q>> \in DOMAIN p
    BY DEF Profile
  <2> QED BY <1>2, <1>4, <2>2
<1>6. /\ Max(Range(p)) \in Range(p) /\ Max(Range(p)) \in Nat
      /\ \A y \in Range(p) : y <= Max(Range(p))
  BY <1>3, <1>4, <1>5, NaturalMax
<1> QED BY <1>4, <1>6 DEF OutputMaximum

\* The longest delay grows with the profile.
LEMMA OutputMaximumMonotone ==
    ASSUME NEW Q, IsFiniteSet(Q), Q # {}, NEW p, Profile(p, Q), NEW u, Profile(u, Q), Within(p, u)
    PROVE  OutputMaximum(p) <= OutputMaximum(u)
<1>1. PICK x \in DOMAIN p : OutputMaximum(p) = p[x]
  BY OutputMaximumIs
<1>2. x \in DOMAIN u /\ p[x] <= u[x] /\ u[x] <= OutputMaximum(u)
  BY OutputMaximumIs DEF Within
<1>3. p[x] \in Nat /\ u[x] \in Nat /\ OutputMaximum(u) \in Nat
  BY <1>2, OutputMaximumIs DEF Profile
<1> QED BY <1>1, <1>2, <1>3

-----------------------------------------------------------------------------
(* Costs *)

\* The cost of a plan on the qubits Q.
CostOn(c, Q) ==
    /\ c = [two |-> c.two, ops |-> c.ops, error |-> c.error,
            depth |-> c.depth, twoDepth |-> c.twoDepth]
    /\ c.two \in Nat /\ c.ops \in Nat /\ c.error \in Nat
    /\ Profile(c.depth, Q) /\ Profile(c.twoDepth, Q)

\* No cost is a cost.
LEMMA NoCostIs == ASSUME NEW Q PROVE CostOn(NoCost(Q), Q)
<1> DEFINE U == Untouched(Q)
<1>1. Profile(U, Q)
  <2>1. U = [x \in {<<q, q>> : q \in Q} |-> 0]
    BY DEF Untouched
  <2>2. {<<q, q>> : q \in Q} \subseteq Q \X Q /\ \A q \in Q : <<q, q>> \in {<<r, r>> : r \in Q}
    OBVIOUS
  <2> QED BY <2>1, <2>2 DEF Profile
<1>2. NoCost(Q) = [two |-> 0, ops |-> 0, error |-> 0, depth |-> U, twoDepth |-> U]
  BY DEF NoCost
<1> HIDE DEF U
<1> QED BY <1>1, <1>2 DEF CostOn

\* Appending a child costs no less than what was there, nor than the child.
LEMMA CombineIs ==
    ASSUME NEW Q, IsFiniteSet(Q), NEW R \in SUBSET Q,
           NEW a, CostOn(a, Q), NEW b, CostOn(b, R)
    PROVE  CostOn(Combine(a, b, Q), Q) /\ NoWorse(a, Combine(a, b, Q)) /\ NoWorse(b, Combine(a, b, Q))
<1> DEFINE d == Followed(a.depth, Embedded(b.depth, Q))
           t == Followed(a.twoDepth, Embedded(b.twoDepth, Q))
<1>1. ASSUME NEW p, Profile(p, Q), NEW n, Profile(n, R)
      PROVE  /\ Profile(Followed(p, Embedded(n, Q)), Q)
             /\ Within(p, Followed(p, Embedded(n, Q)))
             /\ Within(n, Followed(p, Embedded(n, Q)))
  <2>1. Profile(Embedded(n, Q), Q)
    BY <1>1, EmbeddedIs
  <2>2. /\ Profile(Followed(p, Embedded(n, Q)), Q)
        /\ Within(p, Followed(p, Embedded(n, Q)))
        /\ Within(Embedded(n, Q), Followed(p, Embedded(n, Q)))
    BY <1>1, <2>1, FollowedIs, FollowedGrows
  <2>3. Keeps(n, Embedded(n, Q))
    BY <1>1, EmbeddedIs
  <2> QED BY <2>2, <2>3 DEF Within, Keeps
<1>2. /\ Profile(d, Q) /\ Within(a.depth, d) /\ Within(b.depth, d)
      /\ Profile(t, Q) /\ Within(a.twoDepth, t) /\ Within(b.twoDepth, t)
  BY <1>1 DEF CostOn
<1>3. Combine(a, b, Q) = [two |-> a.two + b.two, ops |-> a.ops + b.ops, error |-> a.error + b.error,
                          depth |-> d, twoDepth |-> t]
  BY DEF Combine
<1> HIDE DEF d, t
<1>4. /\ a.two \in Nat /\ a.ops \in Nat /\ a.error \in Nat
      /\ b.two \in Nat /\ b.ops \in Nat /\ b.error \in Nat
  BY DEF CostOn
<1> QED BY <1>2, <1>3, <1>4 DEF CostOn, NoWorse

\* Cheaper parts make a cheaper whole.
LEMMA CombineMonotone ==
    ASSUME NEW Q, IsFiniteSet(Q), NEW R \in SUBSET Q,
           NEW a, CostOn(a, Q), NEW b, CostOn(b, R),
           NEW c, CostOn(c, Q), NEW e, CostOn(e, R),
           NoWorse(a, c), NoWorse(b, e)
    PROVE  NoWorse(Combine(a, b, Q), Combine(c, e, Q))
<1>1. ASSUME NEW p, Profile(p, Q), NEW n, Profile(n, R), NEW u, Profile(u, Q), NEW v, Profile(v, R),
             Within(p, u), Within(n, v)
      PROVE  Within(Followed(p, Embedded(n, Q)), Followed(u, Embedded(v, Q)))
  <2>1. Profile(Embedded(n, Q), Q) /\ Profile(Embedded(v, Q), Q) /\ Within(Embedded(n, Q), Embedded(v, Q))
    BY <1>1, EmbeddedIs, EmbeddedMonotone
  <2> QED BY <1>1, <2>1, FollowedMonotone
<1>2. /\ Within(Followed(a.depth, Embedded(b.depth, Q)), Followed(c.depth, Embedded(e.depth, Q)))
      /\ Within(Followed(a.twoDepth, Embedded(b.twoDepth, Q)), Followed(c.twoDepth, Embedded(e.twoDepth, Q)))
  BY <1>1 DEF CostOn, NoWorse
<1>3. /\ a.two \in Nat /\ a.ops \in Nat /\ a.error \in Nat
      /\ b.two \in Nat /\ b.ops \in Nat /\ b.error \in Nat
      /\ c.two \in Nat /\ c.ops \in Nat /\ c.error \in Nat
      /\ e.two \in Nat /\ e.ops \in Nat /\ e.error \in Nat
  BY DEF CostOn
<1>4. /\ a.two <= c.two /\ a.ops <= c.ops /\ a.error <= c.error
      /\ b.two <= e.two /\ b.ops <= e.ops /\ b.error <= e.error
  BY DEF NoWorse
<1>5. /\ a.two + b.two <= c.two + e.two /\ a.ops + b.ops <= c.ops + e.ops
      /\ a.error + b.error <= c.error + e.error
  BY <1>3, <1>4
<1> QED BY <1>2, <1>5 DEF NoWorse, Combine

\* Costs are no worse than themselves, and no worse is transitive.
LEMMA NoWorseReflexive == ASSUME NEW a, NEW Q, CostOn(a, Q) PROVE NoWorse(a, a)
<1>1. Within(a.depth, a.depth) /\ Within(a.twoDepth, a.twoDepth)
  BY WithinOrders DEF CostOn, Profile
<1> QED BY <1>1 DEF NoWorse, CostOn

\* Dominance is transitive, whatever qubits the costs are on.
LEMMA NoWorseTransitive ==
    ASSUME NEW a, NEW Q, CostOn(a, Q), NEW b, NEW R, CostOn(b, R), NEW c, NEW S, CostOn(c, S),
           NoWorse(a, b), NoWorse(b, c)
    PROVE  NoWorse(a, c)
<1>1. ASSUME NEW p, Profile(p, Q), NEW q, Profile(q, R), NEW r, Profile(r, S), Within(p, q), Within(q, r)
      PROVE  Within(p, r)
  BY <1>1, WithinOrders DEF Profile
<1>2. Within(a.depth, c.depth) /\ Within(a.twoDepth, c.twoDepth)
  BY <1>1 DEF NoWorse, CostOn
<1>3. /\ a.two \in Nat /\ a.ops \in Nat /\ a.error \in Nat
      /\ b.two \in Nat /\ b.ops \in Nat /\ b.error \in Nat
      /\ c.two \in Nat /\ c.ops \in Nat /\ c.error \in Nat
  BY DEF CostOn
<1> QED BY <1>2, <1>3 DEF NoWorse

\* The objective is a key of five parts.
LEMMA ObjectiveIs ==
    ASSUME NEW Q, IsFiniteSet(Q), Q # {}, NEW a, CostOn(a, Q)
    PROVE  Objective(a) \in Seq(Int) /\ Len(Objective(a)) = 5
<1>1. OutputMaximum(a.depth) \in Int /\ OutputMaximum(a.twoDepth) \in Int
  <2>1. OutputMaximum(a.depth) \in Nat /\ OutputMaximum(a.twoDepth) \in Nat
    BY OutputMaximumIs DEF CostOn
  <2> QED BY <2>1
<1>2. a.two \in Int /\ a.error \in Int /\ a.ops \in Int
  BY DEF CostOn
<1> QED BY <1>1, <1>2 DEF Objective

\* What is no worse has no greater objective.
LEMMA ObjectiveMonotone ==
    ASSUME NEW Q, IsFiniteSet(Q), Q # {}, NEW a, CostOn(a, Q), NEW b, CostOn(b, Q), NoWorse(a, b)
    PROVE  ~ LexLess(Objective(b), Objective(a))
<1> DEFINE x == Objective(a)
           y == Objective(b)
<1>1. x \in Seq(Int) /\ y \in Seq(Int) /\ Len(x) = 5 /\ Len(y) = 5
  BY ObjectiveIs
<1>2. OutputMaximum(a.depth) <= OutputMaximum(b.depth) /\ OutputMaximum(a.twoDepth) <= OutputMaximum(b.twoDepth)
  BY OutputMaximumMonotone DEF NoWorse, CostOn
<1>3. a.two <= b.two /\ a.error <= b.error /\ a.ops <= b.ops
  BY DEF NoWorse
<1>4. x[1] <= y[1] /\ x[2] <= y[2] /\ x[3] <= y[3] /\ x[4] <= y[4] /\ x[5] <= y[5]
  BY <1>2, <1>3 DEF Objective
<1> HIDE DEF x, y
<1>5. \A i \in 1..5 : x[i] \in Int /\ y[i] \in Int
  BY <1>1, ElementOfSeq
<1>6. \A i \in Nat : 1 <= i /\ i <= 5 => ~ (y[i] < x[i])
  <2>1. ASSUME NEW i \in Nat, 1 <= i, i <= 5 PROVE ~ (y[i] < x[i])
    <3>1. i = 1 \/ i = 2 \/ i = 3 \/ i = 4 \/ i = 5
      BY <2>1
    <3> QED BY <1>4, <1>5, <3>1
  <2> QED BY <2>1
<1>7. ~ LexLess(y, x)
  <2>1. ~ FrontOf(y, x)
    BY <1>1 DEF FrontOf
  <2>2. ASSUME NEW i, FirstDifferAt(y, x, i) PROVE FALSE
    BY <1>1, <1>6, <2>2 DEF FirstDifferAt
  <2> QED BY <1>1, <2>1, <2>2, LexLessIs
<1> QED BY <1>7 DEF x, y

-----------------------------------------------------------------------------
(* Assembled plans *)

\* The parts of a plan of a name, up to each of its children.
Parts(f, name, kids, Q, n) ==
    /\ f[0].cost = NoCost(Q) /\ f[0].steps = 1 /\ f[0].key = <<name>>
    /\ \A i \in 1..n : /\ f[i].cost = Combine(f[i - 1].cost, kids[i].cost, Q)
                       /\ f[i].steps = f[i - 1].steps + kids[i].steps
                       /\ f[i].key = f[i - 1].key \o kids[i].key

\* The recursion of Assembled.
Assembles(f, name, kids, Q, n) ==
    f = [i \in 0..n |-> IF i = 0 THEN [cost |-> NoCost(Q), steps |-> 1, key |-> <<name>>]
                        ELSE [cost |-> Combine(f[i - 1].cost, kids[i].cost, Q),
                              steps |-> f[i - 1].steps + kids[i].steps,
                              key |-> f[i - 1].key \o kids[i].key]]

\* The recursion of Assembled has a solution ...
LEMMA AssemblesExists ==
    ASSUME NEW name, NEW kids, NEW Q, NEW n \in Nat
    PROVE  \E f : Assembles(f, name, kids, Q, n)
<1> DEFINE S == {i \in 0..n : \E f : Assembles(f, name, kids, Q, i)}
<1>1. 0 \in S
  <2> DEFINE f == [i \in 0..0 |-> [cost |-> NoCost(Q), steps |-> 1, key |-> <<name>>]]
  <2>1. Assembles(f, name, kids, Q, 0)
    BY DEF Assembles
  <2> HIDE DEF f
  <2> QED BY <2>1
<1>2. ASSUME NEW i \in 1..n, i - 1 \in S PROVE i \in S
  <2>0. \A j \in 1..i : j - 1 \in 0..i /\ j - 1 # i
    <3> HIDE DEF S
    <3> QED OBVIOUS
  <2>1. PICK g : Assembles(g, name, kids, Q, i - 1)
    BY <1>2
  <2> DEFINE next(h, j) == [cost |-> Combine(h[j - 1].cost, kids[j].cost, Q),
                            steps |-> h[j - 1].steps + kids[j].steps,
                            key |-> h[j - 1].key \o kids[j].key]
             first == [cost |-> NoCost(Q), steps |-> 1, key |-> <<name>>]
             f == [j \in 0..i |-> IF j = i THEN next(g, i) ELSE g[j]]
  <2>2. g = [j \in 0..(i - 1) |-> IF j = 0 THEN first ELSE next(g, j)]
    BY <2>1 DEF Assembles
  <2>3. ASSUME NEW j \in 1..i PROVE next(f, j) = next(g, j)
    <3>1. f[j - 1] = g[j - 1]
      <4>1. j - 1 \in 0..i /\ j - 1 # i
        BY <2>0
      <4> HIDE DEF next, first
      <4> QED BY <4>1
    <3> HIDE DEF f
    <3> QED BY <3>1
  <2>4. ASSUME NEW j \in 0..i PROVE f[j] = IF j = 0 THEN first ELSE next(f, j)
    <3>1. CASE j = i
      <4>1. j \in 1..i /\ j # 0
        BY <3>1
      <4>2. f[j] = next(g, j)
        BY <3>1
      <4> HIDE DEF f, next, first
      <4> QED BY <2>3, <4>1, <4>2
    <3>2. CASE j # i
      <4>1. f[j] = g[j] /\ j \in 0..(i - 1)
        BY <3>2
      <4>2. g[j] = IF j = 0 THEN first ELSE next(g, j)
        <5> HIDE DEF f, next, first
        <5> QED BY <2>2, <4>1
      <4>3. j # 0 => j \in 1..i
        OBVIOUS
      <4> HIDE DEF f, next, first
      <4> QED BY <2>3, <4>1, <4>2, <4>3
    <3> QED BY <3>1, <3>2
  <2>5. f = [j \in 0..i |-> IF j = 0 THEN first ELSE next(f, j)]
    <3>1. f = [j \in 0..i |-> f[j]]
      <4> HIDE DEF next, first
      <4> QED OBVIOUS
    <3> HIDE DEF f, next, first
    <3> QED BY <2>4, <3>1
  <2>6. Assembles(f, name, kids, Q, i)
    <3> HIDE DEF f
    <3> QED BY <2>5 DEF Assembles
  <2> HIDE DEF f
  <2> QED BY <2>6
<1> HIDE DEF S
<1>3. \A i \in 1..n : i - 1 \in S => i \in S
  BY <1>2
<1>4. \A i \in 0..n : i \in S
  BY <1>1, <1>3, CountUp
<1>5. n \in S
  BY <1>4
<1> QED BY <1>5 DEF S

\* ... so a plan is assembled from its children one by one.
LEMMA AssembledParts ==
    ASSUME NEW name, NEW n \in Nat, NEW kids, Len(kids) = n, NEW Q
    PROVE  \E f : Parts(f, name, kids, Q, n) /\ Assembled(name, kids, Q) = f[n]
<1> DEFINE f == CHOOSE h : Assembles(h, name, kids, Q, n)
<1>1. Assembles(f, name, kids, Q, n)
  BY AssemblesExists
<1>2. Assembled(name, kids, Q) = f[n]
  BY DEF Assembled, Assembles
<1> HIDE DEF f
<1>3. Parts(f, name, kids, Q, n)
  <2> DEFINE c(i) == Combine(f[i - 1].cost, kids[i].cost, Q)
             m(i) == f[i - 1].steps + kids[i].steps
             k(i) == f[i - 1].key \o kids[i].key
             next(i) == [cost |-> c(i), steps |-> m(i), key |-> k(i)]
             first == [cost |-> NoCost(Q), steps |-> 1, key |-> <<name>>]
  <2>1. f = [i \in 0..n |-> IF i = 0 THEN first ELSE next(i)]
    BY <1>1 DEF Assembles
  <2>2. 0 \in 0..n /\ \A i \in 1..n : i \in 0..n /\ i # 0
    OBVIOUS
  <2>3. f[0] = first /\ \A i \in 1..n : f[i] = next(i)
    <3> HIDE DEF first, next
    <3> QED BY <2>1, <2>2
  <2>4. ASSUME NEW i \in 1..n PROVE f[i].cost = c(i) /\ f[i].steps = m(i) /\ f[i].key = k(i)
    <3> HIDE DEF c, m, k
    <3>1. f[i] = next(i)
      <4> HIDE DEF next, first
      <4> QED BY <2>3
    <3> HIDE DEF first
    <3> QED BY <3>1
  <2>5. f[0].cost = NoCost(Q) /\ f[0].steps = 1 /\ f[0].key = <<name>>
    BY <2>3
  <2> QED BY <2>4, <2>5 DEF Parts
<1> QED BY <1>2, <1>3

\* A plan of a state, as far as it matters to the plans built from it.
Costed(k) == k.state \in State /\ CostOn(k.cost, Qubits(k.state))
Keyed(k) == k.steps \in Nat /\ k.key \in Seq(Int)

\* A state is on finitely many qubits, and on some.
LEMMA QubitsFinite ==
    ASSUME NEW s \in State
    PROVE  IsFiniteSet(Qubits(s)) /\ Qubits(s) # {}
<1>1. s.qargs \in Seq(Qubits(s)) /\ s.qargs # <<>>
  BY StatesAssumption
<1> DEFINE n == Len(s.qargs)
<1>2. n \in Nat /\ s.qargs \in [1..n -> Qubits(s)] /\ n # 0
  <2>1. n \in Nat /\ s.qargs \in [1..n -> Qubits(s)]
    BY <1>1, LenProperties
  <2>2. n # 0
    BY <1>1, EmptySeq
  <2> QED BY <2>1, <2>2
<1> HIDE DEF n
<1>3. Qubits(s) = {s.qargs[i] : i \in 1..n}
  BY <1>2 DEF Qubits, Range
<1>4. IsFiniteSet(1..n) /\ 1 \in 1..n
  BY <1>2, FS_Interval
<1>5. IsFiniteSet({s.qargs[i] : i \in 1..n})
  BY <1>2, <1>4, FiniteImage
<1> QED BY <1>3, <1>4, <1>5

\* A plan is worse than each of its children.
LEMMA AssembledIs ==
    ASSUME NEW name \in Int, NEW n \in Nat, NEW kids, Len(kids) = n, NEW Q, IsFiniteSet(Q),
           \A i \in 1..n : Costed(kids[i]) /\ Qubits(kids[i].state) \subseteq Q
    PROVE  /\ CostOn(Assembled(name, kids, Q).cost, Q)
           /\ \A i \in 1..n : NoWorse(kids[i].cost, Assembled(name, kids, Q).cost)
<1>1. PICK f : Parts(f, name, kids, Q, n) /\ Assembled(name, kids, Q) = f[n]
  BY AssembledParts
<1> DEFINE S == {i \in 0..n : CostOn(f[i].cost, Q) /\ \A j \in 1..i : NoWorse(kids[j].cost, f[i].cost)}
<1>2. 0 \in S
  <2>1. CostOn(f[0].cost, Q)
    BY <1>1, NoCostIs DEF Parts
  <2> QED BY <2>1
<1>3. ASSUME NEW i \in 1..n, i - 1 \in S PROVE i \in S
  <2>1. CostOn(f[i - 1].cost, Q) /\ \A j \in 1..(i - 1) : NoWorse(kids[j].cost, f[i - 1].cost)
    BY <1>3
  <2>2. f[i].cost = Combine(f[i - 1].cost, kids[i].cost, Q)
    BY <1>1 DEF Parts
  <2>3. CostOn(kids[i].cost, Qubits(kids[i].state)) /\ Qubits(kids[i].state) \in SUBSET Q
    BY DEF Costed
  <2>4. CostOn(f[i].cost, Q) /\ NoWorse(f[i - 1].cost, f[i].cost) /\ NoWorse(kids[i].cost, f[i].cost)
    BY <2>1, <2>2, <2>3, CombineIs
  <2>5. ASSUME NEW j \in 1..i PROVE NoWorse(kids[j].cost, f[i].cost)
    <3>1. CASE j = i
      BY <2>4, <3>1
    <3>2. CASE j # i
      <4>1. j \in 1..(i - 1) /\ j \in 1..n
        BY <3>2
      <4>2. NoWorse(kids[j].cost, f[i - 1].cost)
        BY <2>1, <4>1
      <4>3. CostOn(kids[j].cost, Qubits(kids[j].state))
        BY <4>1 DEF Costed
      <4> QED BY <2>1, <2>4, <4>2, <4>3, NoWorseTransitive
    <3> QED BY <3>1, <3>2
  <2> QED BY <2>4, <2>5
<1>4. n \in S
  <2> HIDE DEF S
  <2>1. \A i \in 1..n : i - 1 \in S => i \in S
    BY <1>3
  <2>2. \A i \in 0..n : i \in S
    BY <1>2, <2>1, CountUp
  <2> QED BY <2>2
<1> QED BY <1>1, <1>4

\* What is assembled from keyed plans has steps and a key.
LEMMA AssembledKeyed ==
    ASSUME NEW name \in Int, NEW n \in Nat, NEW kids, Len(kids) = n, NEW Q,
           \A i \in 1..n : Keyed(kids[i])
    PROVE  Keyed(Assembled(name, kids, Q))
<1>1. PICK f : Parts(f, name, kids, Q, n) /\ Assembled(name, kids, Q) = f[n]
  BY AssembledParts
<1> DEFINE S == {i \in 0..n : Keyed(f[i])}
<1>2. 0 \in S
  <2>1. f[0].steps = 1 /\ f[0].key = <<name>>
    BY <1>1 DEF Parts
  <2>2. <<name>> \in Seq(Int)
    OBVIOUS
  <2>3. f[0].key \in Seq(Int)
    BY <2>1, <2>2, Zenon
  <2>4. f[0].steps \in Nat
    BY <2>1
  <2> QED BY <2>3, <2>4 DEF Keyed
<1>3. ASSUME NEW i \in 1..n, i - 1 \in S PROVE i \in S
  <2>1. f[i].steps = f[i - 1].steps + kids[i].steps /\ f[i].key = f[i - 1].key \o kids[i].key
    BY <1>1 DEF Parts
  <2>2. Keyed(f[i - 1]) /\ Keyed(kids[i])
    BY <1>3
  <2>3. f[i].steps \in Nat /\ f[i].key \in Seq(Int)
    BY <2>1, <2>2, ConcatProperties DEF Keyed
  <2> QED BY <2>3 DEF Keyed
<1>4. n \in S
  <2> HIDE DEF S
  <2>1. \A i \in 1..n : i - 1 \in S => i \in S
    BY <1>3
  <2>2. \A i \in 0..n : i \in S
    BY <1>2, <2>1, CountUp
  <2> QED BY <2>2
<1> QED BY <1>1, <1>4

\* The better the children, the better the plan.
LEMMA AssembledMonotone ==
    ASSUME NEW name \in Int, NEW other \in Int, NEW n \in Nat,
           NEW kids, Len(kids) = n, NEW olds, Len(olds) = n, NEW Q, IsFiniteSet(Q),
           \A i \in 1..n : /\ Costed(kids[i]) /\ Costed(olds[i])
                           /\ kids[i].state = olds[i].state
                           /\ Qubits(kids[i].state) \subseteq Q
                           /\ NoWorse(kids[i].cost, olds[i].cost)
    PROVE  NoWorse(Assembled(name, kids, Q).cost, Assembled(other, olds, Q).cost)
<1>1. PICK f : Parts(f, name, kids, Q, n) /\ Assembled(name, kids, Q) = f[n]
  BY AssembledParts
<1>2. PICK g : Parts(g, other, olds, Q, n) /\ Assembled(other, olds, Q) = g[n]
  BY AssembledParts
<1> DEFINE S == {i \in 0..n : CostOn(f[i].cost, Q) /\ CostOn(g[i].cost, Q) /\ NoWorse(f[i].cost, g[i].cost)}
<1>3. 0 \in S
  <2>1. f[0].cost = NoCost(Q) /\ g[0].cost = NoCost(Q)
    BY <1>1, <1>2 DEF Parts
  <2>2. CostOn(NoCost(Q), Q) /\ NoWorse(NoCost(Q), NoCost(Q))
    BY NoCostIs, NoWorseReflexive
  <2> QED BY <2>1, <2>2
<1>4. ASSUME NEW i \in 1..n, i - 1 \in S PROVE i \in S
  <2>1. /\ f[i].cost = Combine(f[i - 1].cost, kids[i].cost, Q)
        /\ g[i].cost = Combine(g[i - 1].cost, olds[i].cost, Q)
    BY <1>1, <1>2 DEF Parts
  <2>2. /\ CostOn(kids[i].cost, Qubits(kids[i].state)) /\ CostOn(olds[i].cost, Qubits(kids[i].state))
        /\ Qubits(kids[i].state) \in SUBSET Q /\ NoWorse(kids[i].cost, olds[i].cost)
    BY DEF Costed
  <2>3. /\ CostOn(f[i - 1].cost, Q) /\ CostOn(g[i - 1].cost, Q)
        /\ NoWorse(f[i - 1].cost, g[i - 1].cost)
    BY <1>4
  <2>4. CostOn(f[i].cost, Q) /\ CostOn(g[i].cost, Q)
    BY <2>1, <2>2, <2>3, CombineIs
  <2>5. NoWorse(f[i].cost, g[i].cost)
    BY <2>1, <2>2, <2>3, CombineMonotone
  <2> QED BY <2>4, <2>5
<1>5. n \in S
  <2> HIDE DEF S
  <2>1. \A i \in 1..n : i - 1 \in S => i \in S
    BY <1>4
  <2>2. \A i \in 0..n : i \in S
    BY <1>3, <2>1, CountUp
  <2> QED BY <2>2
<1> QED BY <1>1, <1>2, <1>5

-----------------------------------------------------------------------------
(* The graph of decompositions *)

\* A finite set can be listed by ranks.
LEMMA SortedExists ==
    ASSUME NEW S, IsFiniteSet(S), NEW rank, \A x \in S : rank[x] \in Int
    PROVE  \E d \in SetToSeqs(S) : \A i, j \in DOMAIN d : i < j => rank[d[i]] <= rank[d[j]]
<1> DEFINE Sorted(d) == \A i, j \in DOMAIN d : i < j => rank[d[i]] <= rank[d[j]]
           Bad == {T \in SUBSET S : ~ \E d \in SetToSeqs(T) : Sorted(d)}
<1>1. SUFFICES ASSUME Bad # {} PROVE FALSE
  <2>1. S \notin Bad
    BY <1>1
  <2> QED BY <2>1
<1>2. PICK T \in Bad : \A U \in Bad : Cardinality(T) <= Cardinality(U)
  <2> HIDE DEF Bad
  <2>1. Bad \in SUBSET SUBSET S
    BY DEF Bad
  <2> QED BY <1>1, <2>1, LeastPart
<1>3. T \in SUBSET S /\ IsFiniteSet(T) /\ Cardinality(T) \in Nat
  BY FS_Subset, FS_CardinalityType
<1> DEFINE n == Cardinality(T)
<1>4. CASE T = {}
  <2> DEFINE d == [i \in 1..0 |-> {}]
  <2>1. n = 0 /\ DOMAIN d = {}
    BY <1>4, FS_EmptySet
  <2>2. d \in [1..n -> T] /\ (\A i, j \in 1..n : i # j => d[i] # d[j]) /\ Sorted(d)
    BY <2>1
  <2>3. d \in SetToSeqs(T)
    <3> HIDE DEF d
    <3> QED BY <2>2 DEF SetToSeqs
  <2> QED BY <2>2, <2>3
<1>5. CASE T # {}
  <2> DEFINE key == [x \in T |-> <<0 - rank[x]>>]
  <2>1. \A x \in T : key[x] \in Seq(Int)
    <3>1. \A x \in T : 0 - rank[x] \in Int
      BY <1>3
    <3>2. \A k \in Int : <<k>> \in Seq(Int)
      OBVIOUS
    <3>3. \A x \in T : key[x] = <<0 - rank[x]>>
      OBVIOUS
    <3> HIDE DEF key
    <3> QED BY <3>1, <3>2, <3>3
  <2>2. PICK x \in T : \A y \in T : ~ LexLess(key[y], key[x])
    <3> HIDE DEF key
    <3> QED BY <1>3, <1>5, <2>1, LeastKey
  <2>3. ASSUME NEW y \in T PROVE rank[y] <= rank[x]
    <3>1. rank[y] \in Int /\ rank[x] \in Int
      BY <1>3
    <3>2. key[y] = <<0 - rank[y]>> /\ key[x] = <<0 - rank[x]>>
      OBVIOUS
    <3>3. Len(key[y]) = 1 /\ Len(key[x]) = 1 /\ key[y][1] = 0 - rank[y] /\ key[x][1] = 0 - rank[x]
      BY <3>2
    <3> HIDE DEF key
    <3>4. ASSUME rank[x] < rank[y] PROVE FALSE
      <4>1. FirstDifferAt(key[y], key[x], 1)
        BY <3>1, <3>3, <3>4 DEF FirstDifferAt
      <4> QED BY <2>1, <2>2, <4>1, LexLessIs
    <3> QED BY <3>1, <3>4
  <2> DEFINE R == T \ {x}
  <2>4. IsFiniteSet(R) /\ Cardinality(R) = n - 1 /\ n - 1 \in Nat
    <3>1. IsFiniteSet(R) /\ Cardinality(R) = n - 1
      BY <1>3, FS_RemoveElement
    <3>2. Cardinality(R) \in Nat
      BY <3>1, FS_CardinalityType
    <3> QED BY <3>1, <3>2
  <2>5. PICK d \in SetToSeqs(R) : Sorted(d)
    <3>1. R \notin Bad
      BY <1>2, <1>3, <2>4
    <3> QED BY <1>3, <3>1
  <2>6. d \in [1..(n - 1) -> R] /\ \A i, j \in 1..(n - 1) : i # j => d[i] # d[j]
    <3> HIDE DEF R
    <3>1. d \in [1..Cardinality(R) -> R] /\ \A i, j \in 1..Cardinality(R) : i # j => d[i] # d[j]
      BY DEF SetToSeqs
    <3> QED BY <2>4, <3>1
  <2> DEFINE e == [i \in 1..n |-> IF i = n THEN x ELSE d[i]]
  <2>7. \A i \in 1..n : i # n => i \in 1..(n - 1)
    BY <1>3
  <2>8. e \in [1..n -> T] /\ \A i, j \in 1..n : i # j => e[i] # e[j]
    <3>1. \A i \in 1..n : i # n => e[i] = d[i] /\ d[i] \in R
      BY <2>6, <2>7
    <3>2. \A i \in 1..n : i = n => e[i] = x
      OBVIOUS
    <3>3. \A i \in 1..n : e[i] \in T
      BY <3>1, <3>2
    <3>4. ASSUME NEW i \in 1..n, NEW j \in 1..n, i # j PROVE e[i] # e[j]
      <4>1. CASE i = n
        BY <3>1, <3>2, <3>4, <4>1
      <4>2. CASE j = n
        BY <3>1, <3>2, <3>4, <4>2
      <4>3. CASE i # n /\ j # n
        <5>1. i \in 1..(n - 1) /\ j \in 1..(n - 1) /\ e[i] = d[i] /\ e[j] = d[j]
          BY <2>7, <3>1, <4>3
        <5> HIDE DEF e
        <5> QED BY <2>6, <3>4, <5>1
      <4> QED BY <4>1, <4>2, <4>3
    <3> QED BY <3>3, <3>4
  <2>9. Sorted(e)
    <3>1. SUFFICES ASSUME NEW i \in 1..n, NEW j \in 1..n, i < j PROVE rank[e[i]] <= rank[e[j]]
      OBVIOUS
    <3>2. i # n /\ i \in 1..(n - 1) /\ e[i] = d[i]
      BY <1>3, <3>1
    <3>3. CASE j = n
      <4>1. e[j] = x /\ d[i] \in T
        BY <2>6, <3>2, <3>3
      <4> HIDE DEF e
      <4> QED BY <2>3, <3>2, <4>1
    <3>4. CASE j # n
      <4>1. e[j] = d[j] /\ j \in 1..(n - 1)
        BY <2>7, <3>4
      <4>2. rank[d[i]] <= rank[d[j]]
        BY <2>5, <2>6, <3>1, <3>2, <4>1
      <4> HIDE DEF e
      <4> QED BY <3>2, <4>1, <4>2
    <3> QED BY <3>3, <3>4
  <2>10. e \in SetToSeqs(T)
    <3> HIDE DEF e
    <3> QED BY <2>8 DEF SetToSeqs
  <2> HIDE DEF e
  <2> QED BY <2>9, <2>10
<1> QED BY <1>4, <1>5

\* A finite set is listed without repetition.
LEMMA InOrderIs ==
    ASSUME NEW S, IsFiniteSet(S), NEW rank, \A x \in S : rank[x] \in Int
    PROVE  /\ Cardinality(S) \in Nat
           /\ InOrder(S, rank) \in [1..Cardinality(S) -> S]
           /\ IsInjective(InOrder(S, rank))
           /\ \A x \in S : \E i \in 1..Cardinality(S) : InOrder(S, rank)[i] = x
<1> DEFINE n == Cardinality(S)
           D == InOrder(S, rank)
<1>1. n \in Nat
  BY FS_CardinalityType
<1>2. \E d \in SetToSeqs(S) : \A i, j \in DOMAIN d : i < j => rank[d[i]] <= rank[d[j]]
  BY SortedExists
<1>3. D \in SetToSeqs(S)
  BY <1>2 DEF InOrder
<1>4. D \in [1..n -> S] /\ \A i, j \in 1..n : i # j => D[i] # D[j]
  <2> HIDE DEF D
  <2> QED BY <1>3 DEF SetToSeqs
<1>5. D \in Injection(1..n, S) /\ IsInjective(D)
  <2> HIDE DEF D
  <2> QED BY <1>4 DEF Injection, IsInjective
<1>6. IsFiniteSet(1..n) /\ Cardinality(1..n) = n
  <2>1. IsFiniteSet(1..n) /\ Cardinality(1..n) = IF 1 > n THEN 0 ELSE n - 1 + 1
    BY <1>1, FS_Interval
  <2> QED BY <1>1, <2>1
<1>7. D \in Surjection(1..n, S)
  <2> HIDE DEF D
  <2> QED BY <1>1, <1>5, <1>6, FS_Injection
<1>8. \A x \in S : \E i \in 1..n : D[i] = x
  <2> HIDE DEF D
  <2> QED BY <1>7 DEF Surjection
<1> QED BY <1>1, <1>4, <1>5, <1>8

\* The decompositions of a state are finitely many ...
LEMMA CandidatesFinite == ASSUME NEW s \in State PROVE IsFiniteSet(Candidates(s))
<1> DEFINE U == {q \in Rules : q.gate = s.gate /\ q.kind \in {"Decompose", "HardwareNative"} /\ q.generic}
           made(r) == [name |-> r.name, children |-> Bound(s, SelectSeq(r.target, LAMBDA c : c.gate # "GPhase"))]
           f == [r \in U |-> made(r)]
<1>1. IsFiniteSet(U)
  BY LibraryAssumption, FS_Subset
<1>2. RuleCandidates(s) = {f[r] : r \in U}
  <2>1. RuleCandidates(s) = {made(r) : r \in U}
    BY DEF RuleCandidates
  <2> HIDE DEF made, U
  <2> QED BY <2>1
<1>3. f \in [U -> {made(r) : r \in U}]
  <2> HIDE DEF made, U
  <2> QED OBVIOUS
<1>4. IsFiniteSet(RuleCandidates(s))
  <2> HIDE DEF f, U
  <2>1. PICK V : f \in [U -> V]
    BY <1>3
  <2>2. IsFiniteSet({f[r] : r \in U})
    BY <1>1, <2>1, FiniteImage
  <2> QED BY <1>2, <2>2
<1>5. IsFiniteSet(Templates(s))
  <2>1. \A x : IsFiniteSet({x})
    BY FS_Singleton
  <2>2. IsFiniteSet({})
    BY FS_EmptySet
  <2>3. \/ \E x : Templates(s) = {x}
        \/ Templates(s) = {}
    <3> DEFINE back == [gate |-> s.gate, qargs |-> Reverse(s.qargs)]
               dressing == [i \in 1 .. 2 |-> [gate |-> Reversible[s.gate].dress, qargs |-> <<s.qargs[i]>>]]
               x == [name |-> Reversible[s.gate].name, children |-> dressing \o <<back>> \o dressing]
               y == [name |-> Symmetric[s.gate], children |-> <<back>>]
    <3>1. Templates(s) = IF s.gate \in DOMAIN Reversible THEN {x}
                         ELSE IF s.gate \in DOMAIN Symmetric THEN {y} ELSE {}
      BY DEF Templates
    <3> HIDE DEF x, y
    <3> QED BY <3>1
  <2> QED BY <2>1, <2>2, <2>3
<1> QED BY <1>4, <1>5, FS_Union DEF Candidates

\* ... and all of them are listed.
LEMMA DecompositionsAre ==
    ASSUME NEW s \in State
    PROVE  /\ DOMAIN Decompositions(s) = 1..Cardinality(Candidates(s))
           /\ Cardinality(Candidates(s)) \in Nat
           /\ \A i \in DOMAIN Decompositions(s) : Decompositions(s)[i] \in Candidates(s)
           /\ \A d \in Candidates(s) : \E i \in DOMAIN Decompositions(s) : Decompositions(s)[i] = d
<1> DEFINE C == Candidates(s)
           n == Cardinality(C)
           D == Decompositions(s)
           rank == [d \in C |-> d.name]
<1>1. IsFiniteSet(C) /\ \A d \in C : rank[d] \in Int
  BY CandidatesFinite, CandidatesAssumption
<1>2. D = InOrder(C, rank)
  BY DEF Decompositions
<1>3. n \in Nat /\ D \in [1..n -> C] /\ \A d \in C : \E i \in 1..n : D[i] = d
  <2> HIDE DEF C, D, rank
  <2> QED BY <1>1, <1>2, InOrderIs
<1>9. DOMAIN D = 1..n /\ \A i \in DOMAIN D : D[i] \in C
  <2> HIDE DEF D, C
  <2> QED BY <1>3
<1> HIDE DEF D, C
<1>10. DOMAIN D = 1..n /\ n \in Nat /\ (\A i \in DOMAIN D : D[i] \in C) /\ \A d \in C : \E i \in DOMAIN D : D[i] = d
  BY <1>3, <1>9
<1> QED BY <1>10 DEF D, C

\* Two sequences one after the other.
LEMMA GrowIs ==
    ASSUME NEW T, NEW s \in Seq(T), NEW U, NEW t \in Seq(U)
    PROVE  /\ s \o t \in Seq(Range(s \o t))
           /\ Len(s \o t) = Len(s) + Len(t) /\ Len(s) \in Nat /\ Len(t) \in Nat
           /\ DOMAIN (s \o t) = 1..(Len(s) + Len(t))
           /\ DOMAIN s = 1..Len(s) /\ DOMAIN t = 1..Len(t)
           /\ \A i \in DOMAIN s : i \in DOMAIN (s \o t) /\ (s \o t)[i] = s[i]
           /\ \A i \in DOMAIN t : Len(s) + i \in DOMAIN (s \o t) /\ (s \o t)[Len(s) + i] = t[i]
           /\ \A i \in DOMAIN (s \o t) : i \in DOMAIN s \/ \E j \in DOMAIN t : i = Len(s) + j
<1> DEFINE W == T \cup U
           r == s \o t
<1>1. s \in Seq(W) /\ t \in Seq(W)
  BY SeqMonotonic
<1> HIDE DEF W
<1>2. /\ r \in Seq(W) /\ Len(r) = Len(s) + Len(t)
      /\ \A i \in 1 .. Len(s) + Len(t) : r[i] = IF i <= Len(s) THEN s[i] ELSE t[i - Len(s)]
  BY <1>1, ConcatProperties
<1>3. /\ Len(s) \in Nat /\ Len(t) \in Nat
      /\ DOMAIN s = 1..Len(s) /\ DOMAIN t = 1..Len(t) /\ DOMAIN r = 1..Len(r) /\ r \in [1..Len(r) -> W]
  BY <1>1, <1>2, LenProperties
<1> HIDE DEF r
<1>4. r \in Seq(Range(r))
  <2>1. r \in [1..Len(r) -> Range(r)] /\ Len(r) \in Nat
    BY <1>2, <1>3 DEF Range
  <2> QED BY <2>1, SeqDef
<1>5. ASSUME NEW i \in DOMAIN s PROVE i \in DOMAIN r /\ r[i] = s[i]
  BY <1>2, <1>3
<1>6. ASSUME NEW i \in DOMAIN t PROVE Len(s) + i \in DOMAIN r /\ r[Len(s) + i] = t[i]
  <2>1. Len(s) + i \in 1..Len(s) + Len(t) /\ ~ (Len(s) + i <= Len(s)) /\ Len(s) + i - Len(s) = i
    BY <1>3
  <2>2. r[Len(s) + i] = IF Len(s) + i <= Len(s) THEN s[Len(s) + i] ELSE t[Len(s) + i - Len(s)]
    BY <1>2, <2>1
  <2> QED BY <1>2, <1>3, <2>1, <2>2
<1>7. ASSUME NEW i \in DOMAIN r PROVE i \in DOMAIN s \/ \E j \in DOMAIN t : i = Len(s) + j
  <2>1. CASE i <= Len(s)
    BY <1>2, <1>3, <2>1
  <2>2. CASE ~ (i <= Len(s))
    <3>1. i - Len(s) \in DOMAIN t /\ i = Len(s) + (i - Len(s))
      BY <1>2, <1>3, <2>2
    <3> QED BY <3>1
  <2> QED BY <2>1, <2>2
<1>8. DOMAIN r = 1..(Len(s) + Len(t))
  BY <1>2, <1>3
<1>9. r = s \o t
  BY DEF r
<1> QED BY <1>2, <1>3, <1>4, <1>5, <1>6, <1>7, <1>8, <1>9

\* A flattened sequence holds the elements of each of its parts.
LEMMA FlattenHolds ==
    ASSUME NEW T, NEW n \in Nat, NEW ss \in [1..n -> Seq(T)]
    PROVE  /\ FlattenSeq(ss) \in Seq(T)
           /\ \A i \in 1..n : Range(ss[i]) \subseteq Range(FlattenSeq(ss))
<1>1. PICK f \in [0..n -> Seq(T)] : Joins(f, ss, n)
  BY JoinsExists
<1>2. FlattenSeq(ss) = f[n] /\ FlattenSeq(ss) \in Seq(T)
  BY <1>1, FlattenJoins
<1> DEFINE S == {k \in 0..n : \A i \in 1..k : Range(ss[i]) \subseteq Range(f[k])}
<1>3. 0 \in S
  OBVIOUS
<1>4. ASSUME NEW k \in 1..n, k - 1 \in S PROVE k \in S
  <2>1. f[k] = f[k - 1] \o ss[k] /\ f[k - 1] \in Seq(T) /\ ss[k] \in Seq(T)
    <3>1. k - 1 \in 0..n
      OBVIOUS
    <3> QED BY <1>1, <3>1 DEF Joins
  <2>2. Range(f[k - 1]) \subseteq Range(f[k]) /\ Range(ss[k]) \subseteq Range(f[k])
    <3> DEFINE a == f[k - 1]
               b == ss[k]
    <3>1. a \in Seq(T) /\ b \in Seq(T)
      BY <2>1
    <3> HIDE DEF a, b
    <3>2. \A x \in DOMAIN a : x \in DOMAIN (a \o b) /\ (a \o b)[x] = a[x]
      BY <3>1, GrowIs
    <3>3. \A x \in DOMAIN b : Len(a) + x \in DOMAIN (a \o b) /\ (a \o b)[Len(a) + x] = b[x]
      BY <3>1, GrowIs
    <3>4. Range(a) \subseteq Range(a \o b) /\ Range(b) \subseteq Range(a \o b)
      BY <3>2, <3>3 DEF Range
    <3>5. f[k] = a \o b
      BY <2>1 DEF a, b
    <3> QED BY <3>4, <3>5 DEF a, b
  <2>3. \A i \in 1..k : i = k \/ i \in 1..(k - 1)
    OBVIOUS
  <2>4. \A i \in 1..(k - 1) : Range(ss[i]) \subseteq Range(f[k - 1])
    BY <1>4
  <2>5. \A i \in 1..k : Range(ss[i]) \subseteq Range(f[k])
    BY <2>2, <2>3, <2>4
  <2> QED BY <2>5
<1>5. n \in S
  <2> HIDE DEF S
  <2>1. \A k \in 1..n : k - 1 \in S => k \in S
    BY <1>4
  <2>2. \A k \in 0..n : k \in S
    BY <1>3, <2>1, CountUp
  <2> QED BY <2>2
<1> QED BY <1>2, <1>5

\* A sequence goes on as another does.
Continues(a, b) == Len(a) <= Len(b) /\ \A i \in 1..Len(a) : b[i] = a[i]

\* The recursion of Interned.
Interns(f, known, new, n) ==
    f = [i \in 0..n |-> IF i = 0 THEN known
                        ELSE IF new[i] \in Range(f[i - 1]) THEN f[i - 1]
                        ELSE Append(f[i - 1], new[i])]

\* The recursion of Interned has a solution ...
LEMMA InternsExists ==
    ASSUME NEW known, NEW new, NEW n \in Nat
    PROVE  \E f : Interns(f, known, new, n)
<1> DEFINE S == {i \in 0..n : \E f : Interns(f, known, new, i)}
           next(h, j) == IF new[j] \in Range(h[j - 1]) THEN h[j - 1] ELSE Append(h[j - 1], new[j])
<1>1. 0 \in S
  <2> DEFINE f == [i \in 0..0 |-> known]
  <2>1. Interns(f, known, new, 0)
    BY DEF Interns
  <2> HIDE DEF f
  <2> QED BY <2>1
<1>2. ASSUME NEW i \in 1..n, i - 1 \in S PROVE i \in S
  <2>1. PICK g : Interns(g, known, new, i - 1)
    BY <1>2
  <2> DEFINE f == [j \in 0..i |-> IF j = i THEN next(g, i) ELSE g[j]]
  <2>2. g = [j \in 0..(i - 1) |-> IF j = 0 THEN known ELSE next(g, j)]
    BY <2>1 DEF Interns
  <2>3. ASSUME NEW j \in 1..i PROVE next(f, j) = next(g, j)
    <3>1. f[j - 1] = g[j - 1]
      OBVIOUS
    <3> HIDE DEF f
    <3> QED BY <3>1
  <2>4. ASSUME NEW j \in 0..i PROVE f[j] = IF j = 0 THEN known ELSE next(f, j)
    <3>1. CASE j = i
      <4>1. f[j] = next(g, j) /\ j \in 1..i
        BY <3>1
      <4> HIDE DEF f, next
      <4> QED BY <2>3, <4>1
    <3>2. CASE j # i
      <4>1. f[j] = g[j] /\ j \in 0..(i - 1)
        BY <3>2
      <4>2. g[j] = IF j = 0 THEN known ELSE next(g, j)
        <5> HIDE DEF f, next
        <5> QED BY <2>2, <4>1
      <4>3. j # 0 => j \in 1..i
        OBVIOUS
      <4> HIDE DEF f, next
      <4> QED BY <2>3, <4>1, <4>2, <4>3
    <3> QED BY <3>1, <3>2
  <2>5. f = [j \in 0..i |-> IF j = 0 THEN known ELSE next(f, j)]
    <3>1. f = [j \in 0..i |-> f[j]]
      OBVIOUS
    <3> HIDE DEF f, next
    <3> QED BY <2>4, <3>1
  <2>6. Interns(f, known, new, i)
    <3> HIDE DEF f
    <3> QED BY <2>5 DEF Interns
  <2> HIDE DEF f
  <2> QED BY <2>6
<1> HIDE DEF S
<1>3. \A i \in 1..n : i - 1 \in S => i \in S
  BY <1>2
<1>4. \A i \in 0..n : i \in S
  BY <1>1, <1>3, CountUp
<1>5. n \in S
  BY <1>4
<1> QED BY <1>5 DEF S

\* One more state is interned.
LEMMA InternOne ==
    ASSUME NEW a \in Seq(State), IsInjective(a), NEW x \in State, x \notin Range(a)
    PROVE  /\ Append(a, x) \in Seq(State) /\ IsInjective(Append(a, x))
           /\ Range(Append(a, x)) = Range(a) \cup {x}
           /\ Continues(a, Append(a, x))
<1> DEFINE n == Len(a)
           b == Append(a, x)
<1>1. n \in Nat /\ DOMAIN a = 1..n /\ b \in Seq(State) /\ Len(b) = n + 1 /\ DOMAIN b = 1..(n + 1)
  OBVIOUS
<1>2. b[n + 1] = x /\ \A i \in 1..n : b[i] = a[i]
  OBVIOUS
<1> HIDE DEF n, b
<1>3. \A i \in 1..(n + 1) : i = n + 1 \/ i \in 1..n
  BY <1>1
<1>4. n + 1 \in 1..(n + 1) /\ \A i \in 1..n : i \in 1..(n + 1)
  BY <1>1
<1>5. Range(b) = Range(a) \cup {x}
  BY <1>1, <1>2, <1>3, <1>4 DEF Range
<1>6. \A i \in 1..n : a[i] # x
  BY <1>1 DEF Range
<1>7. ASSUME NEW i \in 1..(n + 1), NEW j \in 1..(n + 1), b[i] = b[j] PROVE i = j
  <2>1. CASE i = n + 1 /\ j = n + 1
    BY <2>1
  <2>2. CASE i = n + 1 /\ j \in 1..n
    BY <1>2, <1>6, <1>7, <2>2
  <2>3. CASE i \in 1..n /\ j = n + 1
    BY <1>2, <1>6, <1>7, <2>3
  <2>4. CASE i \in 1..n /\ j \in 1..n
    <3>1. a[i] = a[j]
      BY <1>2, <1>7, <2>4
    <3> QED BY <1>1, <2>4, <3>1 DEF IsInjective
  <2> QED BY <1>3, <2>1, <2>2, <2>3, <2>4
<1>8. IsInjective(b)
  BY <1>1, <1>7 DEF IsInjective
<1>9. Continues(a, b)
  <2>1. Len(a) = n
    BY DEF n
  <2> QED BY <1>1, <1>2, <2>1 DEF Continues
<1> QED BY <1>1, <1>5, <1>8, <1>9 DEF b

\* ... which lists what was known first, and each of the new states once.
LEMMA InternedIs ==
    ASSUME NEW known \in Seq(State), IsInjective(known), NEW new \in Seq(State)
    PROVE  /\ Interned(known, new) \in Seq(State) /\ IsInjective(Interned(known, new))
           /\ Range(Interned(known, new)) = Range(known) \cup Range(new)
           /\ Continues(known, Interned(known, new))
<1> DEFINE n == Len(new)
           f == CHOOSE h : Interns(h, known, new, n)
<1>1. n \in Nat /\ DOMAIN new = 1..n /\ \A i \in 1..n : new[i] \in State
  BY LenProperties, ElementOfSeq
<1>2. Interns(f, known, new, n)
  <2> HIDE DEF n
  <2> QED BY <1>1, InternsExists
<1>3. Interned(known, new) = f[n]
  BY DEF Interned, Interns
<1> HIDE DEF n, f
<1>4. f[0] = known /\ \A i \in 1..n : f[i] = IF new[i] \in Range(f[i - 1]) THEN f[i - 1] ELSE Append(f[i - 1], new[i])
  <2> DEFINE next(i) == IF new[i] \in Range(f[i - 1]) THEN f[i - 1] ELSE Append(f[i - 1], new[i])
  <2>1. f = [i \in 0..n |-> IF i = 0 THEN known ELSE next(i)]
    BY <1>2 DEF Interns
  <2>2. 0 \in 0..n /\ \A i \in 1..n : i \in 0..n /\ i # 0
    BY <1>1
  <2>3. f[0] = known /\ \A i \in 1..n : f[i] = next(i)
    <3> HIDE DEF next
    <3> QED BY <2>1, <2>2
  <2> QED BY <2>3
<1> DEFINE Good(i) == /\ f[i] \in Seq(State) /\ IsInjective(f[i])
                      /\ Range(f[i]) = Range(known) \cup {new[j] : j \in 1..i}
                      /\ Continues(known, f[i])
           S == {i \in 0..n : Good(i)}
<1>5. 0 \in S
  <2>1. Continues(known, known)
    BY LenProperties DEF Continues
  <2>2. {new[j] : j \in 1..0} = {}
    OBVIOUS
  <2> QED BY <1>1, <1>4, <2>1, <2>2
<1>6. ASSUME NEW i \in 1..n, i - 1 \in S PROVE i \in S
  <2>1. Good(i - 1)
    BY <1>6
  <2>2. new[i] \in State
    BY <1>1
  <2>3. {new[j] : j \in 1..i} = {new[j] : j \in 1..(i - 1)} \cup {new[i]}
    <3>1. \A j \in 1..i : j = i \/ j \in 1..(i - 1)
      BY <1>1
    <3>2. i \in 1..i /\ \A j \in 1..(i - 1) : j \in 1..i
      BY <1>1
    <3> QED BY <3>1, <3>2
  <2>4. CASE new[i] \in Range(f[i - 1])
    <3>1. f[i] = f[i - 1]
      BY <1>4, <2>4
    <3>2. Good(i)
      BY <2>1, <2>3, <2>4, <3>1
    <3> QED BY <1>1, <3>2
  <2>5. CASE new[i] \notin Range(f[i - 1])
    <3>1. f[i] = Append(f[i - 1], new[i])
      BY <1>4, <2>5
    <3>2. /\ f[i] \in Seq(State) /\ IsInjective(f[i])
          /\ Range(f[i]) = Range(f[i - 1]) \cup {new[i]}
          /\ Continues(f[i - 1], f[i])
      <4>1. f[i - 1] \in Seq(State) /\ IsInjective(f[i - 1])
        BY <2>1
      <4> DEFINE a == f[i - 1]
                 x == new[i]
      <4>2. a \in Seq(State) /\ IsInjective(a) /\ x \in State /\ x \notin Range(a)
        BY <2>2, <2>5, <4>1
      <4> HIDE DEF a, x
      <4>3. /\ Append(a, x) \in Seq(State) /\ IsInjective(Append(a, x))
            /\ Range(Append(a, x)) = Range(a) \cup {x}
            /\ Continues(a, Append(a, x))
        BY <4>2, InternOne
      <4> QED BY <3>1, <4>3 DEF a, x
    <3>3. Continues(known, f[i])
      <4>1. Len(known) \in Nat /\ Len(f[i - 1]) \in Nat /\ Len(f[i]) \in Nat
        BY <2>1, <3>2, LenProperties
      <4>2. Len(known) <= Len(f[i - 1]) /\ \A j \in 1..Len(known) : f[i - 1][j] = known[j]
        BY <2>1 DEF Continues
      <4>3. Len(f[i - 1]) <= Len(f[i]) /\ \A j \in 1..Len(f[i - 1]) : f[i][j] = f[i - 1][j]
        BY <3>2 DEF Continues
      <4>4. \A j \in 1..Len(known) : j \in 1..Len(f[i - 1])
        BY <4>1, <4>2
      <4> QED BY <4>1, <4>2, <4>3, <4>4 DEF Continues
    <3>4. Good(i)
      BY <2>1, <2>3, <3>2, <3>3
    <3> QED BY <1>1, <3>4
  <2> QED BY <2>4, <2>5
<1>7. Good(n)
  <2>1. n \in S
    <3> HIDE DEF S
    <3>1. \A i \in 1..n : i - 1 \in S => i \in S
      BY <1>6
    <3>2. \A i \in 0..n : i \in S
      BY <1>1, <1>5, <3>1, CountUp
    <3> QED BY <1>1, <3>2
  <2> QED BY <2>1
<1>8. Range(new) = {new[j] : j \in 1..n}
  BY <1>1 DEF Range
<1> QED BY <1>3, <1>7, <1>8

\* The functions between finite sets are finitely many.
LEMMA FunctionsFinite ==
    ASSUME NEW S, IsFiniteSet(S), NEW T, IsFiniteSet(T)
    PROVE  IsFiniteSet([S -> T])
<1> DEFINE graph_(f) == {<<x, f[x]>> : x \in S}
           g == [f \in [S -> T] |-> graph_(f)]
<1>1. IsFiniteSet(SUBSET (S \X T))
  BY FS_Product, FS_SUBSET
<1>2. g \in [[S -> T] -> SUBSET (S \X T)]
  <2>1. \A f \in [S -> T] : graph_(f) \in SUBSET (S \X T)
    OBVIOUS
  <2> HIDE DEF graph_
  <2> QED BY <2>1
<1>3. ASSUME NEW f \in [S -> T], NEW h \in [S -> T], g[f] = g[h] PROVE f = h
  <2>1. graph_(f) = graph_(h)
    <3> HIDE DEF graph_
    <3> QED BY <1>3
  <2>2. ASSUME NEW x \in S PROVE f[x] = h[x]
    <3>1. <<x, f[x]>> \in graph_(h)
      BY <2>1
    <3>2. PICK y \in S : <<x, f[x]>> = <<y, h[y]>>
      BY <3>1
    <3> QED BY <3>2
  <2> QED BY <2>2
<1>4. g \in Injection([S -> T], SUBSET (S \X T))
  <2>1. DOMAIN g = [S -> T]
    BY <1>2
  <2> HIDE DEF g
  <2> QED BY <1>2, <1>3, <2>1 DEF Injection, IsInjective
<1> HIDE DEF g
<1> QED BY <1>1, <1>4, FS_Injection

-----------------------------------------------------------------------------
(* The inductive invariant, first part: what there is *)

ControlOK ==
    /\ native \in [DOMAIN native -> LeafErrors] /\ DOMAIN native \subseteq Natives
    /\ phase \in {"Idle", "Expanding", "Leaves", "Solving", "Done", "Failed"}
    /\ cursor \in Nat \ {0} /\ changed \in BOOLEAN

\* States are interned once, and edges are decompositions among them.
GraphOK ==
    /\ states \in Seq(State) /\ IsInjective(states)
    /\ edges \in Seq(Range(edges))
    /\ \A e \in DOMAIN edges :
          /\ edges[e].parent \in Range(states)
          /\ edges[e].name \in Int
          /\ edges[e].children \in Seq(Range(states))
          /\ \E d \in Candidates(edges[e].parent) :
                d.name = edges[e].name /\ d.children = edges[e].children

\* What may become a plan after those there are.
Below(n) == UNION {nodes[n.children[i]].ancestry : i \in DOMAIN n.children}
PlanOK(n, p) ==
    /\ Costed(n) /\ Keyed(n)
    /\ Range(n.children) \subseteq 1 .. p - 1
    /\ n.state \notin Below(n) /\ n.ancestry = {n.state} \cup Below(n)

NodesOK ==
    /\ nodes \in Seq(Range(nodes)) /\ Len(nodes) <= MaxNodes
    /\ \A p \in Plan : PlanOK(nodes[p], p)

FrontiersOK ==
    /\ frontiers \in [State -> SUBSET Plan]
    /\ \A s \in State : \A p \in frontiers[s] : nodes[p].state = s
    /\ \A s \in State : Cardinality(frontiers[s]) <= MaxFrontier

\* A combination of plans for the children of an edge.
Fits(e, c) ==
    /\ c \in [DOMAIN edges[e].children -> Plan]
    /\ \A i \in DOMAIN c : nodes[c[i]].state = edges[e].children[i]

SearchOK ==
    /\ phase \in {"Leaves", "Solving", "Done"} => DOMAIN explored = DOMAIN edges
    /\ DOMAIN explored \subseteq DOMAIN edges
    /\ \A e \in DOMAIN explored : \A c \in explored[e] : Fits(e, c)
    /\ pending # {} => cursor \in DOMAIN explored /\ pending \subseteq explored[cursor]
    /\ IsFiniteSet(pending)
    /\ phase \in {"Idle", "Expanding"} => nodes = <<>> /\ explored = <<>>
    /\ phase \in {"Idle", "Expanding", "Leaves", "Done"} => pending = {}
    /\ phase = "Done" => cursor > Len(edges)

SelectedOK ==
    /\ DOMAIN selected \subseteq Range(states)
    /\ \A s \in DOMAIN selected : selected[s] \in frontiers[s]
    /\ phase # "Done" => DOMAIN selected = {}
    /\ phase = "Done" => /\ DOMAIN selected = {s \in Range(states) : frontiers[s] # {}}
                         /\ \A s \in DOMAIN selected : \A q \in frontiers[s] :
                               ~ LexLess(Rank(nodes[q]), Rank(nodes[selected[s]]))

Structure == ControlOK /\ GraphOK /\ NodesOK /\ FrontiersOK /\ SearchOK /\ SelectedOK

-----------------------------------------------------------------------------
(* Sequences that grow *)

\* A sequence that continues another.
Joined(s, t) ==
    /\ s \o t \in Seq(Range(s \o t))
    /\ Len(s \o t) = Len(s) + Len(t) /\ Len(s) \in Nat /\ Len(t) \in Nat
    /\ DOMAIN s = 1..Len(s)
    /\ \A i \in DOMAIN s : i \in DOMAIN (s \o t) /\ (s \o t)[i] = s[i]
    /\ \A i \in DOMAIN t : Len(s) + i \in DOMAIN (s \o t) /\ (s \o t)[Len(s) + i] = t[i]

\* What GrowIs says of it, in one word.
LEMMA GrowJoined ==
    ASSUME NEW T, NEW s \in Seq(T), NEW U, NEW t \in Seq(U)
    PROVE  Joined(s, t)
<1>1. /\ s \o t \in Seq(Range(s \o t))
      /\ Len(s \o t) = Len(s) + Len(t) /\ Len(s) \in Nat /\ Len(t) \in Nat
      /\ DOMAIN s = 1..Len(s)
  BY GrowIs
<1>2. /\ \A i \in DOMAIN s : i \in DOMAIN (s \o t) /\ (s \o t)[i] = s[i]
      /\ \A i \in DOMAIN t : Len(s) + i \in DOMAIN (s \o t) /\ (s \o t)[Len(s) + i] = t[i]
  BY GrowIs
<1> QED BY <1>1, <1>2 DEF Joined

\* One plan more.
LEMMA GrowOne ==
    ASSUME NEW s, s \in Seq(Range(s)), NEW x
    PROVE  /\ s \o <<x>> \in Seq(Range(s \o <<x>>))
           /\ Len(s) \in Nat /\ Len(s \o <<x>>) = Len(s) + 1
           /\ DOMAIN s = 1..Len(s)
           /\ \A i \in 1..Len(s) : (s \o <<x>>)[i] = s[i]
           /\ (s \o <<x>>)[Len(s) + 1] = x
           /\ s \o <<x>> # s
<1> DEFINE T == Range(s)
           U == {x}
           t == <<x>>
           r == s \o t
<1>1. s \in Seq(T) /\ t \in Seq(U) /\ Len(t) = 1 /\ DOMAIN t = {1} /\ t[1] = x
  OBVIOUS
<1> HIDE DEF T, U, t
<1>2. /\ r \in Seq(Range(r))
      /\ Len(r) = Len(s) + Len(t) /\ Len(s) \in Nat /\ Len(t) \in Nat
      /\ DOMAIN s = 1..Len(s)
      /\ \A i \in DOMAIN s : i \in DOMAIN r /\ r[i] = s[i]
      /\ \A i \in DOMAIN t : Len(s) + i \in DOMAIN r /\ r[Len(s) + i] = t[i]
  <2>1. Joined(s, t)
    BY <1>1, GrowJoined
  <2> QED BY <2>1 DEF Joined
<1> HIDE DEF r
<1>3. Len(r) = Len(s) + 1 /\ Len(r) # Len(s)
  <2>1. Len(t) = 1 /\ Len(s) \in Nat /\ Len(r) = Len(s) + Len(t)
    BY <1>1, <1>2
  <2>2. Len(r) = Len(s) + 1
    BY <2>1
  <2> QED BY <2>1, <2>2
<1>4. r[Len(s) + 1] = x /\ \A i \in 1..Len(s) : r[i] = s[i]
  <2>1. 1 \in DOMAIN t /\ t[1] = x
    BY <1>1
  <2>2. r[Len(s) + 1] = x
    BY <1>2, <2>1
  <2>3. \A i \in 1..Len(s) : r[i] = s[i]
    BY <1>2
  <2> QED BY <2>2, <2>3
<1>5. r # s
  BY <1>3
<1>6. r = s \o <<x>>
  BY DEF r, t
<1> QED BY <1>2, <1>3, <1>4, <1>5, <1>6

-----------------------------------------------------------------------------
(* Plans of edges *)

\* There are finitely many plans.
LEMMA PlansFinite ==
    ASSUME Structure
    PROVE  /\ Len(nodes) \in Nat /\ DOMAIN nodes = Plan /\ IsFiniteSet(Plan)
           /\ \A s \in State : IsFiniteSet(frontiers[s])
<1>1. Len(nodes) \in Nat /\ DOMAIN nodes = 1..Len(nodes)
  BY LenProperties DEF Structure, NodesOK
<1>2. IsFiniteSet(1..Len(nodes))
  BY <1>1, FS_Interval
<1>3. \A s \in State : IsFiniteSet(frontiers[s])
  BY <1>2, FS_Subset DEF Structure, FrontiersOK, Plan
<1> QED BY <1>1, <1>2, <1>3 DEF Plan

\* The children of an edge are states of the batch on the qubits of its parent.
LEMMA EdgeIs ==
    ASSUME GraphOK, NEW e \in DOMAIN edges
    PROVE  /\ edges[e].parent \in State /\ edges[e].name \in Int
           /\ Len(edges[e].children) \in Nat
           /\ DOMAIN edges[e].children = 1..Len(edges[e].children)
           /\ \A i \in DOMAIN edges[e].children :
                 /\ edges[e].children[i] \in Range(states) /\ edges[e].children[i] \in State
                 /\ Qubits(edges[e].children[i]) \subseteq Qubits(edges[e].parent)
<1> DEFINE s == edges[e].parent
           kids == edges[e].children
<1>1. Range(states) \subseteq State
  <2>1. states \in [1..Len(states) -> State]
    BY LenProperties DEF GraphOK
  <2> QED BY <2>1 DEF Range
<1>2. s \in State /\ edges[e].name \in Int /\ kids \in Seq(Range(states))
  BY <1>1 DEF GraphOK
<1>3. PICK d \in Candidates(s) : d.children = kids
  BY DEF GraphOK
<1>4. kids \in Seq({c \in State : Qubits(c) \subseteq Qubits(s)})
  BY <1>2, <1>3, CandidatesAssumption
<1> HIDE DEF s, kids
<1>5. Len(kids) \in Nat /\ DOMAIN kids = 1..Len(kids)
  BY <1>2, LenProperties
<1>6. ASSUME NEW i \in DOMAIN kids
      PROVE  kids[i] \in Range(states) /\ kids[i] \in State /\ Qubits(kids[i]) \subseteq Qubits(s)
  <2>1. kids[i] \in Range(states)
    BY <1>2, <1>5, ElementOfSeq
  <2>2. kids[i] \in {c \in State : Qubits(c) \subseteq Qubits(s)}
    BY <1>4, <1>5, ElementOfSeq
  <2> QED BY <2>1, <2>2
<1> QED BY <1>2, <1>5, <1>6 DEF s, kids

\* The plan of an edge costs no less than the plans it is made of, and unless
\* it is cyclic it fits to the plans there are.
LEMMA PlannedIs ==
    ASSUME Structure, NEW e \in DOMAIN edges, NEW c, Fits(e, c)
    PROVE  /\ Planned(e, c).state = edges[e].parent
           /\ Planned(e, c).children = c
           /\ Costed(Planned(e, c)) /\ Keyed(Planned(e, c))
           /\ Planned(e, c).cost =
                 Assembled(edges[e].name, [i \in DOMAIN c |-> nodes[c[i]]], Qubits(edges[e].parent)).cost
           /\ \A i \in DOMAIN c : NoWorse(nodes[c[i]].cost, Planned(e, c).cost)
           /\ ~ Cyclic(e, c) => PlanOK(Planned(e, c), Len(nodes) + 1)
<1> DEFINE s == edges[e].parent
           kids == [i \in DOMAIN c |-> nodes[c[i]]]
           n == Len(edges[e].children)
           whole == Assembled(edges[e].name, kids, Qubits(s))
           P == Planned(e, c)
           anc == (UNION {kids[i].ancestry : i \in DOMAIN kids}) \cup {s}
<1>1. /\ s \in State /\ edges[e].name \in Int
      /\ n \in Nat /\ DOMAIN edges[e].children = 1..n
      /\ \A i \in 1..n : Qubits(edges[e].children[i]) \subseteq Qubits(s)
  BY EdgeIs DEF Structure
<1>2. c \in [1..n -> Plan] /\ \A i \in 1..n : nodes[c[i]].state = edges[e].children[i]
  <2>1. DOMAIN edges[e].children = 1..n
    BY <1>1
  <2> HIDE DEF n
  <2> QED BY <2>1 DEF Fits
<1>3. DOMAIN kids = 1..n /\ Len(kids) = n /\ \A i \in 1..n : kids[i] = nodes[c[i]] /\ c[i] \in Plan
  <2>1. DOMAIN c = 1..n /\ \A i \in 1..n : c[i] \in Plan
    BY <1>2
  <2>2. kids = [i \in 1..n |-> nodes[c[i]]]
    BY <2>1
  <2> HIDE DEF n, kids
  <2> QED BY <1>1, <2>1, <2>2
<1>4. \A i \in 1..n : PlanOK(nodes[c[i]], c[i])
  BY <1>3 DEF Structure, NodesOK
<1>5. \A i \in 1..n : Costed(kids[i]) /\ Keyed(kids[i]) /\ Qubits(kids[i].state) \subseteq Qubits(s)
  <2> HIDE DEF kids, n, s
  <2> QED BY <1>1, <1>2, <1>3, <1>4 DEF PlanOK
<1>6. IsFiniteSet(Qubits(s))
  BY <1>1, QubitsFinite
<1>7. /\ CostOn(whole.cost, Qubits(s)) /\ Keyed(whole)
      /\ \A i \in 1..n : NoWorse(kids[i].cost, whole.cost)
  <2> HIDE DEF kids, n, s
  <2> QED BY <1>1, <1>3, <1>5, <1>6, AssembledIs, AssembledKeyed
<1>8. P = [state |-> s, children |-> c, cost |-> whole.cost, steps |-> whole.steps,
           key |-> whole.key, ancestry |-> anc]
  BY DEF Planned
<1> HIDE DEF P, whole, anc
<1>9. P.state = s /\ P.children = c /\ P.cost = whole.cost /\ P.steps = whole.steps
      /\ P.key = whole.key /\ P.ancestry = anc
  BY <1>8
<1>10. Costed(P) /\ Keyed(P)
  <2> HIDE DEF s
  <2> QED BY <1>1, <1>7, <1>9 DEF Costed, Keyed
<1>11. \A i \in DOMAIN c : NoWorse(nodes[c[i]].cost, P.cost)
  <2> HIDE DEF kids, n
  <2> QED BY <1>2, <1>3, <1>7, <1>9
<1>12. ASSUME ~ Cyclic(e, c) PROVE PlanOK(P, Len(nodes) + 1)
  <2>1. Below(P) = UNION {nodes[c[i]].ancestry : i \in DOMAIN c}
    BY <1>9 DEF Below
  <2>2. UNION {kids[i].ancestry : i \in DOMAIN kids} = UNION {nodes[c[i]].ancestry : i \in DOMAIN c}
    <3>1. DOMAIN c = 1..n
      BY <1>2
    <3> HIDE DEF kids, n
    <3> QED BY <1>3, <3>1
  <2>3. s \notin Below(P)
    BY <1>12, <2>1 DEF Cyclic
  <2>4. P.ancestry = {s} \cup Below(P)
    <3> HIDE DEF kids, s
    <3> QED BY <1>9, <2>1, <2>2 DEF anc
  <2>5. Range(P.children) \subseteq 1..((Len(nodes) + 1) - 1)
    <3>1. Len(nodes) \in Nat
      BY PlansFinite
    <3>2. Range(c) \subseteq 1..Len(nodes)
      <4> HIDE DEF n
      <4> QED BY <1>2 DEF Range, Plan
    <3>3. (Len(nodes) + 1) - 1 = Len(nodes)
      BY <3>1
    <3> QED BY <1>9, <3>2, <3>3
  <2> HIDE DEF s
  <2> QED BY <1>9, <1>10, <2>3, <2>4, <2>5 DEF PlanOK
<1>13. P.cost = Assembled(edges[e].name, kids, Qubits(s)).cost
  BY <1>9 DEF whole
<1> QED BY <1>9, <1>10, <1>11, <1>12, <1>13 DEF P

\* Combinations are made of plans for the children, and are finitely many.
LEMMA CombinationsFit ==
    ASSUME Structure, NEW e \in DOMAIN edges
    PROVE  IsFiniteSet(Combinations(e)) /\ \A c \in Combinations(e) : Fits(e, c)
<1> DEFINE kids == edges[e].children
           U == UNION {frontiers[kids[i]] : i \in DOMAIN kids}
<1>1. /\ Len(kids) \in Nat /\ DOMAIN kids = 1..Len(kids)
      /\ \A i \in DOMAIN kids : kids[i] \in State
  BY EdgeIs DEF Structure
<1>2. U \subseteq Plan
  BY <1>1 DEF Structure, FrontiersOK
<1>3. IsFiniteSet(U) /\ IsFiniteSet(DOMAIN kids)
  <2>1. IsFiniteSet(U)
    BY <1>2, PlansFinite, FS_Subset
  <2> QED BY <1>1, <2>1, FS_Interval
<1>4. Combinations(e) = {c \in [DOMAIN kids -> U] : \A i \in DOMAIN kids : c[i] \in frontiers[kids[i]]}
  BY DEF Combinations
<1> HIDE DEF U
<1>5. IsFiniteSet(Combinations(e))
  <2>1. IsFiniteSet([DOMAIN kids -> U])
    BY <1>3, FunctionsFinite
  <2> QED BY <1>4, <2>1, FS_Subset
<1>6. ASSUME NEW c \in Combinations(e) PROVE Fits(e, c)
  <2>1. c \in [DOMAIN kids -> Plan] /\ \A i \in DOMAIN kids : c[i] \in frontiers[kids[i]]
    BY <1>2, <1>4
  <2>2. \A i \in DOMAIN c : nodes[c[i]].state = kids[i]
    BY <1>1, <2>1 DEF Structure, FrontiersOK
  <2> QED BY <2>1, <2>2 DEF Fits
<1> QED BY <1>5, <1>6

\* Plans are ranked by keys, so a state with plans has a best one.
LEMMA BestIs ==
    ASSUME Structure, NEW s \in State, frontiers[s] # {}
    PROVE  /\ Best(s) \in frontiers[s]
           /\ \A q \in frontiers[s] : ~ LexLess(Rank(nodes[q]), Rank(nodes[Best(s)]))
<1> DEFINE key == [p \in Plan |-> Rank(nodes[p])]
<1>1. ASSUME NEW p \in Plan PROVE Rank(nodes[p]) \in Seq(Int)
  <2>1. Costed(nodes[p]) /\ Keyed(nodes[p])
    BY DEF Structure, NodesOK, PlanOK
  <2>2. Objective(nodes[p].cost) \in Seq(Int)
    BY <2>1, QubitsFinite, ObjectiveIs DEF Costed
  <2>3. <<nodes[p].steps>> \in Seq(Int) /\ nodes[p].key \in Seq(Int)
    BY <2>1 DEF Keyed
  <2>4. Tie(nodes[p]) \in Seq(Int)
    BY <2>3, ConcatProperties DEF Tie
  <2> QED BY <2>2, <2>4, ConcatProperties DEF Rank
<1>2. frontiers[s] \subseteq Plan /\ IsFiniteSet(frontiers[s])
  BY PlansFinite DEF Structure, FrontiersOK
<1>3. PICK p \in frontiers[s] : \A q \in frontiers[s] : ~ LexLess(key[q], key[p])
  <2>1. \A q \in frontiers[s] : key[q] \in Seq(Int)
    BY <1>1, <1>2
  <2> HIDE DEF key
  <2> QED BY <1>2, <2>1, LeastKey
<1>4. \A q \in frontiers[s] : ~ LexLess(Rank(nodes[q]), Rank(nodes[p]))
  BY <1>2, <1>3
<1> QED BY <1>4 DEF Best

-----------------------------------------------------------------------------
(* Inserting a plan *)

\* No plan is forgotten.
NodesGrow == Plan \subseteq Plan' /\ \A p \in Plan : nodes'[p] = nodes[p]

Retained(new) == {p \in frontiers[new.state] : ~ Displaces(new, nodes[p])}
Refused(new) ==
    /\ \E p \in frontiers[new.state] : Obstructs(nodes[p], new)
    /\ UNCHANGED <<phase, plans>>
OverLimit == phase' = "Failed" /\ UNCHANGED plans
Accepted(new) ==
    /\ UNCHANGED phase
    /\ Cardinality(Retained(new)) + 1 <= MaxFrontier /\ Len(nodes) + 1 <= MaxNodes
    /\ nodes' = nodes \o <<new>>
    /\ frontiers' = [frontiers EXCEPT ![new.state] = Retained(new) \cup {Len(nodes) + 1}]

\* insert_candidate refuses a plan, fails at a limit or accepts the plan.
LEMMA InsertIs ==
    ASSUME Structure, NEW new, new.state \in State, Insert(new)
    PROVE  Refused(new) \/ OverLimit \/ Accepted(new)
<1>1. Cardinality(Retained(new)) \in Nat /\ Len(nodes) \in Nat
  <2>1. IsFiniteSet(frontiers[new.state])
    BY PlansFinite
  <2>2. IsFiniteSet(Retained(new))
    BY <2>1, FS_Subset DEF Retained
  <2> QED BY <2>2, FS_CardinalityType, PlansFinite
<1>2. MaxFrontier \in Nat /\ MaxNodes \in Nat
  BY LimitAssumption
<1>3. ASSUME ~ (Cardinality(Retained(new)) + 1 > MaxFrontier \/ Len(nodes) + 1 > MaxNodes)
      PROVE  Cardinality(Retained(new)) + 1 <= MaxFrontier /\ Len(nodes) + 1 <= MaxNodes
  BY <1>1, <1>2, <1>3
<1> QED BY <1>3 DEF Insert, Refused, OverLimit, Accepted, Retained

\* A plan that is accepted is the last of the arena.
LEMMA AcceptedGrows ==
    ASSUME Structure, NEW new, Accepted(new)
    PROVE  /\ NodesGrow /\ nodes' \in Seq(Range(nodes'))
           /\ Len(nodes') = Len(nodes) + 1 /\ Len(nodes) \in Nat
           /\ nodes'[Len(nodes) + 1] = new
           /\ Plan' = Plan \cup {Len(nodes) + 1} /\ Len(nodes) + 1 \notin Plan
           /\ nodes' # nodes
<1> DEFINE r == nodes \o <<new>>
           n == Len(nodes)
<1>1. nodes \in Seq(Range(nodes))
  BY DEF Structure, NodesOK
<1>2. /\ r \in Seq(Range(r)) /\ n \in Nat /\ Len(r) = n + 1
      /\ \A i \in 1..n : r[i] = nodes[i]
      /\ r[n + 1] = new /\ r # nodes
  BY <1>1, GrowOne
<1>3. nodes' = r
  BY DEF Accepted
<1> HIDE DEF r
<1>4. Plan = 1..n /\ Plan' = 1..Len(r)
  BY <1>3 DEF Plan
<1> HIDE DEF n
<1>5. 1..Len(r) = (1..n) \cup {n + 1} /\ n + 1 \notin 1..n
  <2>1. Len(r) = n + 1 /\ n \in Nat
    BY <1>2
  <2> QED BY <2>1
<1>6. NodesGrow
  BY <1>2, <1>3, <1>4, <1>5 DEF NodesGrow
<1>7. nodes' \in Seq(Range(nodes')) /\ Len(nodes') = n + 1 /\ nodes'[n + 1] = new /\ nodes' # nodes
  BY <1>2, <1>3
<1> QED BY <1>2, <1>4, <1>5, <1>6, <1>7 DEF n

\* What could be a plan still can be.
LEMMA PlanStays ==
    ASSUME NodesGrow, Len(nodes) \in Nat, NEW p \in 1..(Len(nodes) + 1), NEW n, PlanOK(n, p)
    PROVE  PlanOK(n, p)' /\ Below(n)' = Below(n)
<1>1. \A i \in DOMAIN n.children : n.children[i] \in Plan
  <2>1. \A i \in DOMAIN n.children : n.children[i] \in Range(n.children)
    BY DEF Range
  <2>2. (1 .. p - 1) \subseteq Plan
    BY DEF Plan
  <2> QED BY <2>1, <2>2 DEF PlanOK
<1>2. \A i \in DOMAIN n.children : nodes'[n.children[i]] = nodes[n.children[i]]
  BY <1>1 DEF NodesGrow
<1>3. Below(n)' = Below(n)
  BY <1>2 DEF Below
<1> QED BY <1>3 DEF PlanOK

\* When no plan is inserted, plans and frontiers keep their shape.
LEMMA PlansUnchanged ==
    ASSUME NodesOK, FrontiersOK, nodes' = nodes, frontiers' = frontiers
    PROVE  NodesOK' /\ FrontiersOK' /\ NodesGrow
<1>1. Plan' = Plan
  BY DEF Plan
<1>2. ASSUME NEW p \in Plan PROVE PlanOK(nodes[p], p)'
  <2>1. PICK n : n = nodes[p]
    OBVIOUS
  <2>2. PlanOK(n, p) /\ Below(n)' = Below(n)
    BY <2>1 DEF NodesOK, Below
  <2>3. PlanOK(n, p)'
    BY <2>2 DEF PlanOK
  <2>4. n = nodes'[p]
    BY <2>1
  <2> QED BY <2>3, <2>4
<1>3. NodesOK'
  BY <1>1, <1>2 DEF NodesOK
<1>4. FrontiersOK'
  BY <1>1 DEF FrontiersOK
<1> QED BY <1>1, <1>3, <1>4 DEF NodesGrow

\* A plan that is inserted keeps the plans and frontiers in shape.
LEMMA InsertKeeps ==
    ASSUME Structure, NEW new, PlanOK(new, Len(nodes) + 1), Insert(new)
    PROVE  NodesOK' /\ FrontiersOK' /\ NodesGrow
<1> DEFINE s == new.state
           n == Len(nodes)
<1>1. s \in State /\ n \in Nat
  BY PlansFinite DEF PlanOK, Costed
<1>2. CASE UNCHANGED plans
  <2>1. nodes' = nodes /\ frontiers' = frontiers
    BY <1>2 DEF plans
  <2> QED BY <2>1, PlansUnchanged DEF Structure
<1>3. CASE Accepted(new)
  <2>1. /\ NodesGrow /\ nodes' \in Seq(Range(nodes')) /\ Len(nodes') = n + 1
        /\ nodes'[n + 1] = new /\ Plan' = Plan \cup {n + 1} /\ n + 1 \notin Plan
    BY <1>3, AcceptedGrows
  <2>2. Plan = 1..n
    BY DEF Plan
  <2> HIDE DEF s, n
  <2>3. ASSUME NEW p \in Plan' PROVE PlanOK(nodes[p], p)'
    <3>1. CASE p = n + 1
      <4>1. p \in 1..(n + 1) /\ PlanOK(new, p)
        BY <1>1, <3>1 DEF n
      <4>2. PlanOK(new, p)'
        BY <1>1, <2>1, <4>1, PlanStays DEF n
      <4>3. nodes'[p] = new
        BY <2>1, <3>1
      <4> QED BY <4>2, <4>3
    <3>2. CASE p \in Plan
      <4>1. PlanOK(nodes[p], p) /\ nodes'[p] = nodes[p]
        BY <2>1, <3>2 DEF Structure, NodesOK, NodesGrow
      <4>2. p \in 1..(n + 1)
        BY <1>1, <2>2, <3>2
      <4> DEFINE k == nodes[p]
      <4>3. k' = k
        BY <4>1
      <4> QED BY <1>1, <2>1, <4>1, <4>2, PlanStays DEF n
    <3> QED BY <2>1, <3>1, <3>2
  <2>4. NodesOK'
    <3>1. Len(nodes') <= MaxNodes
      BY <1>3, <2>1 DEF Accepted, n
    <3> QED BY <2>1, <2>3, <3>1 DEF NodesOK
  <2>5. FrontiersOK'
    <3> DEFINE K == Retained(new)
    <3>1. frontiers' = [frontiers EXCEPT ![s] = K \cup {n + 1}] /\ Cardinality(K) + 1 <= MaxFrontier
      BY <1>3 DEF Accepted, s, n
    <3>2. K \subseteq frontiers[s]
      BY DEF Retained, s
    <3> HIDE DEF K
    <3>3. frontiers \in [State -> SUBSET Plan]
      BY DEF Structure, FrontiersOK
    <3>4. frontiers' \in [State -> SUBSET (Plan')]
      BY <1>1, <2>1, <3>1, <3>2, <3>3
    <3>5. ASSUME NEW r \in State, NEW p \in frontiers'[r] PROVE nodes'[p].state = r
      <4>1. CASE p \in frontiers[r]
        <5>1. p \in Plan /\ nodes[p].state = r
          BY <3>3, <4>1 DEF Structure, FrontiersOK
        <5> QED BY <2>1, <5>1 DEF NodesGrow
      <4>2. CASE r = s /\ p = n + 1
        BY <2>1, <4>2 DEF s
      <4> QED BY <1>1, <3>1, <3>2, <3>3, <3>5, <4>1, <4>2
    <3>6. ASSUME NEW r \in State PROVE Cardinality(frontiers'[r]) <= MaxFrontier
      <4>1. CASE r = s
        <5>1. IsFiniteSet(K) /\ n + 1 \notin K
          <6>1. IsFiniteSet(frontiers[s])
            BY <1>1, PlansFinite
          <6>2. K \subseteq Plan
            BY <1>1, <3>2, <3>3
          <6> QED BY <2>1, <3>2, <6>1, <6>2, FS_Subset
        <5>2. Cardinality(K \cup {n + 1}) = Cardinality(K) + 1
          BY <5>1, FS_AddElement
        <5>3. frontiers'[r] = K \cup {n + 1}
          BY <1>1, <3>1, <3>3, <4>1
        <5> QED BY <3>1, <5>2, <5>3
      <4>2. CASE r # s
        <5>1. frontiers'[r] = frontiers[r]
          BY <3>1, <3>3, <4>2
        <5> QED BY <5>1 DEF Structure, FrontiersOK
      <4> QED BY <4>1, <4>2
    <3> QED BY <3>4, <3>5, <3>6 DEF FrontiersOK
  <2> QED BY <2>1, <2>4, <2>5
<1> QED BY <1>1, <1>2, <1>3, InsertIs DEF Refused, OverLimit

\* The native plan of a state.
LeafPlan(s) == [state |-> s, children |-> <<>>, cost |-> LeafCost(s), steps |-> 0,
                key |-> <<NativeName>>, ancestry |-> {s}]

\* The plan of a native instruction is one.
LEMMA LeafIs ==
    ASSUME ControlOK, NEW s \in DOMAIN native
    PROVE  s \in State /\ CostOn(LeafCost(s), Qubits(s)) /\ \A p \in Nat : PlanOK(LeafPlan(s), p)
<1> DEFINE Q == Qubits(s)
           two == IF Len(s.qargs) = 2 THEN 1 ELSE 0
           L == Layer(Q, 1)
           T == IF two = 1 THEN Layer(Q, 1) ELSE Untouched(Q)
<1>1. s \in State /\ native[s] \in Nat
  BY LibraryAssumption, LimitAssumption DEF ControlOK
<1>2. Profile(L, Q)
  BY DEF Profile, Layer
<1>3. Profile(Untouched(Q), Q)
  <2>1. CostOn(NoCost(Q), Q) /\ NoCost(Q).depth = Untouched(Q)
    BY NoCostIs DEF NoCost
  <2> QED BY <2>1 DEF CostOn
<1>4. LeafCost(s) = [two |-> two, ops |-> 1, error |-> native[s], depth |-> L, twoDepth |-> T]
  BY DEF LeafCost
<1>5. Profile(T, Q)
  <2> HIDE DEF L, two
  <2> QED BY <1>2, <1>3 DEF L
<1>6. two \in Nat
  OBVIOUS
<1> HIDE DEF Q, two, L, T
<1>7. CostOn(LeafCost(s), Q)
  BY <1>1, <1>2, <1>4, <1>5, <1>6 DEF CostOn
<1>8. Costed(LeafPlan(s)) /\ LeafPlan(s).state = s
  BY <1>1, <1>7 DEF Costed, LeafPlan, Q
<1>9. Keyed(LeafPlan(s))
  <2>1. <<NativeName>> \in Seq(Int)
    BY LibraryAssumption
  <2>2. LeafPlan(s).key = <<NativeName>> /\ LeafPlan(s).steps = 0
    BY DEF LeafPlan
  <2>3. LeafPlan(s).key \in Seq(Int)
    BY <2>1, <2>2, Zenon
  <2> QED BY <2>2, <2>3 DEF Keyed
<1>10. ASSUME NEW p \in Nat PROVE PlanOK(LeafPlan(s), p)
  <2>1. LeafPlan(s).children = <<>> /\ LeafPlan(s).ancestry = {s}
    BY DEF LeafPlan
  <2>2. DOMAIN LeafPlan(s).children = {}
    BY <2>1
  <2>3. Below(LeafPlan(s)) = {} /\ Range(LeafPlan(s).children) = {}
    BY <2>2 DEF Below, Range
  <2> QED BY <1>8, <1>9, <2>1, <2>3 DEF PlanOK
<1> QED BY <1>1, <1>7, <1>10 DEF Q

-----------------------------------------------------------------------------
(* What there is stays in shape *)

\* The states of a batch are listed once.
LEMMA RootsListed ==
    ASSUME NEW R \in RootBatches, NEW L, L = InOrder(R, [s \in R |-> CHOOSE i \in DOMAIN States : States[i] = s])
    PROVE  L \in Seq(State) /\ IsInjective(L) /\ Range(L) = R
<1> DEFINE rank == [s \in R |-> CHOOSE i \in DOMAIN States : States[i] = s]
           n == Cardinality(R)
<1>1. R \subseteq State
  BY LibraryAssumption
<1>2. DOMAIN States = 1..Len(States) /\ Len(States) \in Nat
  BY StatesAssumption, LenProperties
<1>3. IsFiniteSet(R)
  <2>1. IsFiniteSet(1..Len(States)) /\ States \in [1..Len(States) -> State]
    <3>1. IsFiniteSet(1..Len(States))
      BY <1>2, FS_Interval
    <3>2. States \in [1..Len(States) -> State]
      BY StatesAssumption, LenProperties
    <3> QED BY <3>1, <3>2
  <2>2. IsFiniteSet({States[i] : i \in 1..Len(States)})
    BY <2>1, FiniteImage
  <2>3. State = {States[i] : i \in 1..Len(States)}
    BY <1>2 DEF State, Range
  <2> QED BY <1>1, <2>2, <2>3, FS_Subset
<1>4. ASSUME NEW s \in R PROVE rank[s] \in Int
  <2>1. \E i \in DOMAIN States : States[i] = s
    BY <1>1 DEF State, Range
  <2>2. (CHOOSE i \in DOMAIN States : States[i] = s) \in DOMAIN States
    BY <2>1
  <2>3. rank[s] = CHOOSE i \in DOMAIN States : States[i] = s
    OBVIOUS
  <2> HIDE DEF rank
  <2> QED BY <1>2, <2>2, <2>3
<1>5. L = InOrder(R, rank)
  OBVIOUS
<1> HIDE DEF rank
<1>6. n \in Nat /\ L \in [1..n -> R] /\ IsInjective(L) /\ \A x \in R : \E i \in 1..n : L[i] = x
  <2> DEFINE D == InOrder(R, rank)
  <2>1. n \in Nat /\ D \in [1..n -> R] /\ IsInjective(D) /\ \A x \in R : \E i \in 1..n : D[i] = x
    BY <1>3, <1>4, InOrderIs
  <2>2. L = D
    BY <1>5
  <2> HIDE DEF D, n
  <2> QED BY <2>1, <2>2
<1> HIDE DEF n
<1>7. L \in Seq(State)
  <2>1. L \in [1..n -> State]
    BY <1>1, <1>6
  <2> QED BY <1>6, <2>1, SeqDef
<1>8. Range(L) = R
  BY <1>6 DEF Range
<1> QED BY <1>6, <1>7, <1>8

\* Initially there is nothing out of shape.
LEMMA StructureInit == ASSUME PlannerInit PROVE Structure
<1>1. ControlOK
  <2>1. PICK S \in SUBSET Natives : native \in [S -> LeafErrors]
    BY DEF PlannerInit
  <2>2. DOMAIN native = S
    BY <2>1
  <2>3. changed \in BOOLEAN
    BY Zenon DEF PlannerInit
  <2>4. cursor \in Nat \ {0} /\ phase = "Idle"
    BY DEF PlannerInit
  <2> QED BY <2>1, <2>2, <2>3, <2>4 DEF ControlOK
<1>2. GraphOK
  <2>1. states = <<>> /\ edges = <<>>
    BY DEF PlannerInit
  <2>2. states \in Seq(State) /\ IsInjective(states) /\ DOMAIN edges = {} /\ edges \in Seq(Range(edges))
    BY <2>1 DEF IsInjective
  <2> QED BY <2>2 DEF GraphOK
<1>3. NodesOK
  <2>1. nodes = <<>> /\ nodes \in Seq(Range(nodes)) /\ Len(nodes) = 0 /\ Plan = {}
    BY DEF PlannerInit, Plan
  <2> QED BY <2>1, LimitAssumption DEF NodesOK
<1>4. FrontiersOK
  <2>1. frontiers = [s \in State |-> {}] /\ Cardinality({}) = 0
    BY FS_EmptySet DEF PlannerInit
  <2> QED BY <2>1, LimitAssumption DEF FrontiersOK
<1>5. SearchOK
  <2>1. /\ phase = "Idle" /\ explored = <<>> /\ edges = <<>> /\ pending = {} /\ nodes = <<>>
        /\ IsFiniteSet(pending)
    BY FS_EmptySet DEF PlannerInit
  <2>2. DOMAIN explored = {} /\ DOMAIN edges = {}
    BY <2>1
  <2> QED BY <2>1, <2>2 DEF SearchOK
<1>6. SelectedOK
  BY DEF PlannerInit, SelectedOK
<1> QED BY <1>1, <1>2, <1>3, <1>4, <1>5, <1>6 DEF Structure

\* A batch begins with its roots and nothing else.
LEMMA BeginKeeps ==
    ASSUME Structure, NEW R \in RootBatches, Begin(R)
    PROVE  Structure'
<1>1. /\ native' = native /\ phase' = "Expanding" /\ cursor' = 1 /\ changed' = FALSE
      /\ edges' = <<>> /\ nodes' = <<>> /\ frontiers' = [s \in State |-> {}]
      /\ explored' = <<>> /\ pending' = {} /\ DOMAIN selected' = {}
      /\ states' = InOrder(R, [s \in R |-> CHOOSE i \in DOMAIN States : States[i] = s])
  BY DEF Begin
<1>2. ControlOK'
  <2>1. changed' \in BOOLEAN
    BY <1>1, Zenon
  <2>2. cursor' \in Nat \ {0}
    BY <1>1
  <2> QED BY <1>1, <2>1, <2>2 DEF Structure, ControlOK
<1>3. GraphOK'
  <2>1. states' \in Seq(State) /\ IsInjective(states')
    BY <1>1, RootsListed
  <2>2. DOMAIN edges' = {} /\ edges' \in Seq(Range(edges'))
    BY <1>1
  <2> QED BY <2>1, <2>2 DEF GraphOK
<1>4. NodesOK'
  <2>1. nodes' \in Seq(Range(nodes')) /\ Len(nodes') = 0 /\ Plan' = {}
    BY <1>1 DEF Plan
  <2> QED BY <2>1, LimitAssumption DEF NodesOK
<1>5. FrontiersOK'
  <2>1. Cardinality({}) = 0
    BY FS_EmptySet
  <2> QED BY <1>1, <2>1, LimitAssumption DEF FrontiersOK
<1>6. SearchOK'
  <2>1. DOMAIN explored' = {} /\ DOMAIN edges' = {} /\ IsFiniteSet(pending')
    BY <1>1, FS_EmptySet
  <2> QED BY <1>1, <2>1 DEF SearchOK
<1>7. SelectedOK'
  BY <1>1 DEF SelectedOK
<1> QED BY <1>2, <1>3, <1>4, <1>5, <1>6, <1>7 DEF Structure

\* The edges of a state in a graph.
EdgesOf(s) == [i \in DOMAIN Decompositions(s) |->
                 [parent |-> s, name |-> Decompositions(s)[i].name,
                  children |-> Decompositions(s)[i].children]]

\* Expanding a state interns its children and adds all of its edges.
LEMMA ExpandIs ==
    ASSUME Structure, Expand, cursor <= Len(states), NEW s, s = states[cursor]
    PROVE  /\ s \in State
           /\ edges' = edges \o EdgesOf(s)
           /\ states' \in Seq(State) /\ IsInjective(states') /\ Continues(states, states')
           /\ edges \in Seq(Range(edges)) /\ EdgesOf(s) \in Seq(Range(EdgesOf(s)))
           /\ \A i \in DOMAIN EdgesOf(s) :
                 /\ EdgesOf(s)[i].parent = s /\ EdgesOf(s)[i].name \in Int
                 /\ EdgesOf(s)[i].children \in Seq(Range(states'))
                 /\ \E d \in Candidates(s) : d.name = EdgesOf(s)[i].name /\ d.children = EdgesOf(s)[i].children
           /\ \A d \in Candidates(s) : \E i \in DOMAIN EdgesOf(s) : EdgesOf(s)[i].children = d.children
           /\ Range(states) \subseteq Range(states')
<1> DEFINE new == EdgesOf(s)
           n == Cardinality(Candidates(s))
           kids == [i \in DOMAIN new |-> new[i].children]
<1>1. /\ edges' = edges \o new
      /\ states' = Interned(states, FlattenSeq(kids))
  BY DEF Expand, EdgesOf
<1>2. states \in Seq(State) /\ IsInjective(states) /\ edges \in Seq(Range(edges)) /\ cursor \in Nat \ {0}
  BY DEF Structure, GraphOK, ControlOK
<1>3. s \in State
  BY <1>2, LenProperties, ElementOfSeq
<1>4. /\ DOMAIN Decompositions(s) = 1..n /\ n \in Nat
      /\ \A i \in DOMAIN Decompositions(s) : Decompositions(s)[i] \in Candidates(s)
      /\ \A d \in Candidates(s) : \E i \in DOMAIN Decompositions(s) : Decompositions(s)[i] = d
  BY <1>3, DecompositionsAre
<1>5. /\ DOMAIN new = 1..n
      /\ \A i \in 1..n : /\ new[i].parent = s /\ new[i].name = Decompositions(s)[i].name
                         /\ new[i].children = Decompositions(s)[i].children
  <2> HIDE DEF n
  <2> QED BY <1>4 DEF EdgesOf
<1> HIDE DEF new, n
<1>6. new \in Seq(Range(new))
  <2>1. new = [i \in DOMAIN new |-> new[i]]
    BY DEF new, EdgesOf
  <2>2. new \in [1..n -> Range(new)]
    BY <1>5, <2>1 DEF Range
  <2> QED BY <1>4, <2>2, SeqDef
<1>7. \A i \in 1..n : new[i].name \in Int /\ new[i].children \in Seq(State)
  <2>1. \A d \in Candidates(s) : d.name \in Int /\ d.children \in Seq(State)
    <3>1. ASSUME NEW d \in Candidates(s) PROVE d.name \in Int /\ d.children \in Seq(State)
      <4>1. d.name \in Int /\ d.children \in Seq({c \in State : Qubits(c) \subseteq Qubits(s)})
        BY <1>3, CandidatesAssumption
      <4>2. {c \in State : Qubits(c) \subseteq Qubits(s)} \subseteq State
        OBVIOUS
      <4>3. d.children \in Seq(State)
        BY <4>1, <4>2, SeqMonotonic
      <4> QED BY <4>1, <4>3
    <3> QED BY <3>1
  <2> QED BY <1>4, <1>5, <2>1
<1>8. kids \in [1..n -> Seq(State)] /\ \A i \in 1..n : kids[i] = new[i].children
  <2>1. kids = [i \in 1..n |-> new[i].children]
    BY <1>5
  <2> HIDE DEF kids
  <2> QED BY <1>7, <2>1
<1> HIDE DEF kids
<1>9. FlattenSeq(kids) \in Seq(State) /\ \A i \in 1..n : Range(kids[i]) \subseteq Range(FlattenSeq(kids))
  BY <1>4, <1>8, FlattenHolds
<1>10. /\ states' \in Seq(State) /\ IsInjective(states') /\ Continues(states, states')
       /\ Range(states') = Range(states) \cup Range(FlattenSeq(kids))
  BY <1>1, <1>2, <1>9, InternedIs
<1>11. ASSUME NEW i \in 1..n PROVE new[i].children \in Seq(Range(states'))
  <2>1. Range(kids[i]) \subseteq Range(states')
    BY <1>9, <1>10
  <2>2. kids[i] \in Seq(State)
    BY <1>8
  <2>3. Len(kids[i]) \in Nat /\ kids[i] \in [1..Len(kids[i]) -> State]
    BY <2>2, LenProperties
  <2>4. kids[i] \in [1..Len(kids[i]) -> Range(states')]
    BY <2>1, <2>3 DEF Range
  <2>5. kids[i] \in Seq(Range(states'))
    BY <2>3, <2>4, SeqDef
  <2> QED BY <1>8, <2>5
<1>12. ASSUME NEW i \in DOMAIN new
       PROVE  /\ new[i].parent = s /\ new[i].name \in Int
              /\ new[i].children \in Seq(Range(states'))
              /\ \E d \in Candidates(s) : d.name = new[i].name /\ d.children = new[i].children
  BY <1>4, <1>5, <1>7, <1>11
<1>13. ASSUME NEW d \in Candidates(s) PROVE \E i \in DOMAIN new : new[i].children = d.children
  BY <1>4, <1>5
<1>14. Range(states) \subseteq Range(states')
  BY <1>10
<1> QED BY <1>1, <1>2, <1>3, <1>6, <1>10, <1>12, <1>13, <1>14 DEF new

\* A combination of plans still is one when there are more.
LEMMA FitsStays ==
    ASSUME NodesGrow, NEW e \in DOMAIN edges, e \in DOMAIN edges', edges'[e] = edges[e], NEW c, Fits(e, c)
    PROVE  Fits(e, c)'
<1>1. c \in [DOMAIN edges[e].children -> Plan] /\ \A i \in DOMAIN c : nodes[c[i]].state = edges[e].children[i]
  BY DEF Fits
<1>2. c \in [DOMAIN edges'[e].children -> Plan']
  BY <1>1 DEF NodesGrow
<1>3. \A i \in DOMAIN c : nodes'[c[i]].state = edges'[e].children[i]
  BY <1>1 DEF NodesGrow
<1> QED BY <1>2, <1>3 DEF Fits

\* Expanding a state keeps the shape of states and edges.
LEMMA ExpandKeeps ==
    ASSUME Structure, Expand
    PROVE  Structure'
<1> USE DEF Structure
<1>1. /\ phase = "Expanding" /\ nodes' = nodes /\ frontiers' = frontiers
      /\ native' = native /\ pending' = pending /\ changed' = changed /\ selected' = selected
  BY DEF Expand, plans
<1>2. NodesOK' /\ FrontiersOK'
  BY <1>1, PlansUnchanged
<1>3. nodes = <<>> /\ explored = <<>> /\ pending = {} /\ DOMAIN explored = {} /\ DOMAIN selected = {}
  <2>1. nodes = <<>> /\ explored = <<>> /\ pending = {} /\ DOMAIN selected = {}
    BY <1>1 DEF SearchOK, SelectedOK
  <2> QED BY <2>1
<1>4. CASE cursor <= Len(states)
  <2> DEFINE s == states[cursor]
             new == EdgesOf(s)
  <2>1. phase' = phase /\ cursor' = cursor + 1 /\ explored' = explored
    BY <1>4 DEF Expand
  <2>2. /\ edges' = edges \o new
        /\ states' \in Seq(State) /\ IsInjective(states')
        /\ edges \in Seq(Range(edges)) /\ new \in Seq(Range(new))
        /\ \A i \in DOMAIN new :
              /\ new[i].parent = s /\ new[i].name \in Int
              /\ new[i].children \in Seq(Range(states'))
              /\ \E d \in Candidates(s) : d.name = new[i].name /\ d.children = new[i].children
        /\ Range(states) \subseteq Range(states')
    BY <1>4, ExpandIs
  <2>3. s \in Range(states)
    <3>1. cursor \in DOMAIN states
      BY <1>4, LenProperties DEF ControlOK, GraphOK
    <3> QED BY <3>1 DEF Range
  <2> HIDE DEF s, new
  <2>4. /\ edges' \in Seq(Range(edges'))
        /\ \A i \in DOMAIN edges : i \in DOMAIN edges' /\ edges'[i] = edges[i]
        /\ \A i \in DOMAIN new : Len(edges) + i \in DOMAIN edges' /\ edges'[Len(edges) + i] = new[i]
        /\ \A i \in DOMAIN edges' : i \in DOMAIN edges \/ \E j \in DOMAIN new : i = Len(edges) + j
    BY <2>2, GrowIs
  <2>5. ASSUME NEW e \in DOMAIN edges'
        PROVE  /\ edges'[e].parent \in Range(states')
               /\ edges'[e].name \in Int
               /\ edges'[e].children \in Seq(Range(states'))
               /\ \E d \in Candidates(edges'[e].parent) :
                     d.name = edges'[e].name /\ d.children = edges'[e].children
    <3>1. CASE e \in DOMAIN edges
      <4>1. /\ edges[e].parent \in Range(states)
            /\ edges[e].name \in Int
            /\ edges[e].children \in Seq(Range(states))
            /\ \E d \in Candidates(edges[e].parent) :
                  d.name = edges[e].name /\ d.children = edges[e].children
        BY <3>1 DEF GraphOK
      <4>2. edges[e].children \in Seq(Range(states'))
        BY <2>2, <4>1, SeqMonotonic
      <4> QED BY <2>2, <2>4, <3>1, <4>1, <4>2
    <3>2. ASSUME NEW j \in DOMAIN new, e = Len(edges) + j
          PROVE  /\ edges'[e].parent \in Range(states')
                 /\ edges'[e].name \in Int
                 /\ edges'[e].children \in Seq(Range(states'))
                 /\ \E d \in Candidates(edges'[e].parent) :
                       d.name = edges'[e].name /\ d.children = edges'[e].children
      <4>1. edges'[e] = new[j]
        BY <2>4, <3>2
      <4> QED BY <2>2, <2>3, <4>1
    <3> QED BY <2>4, <3>1, <3>2
  <2>6. GraphOK'
    BY <2>2, <2>4, <2>5 DEF GraphOK
  <2>7. ControlOK'
    BY <1>1, <2>1 DEF ControlOK
  <2>8. SearchOK'
    BY <1>1, <1>3, <2>1 DEF SearchOK
  <2>9. SelectedOK'
    BY <1>1, <1>3, <2>1 DEF SelectedOK
  <2> QED BY <1>2, <2>6, <2>7, <2>8, <2>9
<1>5. CASE ~ (cursor <= Len(states))
  <2>1. /\ phase' = "Leaves" /\ cursor' = 1 /\ explored' = [e \in DOMAIN edges |-> {}]
        /\ states' = states /\ edges' = edges
    BY <1>5 DEF Expand, graph
  <2>2. ControlOK'
    BY <1>1, <2>1 DEF ControlOK
  <2>3. GraphOK'
    BY <2>1 DEF GraphOK
  <2>4. SearchOK'
    BY <1>1, <1>3, <2>1 DEF SearchOK
  <2>5. SelectedOK'
    BY <1>1, <1>3, <2>1 DEF SelectedOK
  <2> QED BY <1>2, <2>2, <2>3, <2>4, <2>5
<1> QED BY <1>4, <1>5

\* Inserting the native plans keeps the shape.
LEMMA LeafKeeps ==
    ASSUME Structure, Leaf
    PROVE  Structure'
<1>1. /\ phase = "Leaves" /\ native' = native /\ states' = states /\ edges' = edges
      /\ explored' = explored /\ pending' = pending /\ changed' = changed /\ selected' = selected
  BY DEF Leaf, graph, search
<1>2. pending = {} /\ DOMAIN selected = {}
  BY <1>1 DEF Structure, SearchOK, SelectedOK
<1>3. GraphOK'
  BY <1>1 DEF Structure, GraphOK
<1>4. /\ NodesOK' /\ FrontiersOK' /\ NodesGrow /\ cursor' \in Nat \ {0}
      /\ phase' \in {"Leaves", "Solving", "Failed"}
  <2>1. ASSUME UNCHANGED plans PROVE NodesOK' /\ FrontiersOK' /\ NodesGrow
    BY <2>1, PlansUnchanged DEF plans, Structure
  <2>2. CASE cursor <= Len(states)
    <3>1. cursor' = cursor + 1
      BY <2>2 DEF Leaf
    <3>2. CASE states[cursor] \in DOMAIN native
      <4> DEFINE new == LeafPlan(states[cursor])
      <4>1. Insert(new)
        BY <2>2, <3>2 DEF Leaf, LeafPlan
      <4>2. PlanOK(new, Len(nodes) + 1) /\ new.state \in State
        <5>1. Len(nodes) + 1 \in Nat
          BY PlansFinite
        <5>2. PlanOK(new, Len(nodes) + 1)
          BY <3>2, <5>1, LeafIs DEF Structure
        <5> QED BY <5>2 DEF PlanOK, Costed
      <4> HIDE DEF new
      <4>3. NodesOK' /\ FrontiersOK' /\ NodesGrow
        BY <4>1, <4>2, InsertKeeps
      <4>4. phase' \in {"Leaves", "Failed"}
        BY <1>1, <4>1, <4>2, InsertIs DEF Refused, OverLimit, Accepted
      <4> QED BY <3>1, <4>3, <4>4 DEF Structure, ControlOK
    <3>3. CASE states[cursor] \notin DOMAIN native
      <4>1. UNCHANGED plans /\ phase' = phase
        BY <2>2, <3>3 DEF Leaf
      <4> QED BY <1>1, <2>1, <3>1, <4>1 DEF Structure, ControlOK
    <3> QED BY <3>2, <3>3
  <2>3. CASE ~ (cursor <= Len(states))
    <3>1. phase' = "Solving" /\ cursor' = 1 /\ UNCHANGED plans
      BY <2>3 DEF Leaf
    <3> QED BY <2>1, <3>1
  <2> QED BY <2>2, <2>3
<1>5. ControlOK'
  BY <1>1, <1>4 DEF Structure, ControlOK
<1>6. SearchOK'
  <2>1. DOMAIN explored = DOMAIN edges /\ \A e \in DOMAIN explored : \A c \in explored[e] : Fits(e, c)
    BY <1>1 DEF Structure, SearchOK
  <2>2. \A e \in DOMAIN explored' : \A c \in explored'[e] : Fits(e, c)'
    BY <1>1, <1>4, <2>1, FitsStays
  <2> QED BY <1>1, <1>2, <1>4, <2>1, <2>2 DEF Structure, SearchOK
<1>7. SelectedOK'
  BY <1>1, <1>2, <1>4 DEF SelectedOK
<1> QED BY <1>3, <1>4, <1>5, <1>6, <1>7 DEF Structure

\* Listing the combinations of an edge keeps the shape.
LEMMA NextEdgeKeeps ==
    ASSUME Structure, NextEdge
    PROVE  Structure'
<1>1. /\ phase = "Solving" /\ pending = {} /\ cursor <= Len(edges)
      /\ phase' = phase /\ native' = native /\ states' = states /\ edges' = edges
      /\ nodes' = nodes /\ frontiers' = frontiers /\ changed' = changed /\ selected' = selected
      /\ pending' = Combinations(cursor) \ explored[cursor]
      /\ explored' = [explored EXCEPT ![cursor] = @ \cup pending']
      /\ cursor' = IF pending' = {} THEN cursor + 1 ELSE cursor
  BY DEF NextEdge, graph, plans
<1>2. DOMAIN explored = DOMAIN edges /\ \A e \in DOMAIN explored : \A c \in explored[e] : Fits(e, c)
  BY <1>1 DEF Structure, SearchOK
<1>3. cursor \in DOMAIN edges /\ cursor \in Nat \ {0}
  BY <1>1, LenProperties DEF Structure, GraphOK, ControlOK
<1>4. IsFiniteSet(pending') /\ \A c \in pending' : Fits(cursor, c)
  <2>1. IsFiniteSet(Combinations(cursor)) /\ \A c \in Combinations(cursor) : Fits(cursor, c)
    BY <1>3, CombinationsFit
  <2> QED BY <1>1, <2>1, FS_Subset
<1>5. NodesOK' /\ FrontiersOK' /\ GraphOK' /\ SelectedOK'
  <2>1. NodesOK' /\ FrontiersOK'
    BY <1>1, PlansUnchanged DEF Structure
  <2>2. GraphOK'
    BY <1>1 DEF Structure, GraphOK
  <2>3. SelectedOK'
    BY <1>1 DEF Structure, SelectedOK
  <2> QED BY <2>1, <2>2, <2>3
<1>6. ControlOK'
  <2>1. cursor' \in Nat \ {0}
    BY <1>1, <1>3
  <2> QED BY <1>1, <2>1 DEF Structure, ControlOK
<1>7. SearchOK'
  <2>1. \A e, c : Fits(e, c)' <=> Fits(e, c)
    BY <1>1 DEF Fits, Plan
  <2>2. DOMAIN explored' = DOMAIN edges
    BY <1>1, <1>2
  <2>3. \A e \in DOMAIN explored' : \A c \in explored'[e] : Fits(e, c)
    BY <1>1, <1>2, <1>3, <1>4
  <2>4. pending' # {} => cursor' \in DOMAIN explored' /\ pending' \subseteq explored'[cursor']
    BY <1>1, <1>2, <1>3, <2>2
  <2> QED BY <1>1, <1>4, <2>1, <2>2, <2>3, <2>4 DEF SearchOK
<1> QED BY <1>5, <1>6, <1>7 DEF Structure

\* What Try does with a combination.
Tried(c) ==
    /\ pending' = pending \ {c}
    /\ cursor' = IF pending' = {} THEN cursor + 1 ELSE cursor
    /\ \/ OverLimit
       \/ Cyclic(cursor, c) /\ UNCHANGED <<phase, plans>>
       \/ ~ Cyclic(cursor, c) /\ Insert(Planned(cursor, c))
    /\ changed' = (changed \/ nodes' # nodes)

\* Trying a combination touches the plans and the progress of the search only.
LEMMA TryIs ==
    ASSUME Structure, Try
    PROVE  /\ phase = "Solving" /\ native' = native /\ states' = states /\ edges' = edges
           /\ explored' = explored /\ selected' = selected
           /\ batch' = batch /\ exported' = exported
           /\ DOMAIN explored = DOMAIN edges /\ cursor \in DOMAIN edges /\ cursor \in Nat \ {0}
           /\ \E c \in pending : c \in explored[cursor] /\ Fits(cursor, c) /\ Tried(c)
<1>1. PICK c \in pending : Tried(c)
  BY DEF Try, Tried, OverLimit
<1>2. /\ phase = "Solving" /\ native' = native /\ states' = states /\ edges' = edges
      /\ explored' = explored /\ selected' = selected
      /\ batch' = batch /\ exported' = exported
  BY DEF Try, graph
<1>3. /\ cursor \in DOMAIN explored /\ pending \subseteq explored[cursor]
      /\ DOMAIN explored = DOMAIN edges /\ \A k \in explored[cursor] : Fits(cursor, k)
  BY <1>1, <1>2 DEF Structure, SearchOK
<1> QED BY <1>1, <1>2, <1>3 DEF Structure, ControlOK

\* What is tried keeps plans and frontiers in shape.
LEMMA TriedInserts ==
    ASSUME Structure, cursor \in DOMAIN edges, NEW c, Fits(cursor, c), Tried(c)
    PROVE  /\ NodesOK' /\ FrontiersOK' /\ NodesGrow
           /\ phase' \in {phase, "Failed"}
<1>1. CASE UNCHANGED plans /\ phase' \in {phase, "Failed"}
  BY <1>1, PlansUnchanged DEF plans, Structure
<1>2. CASE ~ Cyclic(cursor, c) /\ Insert(Planned(cursor, c))
  <2> DEFINE new == Planned(cursor, c)
  <2>1. PlanOK(new, Len(nodes) + 1)
    BY <1>2, PlannedIs
  <2>2. new.state \in State
    BY <2>1 DEF PlanOK, Costed
  <2>3. Insert(new)
    BY <1>2
  <2> HIDE DEF new
  <2> QED BY <2>1, <2>2, <2>3, InsertKeeps, InsertIs DEF Refused, OverLimit, Accepted
<1> QED BY <1>1, <1>2 DEF Tried, OverLimit

\* Trying a combination keeps the shape.
LEMMA TryKeeps ==
    ASSUME Structure, Try
    PROVE  Structure'
<1>1. /\ phase = "Solving" /\ native' = native /\ states' = states /\ edges' = edges
      /\ explored' = explored /\ selected' = selected
      /\ DOMAIN explored = DOMAIN edges /\ cursor \in DOMAIN edges /\ cursor \in Nat \ {0}
  BY TryIs
<1>2. PICK c \in pending : c \in explored[cursor] /\ Fits(cursor, c) /\ Tried(c)
  BY TryIs
<1>3. NodesOK' /\ FrontiersOK' /\ NodesGrow /\ phase' \in {"Solving", "Failed"}
  BY <1>1, <1>2, TriedInserts
<1>4. /\ pending' = pending \ {c} /\ cursor' = IF pending' = {} THEN cursor + 1 ELSE cursor
      /\ changed' \in BOOLEAN
  BY <1>2 DEF Tried
<1>5. GraphOK'
  BY <1>1 DEF Structure, GraphOK
<1>6. ControlOK'
  <2>1. cursor' \in Nat \ {0}
    BY <1>1, <1>4
  <2> QED BY <1>1, <1>3, <1>4, <2>1 DEF Structure, ControlOK
<1>7. SearchOK'
  <2>1. /\ \A e \in DOMAIN explored : \A k \in explored[e] : Fits(e, k)
        /\ pending \subseteq explored[cursor] /\ IsFiniteSet(pending)
    BY <1>2 DEF Structure, SearchOK
  <2>2. \A e \in DOMAIN explored' : \A k \in explored'[e] : Fits(e, k)'
    BY <1>1, <1>3, <2>1, FitsStays
  <2>3. IsFiniteSet(pending')
    BY <1>4, <2>1, FS_Subset
  <2>4. pending' # {} => cursor' \in DOMAIN explored' /\ pending' \subseteq explored'[cursor']
    BY <1>1, <1>4, <2>1
  <2> QED BY <1>1, <1>3, <2>2, <2>3, <2>4 DEF SearchOK
<1>8. SelectedOK'
  <2>1. DOMAIN selected = {}
    BY <1>1 DEF Structure, SelectedOK
  <2> QED BY <1>1, <1>3, <2>1 DEF SelectedOK
<1> QED BY <1>3, <1>5, <1>6, <1>7, <1>8 DEF Structure

\* Beginning another round keeps the shape.
LEMMA RepeatKeeps ==
    ASSUME Structure, Repeat
    PROVE  Structure'
<1>1. /\ phase = "Solving" /\ pending = {}
      /\ phase' = phase /\ native' = native /\ states' = states /\ edges' = edges
      /\ nodes' = nodes /\ frontiers' = frontiers /\ selected' = selected
      /\ pending' = pending /\ explored' = explored /\ cursor' = 1 /\ changed' = FALSE
  BY DEF Repeat, graph, plans
<1>2. NodesOK' /\ FrontiersOK' /\ GraphOK' /\ SelectedOK'
  <2>1. NodesOK' /\ FrontiersOK'
    BY <1>1, PlansUnchanged DEF Structure
  <2>2. GraphOK'
    BY <1>1 DEF Structure, GraphOK
  <2>3. DOMAIN selected = {}
    BY <1>1 DEF Structure, SelectedOK
  <2>4. SelectedOK'
    BY <1>1, <2>3 DEF SelectedOK
  <2> QED BY <2>1, <2>2, <2>4
<1>3. ControlOK'
  <2>1. changed' \in BOOLEAN
    BY <1>1, Zenon
  <2> QED BY <1>1, <2>1 DEF Structure, ControlOK
<1>4. SearchOK'
  <2>1. \A e, c : Fits(e, c)' <=> Fits(e, c)
    BY <1>1 DEF Fits, Plan
  <2> QED BY <1>1, <2>1 DEF Structure, SearchOK
<1> QED BY <1>2, <1>3, <1>4 DEF Structure

\* Selecting a plan of least rank for each state keeps the shape.
LEMMA SelectKeeps ==
    ASSUME Structure, Select
    PROVE  Structure'
<1>1. /\ phase = "Solving" /\ pending = {} /\ cursor > Len(edges) /\ phase' = "Done"
      /\ native' = native /\ states' = states /\ edges' = edges
      /\ nodes' = nodes /\ frontiers' = frontiers
      /\ pending' = pending /\ explored' = explored /\ cursor' = cursor /\ changed' = changed
      /\ selected' = [s \in {r \in Range(states) : frontiers[r] # {}} |-> Best(s)]
  BY DEF Select, graph, plans, search
<1>2. NodesOK' /\ FrontiersOK' /\ GraphOK' /\ ControlOK'
  <2>1. NodesOK' /\ FrontiersOK'
    BY <1>1, PlansUnchanged DEF Structure
  <2>2. GraphOK'
    BY <1>1 DEF Structure, GraphOK
  <2>3. ControlOK'
    BY <1>1 DEF Structure, ControlOK
  <2> QED BY <2>1, <2>2, <2>3
<1>3. SearchOK'
  <2>1. \A e, c : Fits(e, c)' <=> Fits(e, c)
    BY <1>1 DEF Fits, Plan
  <2> QED BY <1>1, <2>1 DEF Structure, SearchOK
<1>4. SelectedOK'
  <2>1. Range(states) \subseteq State
    <3>1. states \in [1..Len(states) -> State]
      BY LenProperties DEF Structure, GraphOK
    <3> QED BY <3>1 DEF Range
  <2>2. ASSUME NEW s \in {r \in Range(states) : frontiers[r] # {}}
        PROVE  /\ selected'[s] \in frontiers'[s]
               /\ \A q \in frontiers'[s] : ~ LexLess(Rank(nodes'[q]), Rank(nodes'[selected'[s]]))
    <3>1. /\ Best(s) \in frontiers[s]
          /\ \A q \in frontiers[s] : ~ LexLess(Rank(nodes[q]), Rank(nodes[Best(s)]))
      BY <2>1, BestIs
    <3>2. selected'[s] = Best(s)
      BY <1>1
    <3> QED BY <1>1, <3>1, <3>2
  <2>3. DOMAIN selected' = {r \in Range(states') : frontiers'[r] # {}}
    BY <1>1
  <2> QED BY <1>1, <2>2, <2>3 DEF SelectedOK
<1> QED BY <1>2, <1>3, <1>4 DEF Structure

\* When nothing changes, the shape does not.
LEMMA StructureStays ==
    ASSUME Structure, UNCHANGED plannerVars
    PROVE  Structure'
<1>1. /\ phase' = phase /\ native' = native /\ states' = states /\ edges' = edges
      /\ nodes' = nodes /\ frontiers' = frontiers /\ selected' = selected
      /\ pending' = pending /\ explored' = explored /\ cursor' = cursor /\ changed' = changed
  BY DEF plannerVars, graph, plans, search
<1>2. \A e, c : Fits(e, c)' <=> Fits(e, c)
  BY <1>1 DEF Fits, Plan
<1>3. NodesOK' /\ FrontiersOK' /\ GraphOK' /\ ControlOK' /\ SelectedOK'
  <2>1. NodesOK' /\ FrontiersOK'
    BY <1>1, PlansUnchanged DEF Structure
  <2>2. GraphOK'
    BY <1>1 DEF Structure, GraphOK
  <2>3. ControlOK'
    BY <1>1 DEF Structure, ControlOK
  <2>4. SelectedOK'
    BY <1>1 DEF Structure, SelectedOK
  <2> QED BY <2>1, <2>2, <2>3, <2>4
<1>4. SearchOK'
  BY <1>1, <1>2 DEF Structure, SearchOK
<1> QED BY <1>3, <1>4 DEF Structure

\* No step breaks the shape ...
LEMMA StructureStep ==
    ASSUME Structure, [PlannerNext]_plannerVars
    PROVE  Structure'
<1>1. ASSUME NEW R \in RootBatches, Begin(R) PROVE Structure'
  BY <1>1, BeginKeeps
<1> QED
  BY <1>1, ExpandKeeps, LeafKeeps, NextEdgeKeeps, TryKeeps, RepeatKeeps, SelectKeeps, StructureStays
     DEF PlannerNext, Solve, Finished

\* ... so it is invariant.
THEOREM StructureInductive == PlannerSpec => []Structure
<1>1. PlannerInit => Structure
  BY StructureInit
<1>2. Structure /\ [PlannerNext]_plannerVars => Structure'
  BY StructureStep
<1> QED BY <1>1, <1>2, PTL DEF PlannerSpec

\* The shape has all that the type invariant asks for.
LEMMA StructureTyped == Structure => PlannerTypeOK
<1> SUFFICES ASSUME Structure PROVE PlannerTypeOK
  OBVIOUS
<1>1. /\ native \in [DOMAIN native -> LeafErrors] /\ DOMAIN native \subseteq Natives
      /\ phase \in {"Idle", "Expanding", "Leaves", "Solving", "Done", "Failed"}
  BY DEF Structure, ControlOK
<1>2. IsInjective(states) /\ Range(states) \subseteq State
  <2>1. states \in [1..Len(states) -> State]
    BY LenProperties DEF Structure, GraphOK
  <2> QED BY <2>1 DEF Range, Structure, GraphOK
<1>3. ASSUME NEW e \in DOMAIN edges PROVE {edges[e].parent} \cup Range(edges[e].children) \subseteq Range(states)
  <2>1. edges[e].parent \in Range(states) /\ edges[e].children \in Seq(Range(states))
    BY DEF Structure, GraphOK
  <2>2. edges[e].children \in [1..Len(edges[e].children) -> Range(states)]
    BY <2>1, LenProperties
  <2> DEFINE T == Range(states)
             kids == edges[e].children
  <2> HIDE DEF T, kids
  <2>3. kids \in [1..Len(kids) -> T]
    BY <2>2 DEF T, kids
  <2>4. Range(kids) \subseteq T
    BY <2>3 DEF Range
  <2> QED BY <2>1, <2>4 DEF T, kids
<1>4. Len(nodes) <= MaxNodes
  BY DEF Structure, NodesOK
<1>5. ASSUME NEW p \in Plan
      PROVE  LET n == nodes[p]
                 below == UNION {nodes[n.children[i]].ancestry : i \in DOMAIN n.children}
             IN  /\ Range(n.children) \subseteq 1 .. p - 1
                 /\ n.state \notin below
                 /\ n.ancestry = {n.state} \cup below
  <2>1. PlanOK(nodes[p], p)
    BY DEF Structure, NodesOK
  <2> QED BY <2>1 DEF PlanOK, Below
<1>6. ASSUME NEW s \in State
      PROVE  /\ frontiers[s] \subseteq {p \in Plan : nodes[p].state = s}
             /\ Cardinality(frontiers[s]) <= MaxFrontier
  BY DEF Structure, FrontiersOK
<1>7. DOMAIN selected \subseteq Range(states) /\ \A s \in DOMAIN selected : selected[s] \in frontiers[s]
  BY DEF Structure, SelectedOK
<1> QED BY <1>1, <1>2, <1>3, <1>4, <1>5, <1>6, <1>7 DEF PlannerTypeOK

\* States, edges, plans and frontiers fit together in every batch, the arena
\* and the frontiers keep the limits of insert_candidate, and no plan repeats
\* its own state below it.
THEOREM PlannerTyped == PlannerSpec => []PlannerTypeOK
BY StructureInductive, StructureTyped, PTL

-----------------------------------------------------------------------------
(* The search advances *)

\* The first of five numbers that differs is less.
FrontLess(a1, a2, a3, a4, a5, b1, b2, b3, b4, b5) ==
    /\ a1 \in Int /\ a2 \in Int /\ a3 \in Int /\ a4 \in Int /\ a5 \in Int
    /\ b1 \in Int /\ b2 \in Int /\ b3 \in Int /\ b4 \in Int /\ b5 \in Int
    /\ \/ a1 < b1
       \/ a1 = b1 /\ a2 < b2
       \/ a1 = b1 /\ a2 = b2 /\ a3 < b3
       \/ a1 = b1 /\ a2 = b2 /\ a3 = b3 /\ a4 < b4
       \/ a1 = b1 /\ a2 = b2 /\ a3 = b3 /\ a4 = b4 /\ a5 < b5

\* When the first of five numbers that differs is less, the sequence is.
LEMMA FiveLess ==
    ASSUME NEW a1, NEW a2, NEW a3, NEW a4, NEW a5,
           NEW b1, NEW b2, NEW b3, NEW b4, NEW b5,
           FrontLess(a1, a2, a3, a4, a5, b1, b2, b3, b4, b5)
    PROVE  LexLess(<<a1, a2, a3, a4, a5>>, <<b1, b2, b3, b4, b5>>)
<1> DEFINE a == <<a1, a2, a3, a4, a5>>
           b == <<b1, b2, b3, b4, b5>>
<1>1. /\ a \in Seq(Int) /\ b \in Seq(Int) /\ Len(a) = 5 /\ Len(b) = 5
      /\ a[1] = a1 /\ a[2] = a2 /\ a[3] = a3 /\ a[4] = a4 /\ a[5] = a5
      /\ b[1] = b1 /\ b[2] = b2 /\ b[3] = b3 /\ b[4] = b4 /\ b[5] = b5
  BY DEF FrontLess
<1> HIDE DEF a, b
<1>2. \A j \in Nat : /\ 1 <= j /\ j < 1 => FALSE
                     /\ 1 <= j /\ j < 2 => j = 1
                     /\ 1 <= j /\ j < 3 => j = 1 \/ j = 2
                     /\ 1 <= j /\ j < 4 => j = 1 \/ j = 2 \/ j = 3
                     /\ 1 <= j /\ j < 5 => j = 1 \/ j = 2 \/ j = 3 \/ j = 4
  OBVIOUS
<1>3. ASSUME NEW i, FirstDifferAt(a, b, i) PROVE LexLess(a, b)
  BY <1>1, <1>3, LexLessIs
<1>4. CASE a1 < b1
  <2>1. FirstDifferAt(a, b, 1)
    BY <1>1, <1>2, <1>4 DEF FirstDifferAt
  <2> QED BY <1>3, <2>1 DEF a, b
<1>5. CASE a1 = b1 /\ a2 < b2
  <2>1. FirstDifferAt(a, b, 2)
    BY <1>1, <1>2, <1>5 DEF FirstDifferAt
  <2> QED BY <1>3, <2>1 DEF a, b
<1>6. CASE a1 = b1 /\ a2 = b2 /\ a3 < b3
  <2>1. FirstDifferAt(a, b, 3)
    BY <1>1, <1>2, <1>6 DEF FirstDifferAt
  <2> QED BY <1>3, <2>1 DEF a, b
<1>7. CASE a1 = b1 /\ a2 = b2 /\ a3 = b3 /\ a4 < b4
  <2>1. FirstDifferAt(a, b, 4)
    BY <1>1, <1>2, <1>7 DEF FirstDifferAt
  <2> QED BY <1>3, <2>1 DEF a, b
<1>8. CASE a1 = b1 /\ a2 = b2 /\ a3 = b3 /\ a4 = b4 /\ a5 < b5
  <2>1. FirstDifferAt(a, b, 5)
    BY <1>1, <1>2, <1>8 DEF FirstDifferAt
  <2> QED BY <1>3, <2>1 DEF a, b
<1> QED BY <1>4, <1>5, <1>6, <1>7, <1>8 DEF FrontLess

\* The parts of the measure.
RemainingTyped ==
    /\ MaxNodes - Len(nodes) \in Int
    /\ (IF changed THEN 1 ELSE 0) \in Int
    /\ Len(edges) + 1 - cursor \in Int
    /\ (IF pending = {} THEN 1 ELSE 0) \in Int
    /\ Cardinality(pending) \in Int /\ IsFiniteSet(pending)

\* The measure of the search is made of five naturals.
LEMMA RemainingParts == Structure => RemainingTyped
<1> SUFFICES ASSUME Structure PROVE RemainingTyped
  OBVIOUS
<1>1. MaxNodes \in Nat /\ Len(nodes) \in Nat /\ Len(edges) \in Nat /\ cursor \in Nat
  <2>1. MaxNodes \in Nat
    BY LimitAssumption
  <2>2. Len(nodes) \in Nat /\ Len(edges) \in Nat
    BY LenProperties DEF Structure, NodesOK, GraphOK
  <2> QED BY <2>1, <2>2 DEF Structure, ControlOK
<1>2. IsFiniteSet(pending)
  BY DEF Structure, SearchOK
<1>3. Cardinality(pending) \in Nat
  BY <1>2, FS_CardinalityType
<1> QED BY <1>1, <1>2, <1>3 DEF RemainingTyped

\* Every step of the search lowers its measure: by a plan, by the flag of the
\* round, by an edge, by the combinations still to list or by one of them.
LEMMA AdvancesStep ==
    ASSUME Structure, PlannerNext, phase = "Solving", phase' = "Solving", ~ UNCHANGED plannerVars
    PROVE  LexLess(Remaining', Remaining)
<1> DEFINE a1 == MaxNodes - Len(nodes)
           a2 == IF changed THEN 1 ELSE 0
           a3 == Len(edges) + 1 - cursor
           a4 == IF pending = {} THEN 1 ELSE 0
           a5 == Cardinality(pending)
<1>1. Structure'
  BY StructureStep
<1>2. a1 \in Int /\ a2 \in Int /\ a3 \in Int /\ a4 \in Int /\ a5 \in Int /\ IsFiniteSet(pending)
  BY RemainingParts DEF RemainingTyped
<1>3. a1' \in Int /\ a2' \in Int /\ a3' \in Int /\ a4' \in Int /\ a5' \in Int
  <2>1. RemainingTyped'
    BY <1>1, RemainingParts, PTL
  <2> QED BY <2>1 DEF RemainingTyped
<1>4. Remaining = <<a1, a2, a3, a4, a5>> /\ Remaining' = <<a1', a2', a3', a4', a5'>>
  BY DEF Remaining
<1>5. /\ Len(nodes) \in Nat /\ Len(edges) \in Nat /\ cursor \in Nat /\ MaxNodes \in Nat
      /\ changed \in BOOLEAN
  BY LenProperties, LimitAssumption DEF Structure, NodesOK, GraphOK, ControlOK
<1>6. SUFFICES \/ a1' < a1
               \/ a1' = a1 /\ a2' < a2
               \/ a1' = a1 /\ a2' = a2 /\ a3' < a3
               \/ a1' = a1 /\ a2' = a2 /\ a3' = a3 /\ a4' < a4
               \/ a1' = a1 /\ a2' = a2 /\ a3' = a3 /\ a4' = a4 /\ a5' < a5
  <2> HIDE DEF a1, a2, a3, a4, a5
  <2>1. ASSUME \/ a1' < a1
               \/ a1' = a1 /\ a2' < a2
               \/ a1' = a1 /\ a2' = a2 /\ a3' < a3
               \/ a1' = a1 /\ a2' = a2 /\ a3' = a3 /\ a4' < a4
               \/ a1' = a1 /\ a2' = a2 /\ a3' = a3 /\ a4' = a4 /\ a5' < a5
        PROVE  LexLess(Remaining', Remaining)
    <3>1. FrontLess(a1', a2', a3', a4', a5', a1, a2, a3, a4, a5)
      BY <1>2, <1>3, <2>1 DEF FrontLess
    <3>2. LexLess(<<a1', a2', a3', a4', a5'>>, <<a1, a2, a3, a4, a5>>)
      BY <3>1, FiveLess
    <3> QED BY <1>4, <3>2
  <2> QED BY <2>1
<1>7. NextEdge \/ Try \/ Repeat
  BY DEF PlannerNext, Solve, Finished, Expand, Leaf, Select, Begin
<1>8. CASE NextEdge
  <2>1. nodes' = nodes /\ changed' = changed /\ edges' = edges /\ pending = {}
        /\ cursor' = IF pending' = {} THEN cursor + 1 ELSE cursor
    BY <1>8 DEF NextEdge, plans, graph
  <2>2. CASE pending' = {}
    <3>1. a1' = a1 /\ a2' = a2 /\ a3' < a3
      BY <1>5, <2>1, <2>2
    <3> QED BY <3>1
  <2>3. CASE pending' # {}
    <3>1. a1' = a1 /\ a2' = a2 /\ a3' = a3 /\ a4' < a4
      BY <1>5, <2>1, <2>3
    <3> QED BY <3>1
  <2> QED BY <2>2, <2>3
<1>9. CASE Repeat
  <2>1. nodes' = nodes /\ changed = TRUE /\ changed' = FALSE
    BY <1>5, <1>9 DEF Repeat, plans
  <2>2. a1' = a1 /\ a2' < a2
    BY <1>5, <2>1
  <2> QED BY <2>2
<1>10. CASE Try
  <2>1. edges' = edges /\ cursor \in DOMAIN edges
    BY <1>10, TryIs
  <2>2. PICK c \in pending : Fits(cursor, c) /\ Tried(c)
    BY <1>10, TryIs
  <2>3. /\ pending' = pending \ {c} /\ cursor' = IF pending' = {} THEN cursor + 1 ELSE cursor
        /\ changed' = (changed \/ nodes' # nodes)
    BY <2>2 DEF Tried
  <2>4. nodes' = nodes \/ Len(nodes') = Len(nodes) + 1
    <3>1. CASE UNCHANGED plans
      BY <3>1 DEF plans
    <3>2. CASE ~ Cyclic(cursor, c) /\ Insert(Planned(cursor, c))
      <4> DEFINE new == Planned(cursor, c)
      <4>1. new.state \in State
        BY <2>1, <2>2, PlannedIs DEF Costed
      <4>2. Insert(new)
        BY <3>2
      <4> HIDE DEF new
      <4>3. Refused(new) \/ OverLimit \/ Accepted(new)
        BY <4>1, <4>2, InsertIs
      <4>4. CASE Accepted(new)
        BY <4>4, AcceptedGrows
      <4> QED BY <4>3, <4>4 DEF Refused, OverLimit, plans
    <3> QED BY <2>2, <3>1, <3>2 DEF Tried, OverLimit
  <2>5. CASE Len(nodes') = Len(nodes) + 1
    <3>1. a1' < a1
      BY <1>5, <2>5
    <3> QED BY <3>1
  <2>6. CASE nodes' = nodes
    <3>1. changed' = changed
      BY <1>5, <2>3, <2>6
    <3>2. a1' = a1 /\ a2' = a2
      BY <2>6, <3>1
    <3>3. CASE pending' = {}
      <4>1. a3' < a3
        BY <1>5, <2>1, <2>3, <3>3
      <4> QED BY <3>2, <4>1
    <3>4. CASE pending' # {}
      <4>1. a3' = a3 /\ a4' = a4
        BY <2>1, <2>2, <2>3, <3>4
      <4>2. Cardinality(pending') = Cardinality(pending) - 1
        BY <1>2, <2>2, <2>3, FS_RemoveElement
      <4>3. a5' < a5
        BY <1>2, <4>2
      <4> HIDE DEF a1, a2, a3, a4, a5
      <4> QED BY <3>2, <4>1, <4>3
    <3> QED BY <3>3, <3>4
  <2> QED BY <2>4, <2>5, <2>6
<1> QED BY <1>7, <1>8, <1>9, <1>10

\* The loop of solve cannot go on for ever, although decompositions form
\* cycles: each of its steps lowers a measure that is well-founded.
THEOREM SearchEnds == PlannerSpec => SearchAdvances
<1>1. Structure /\ [PlannerNext]_plannerVars =>
         [phase = "Solving" /\ phase' = "Solving" => LexLess(Remaining', Remaining)]_plannerVars
  <2> SUFFICES ASSUME Structure, [PlannerNext]_plannerVars, ~ UNCHANGED plannerVars,
                      phase = "Solving", phase' = "Solving"
               PROVE  LexLess(Remaining', Remaining)
    OBVIOUS
  <2> QED BY AdvancesStep
<1> QED BY <1>1, StructureInductive, PTL DEF PlannerSpec, SearchAdvances

-----------------------------------------------------------------------------
(* The inductive invariant, second part: what is matched *)

\* A plan in the frontier of s costs no more than c in any respect.
Matched(s, c) == \E q \in frontiers[s] : NoWorse(nodes[q].cost, c)

FrontiersMatch == \A p \in Plan : Matched(nodes[p].state, nodes[p].cost)

\* A combination that is not to be tried any more is cyclic or matched.
Settled(e, c) ==
    \/ e = cursor /\ c \in pending
    \/ Cyclic(e, c)
    \/ Matched(edges[e].parent, Planned(e, c).cost)
TriedMatch == phase # "Failed" => \A e \in DOMAIN explored : \A c \in explored[e] : Settled(e, c)

\* While a round changes nothing, it explores what it passes.
RoundComplete ==
    (phase = "Solving" /\ ~ changed) \/ phase = "Done" =>
        \A e \in DOMAIN edges : e < cursor \/ (e = cursor /\ pending # {}) => Combinations(e) \subseteq explored[e]

LeavesMatch ==
    \A i \in DOMAIN states :
        /\ (phase = "Leaves" /\ i < cursor) \/ phase \in {"Solving", "Done"}
        /\ states[i] \in DOMAIN native
        => Matched(states[i], LeafCost(states[i]))

\* Whatever is below a plan has a plan that costs no more.
Covered(s, c) == s \in State /\ \E q \in Plan : nodes[q].state = s /\ NoWorse(nodes[q].cost, c)
AncestryCheaper == \A p \in Plan : \A s \in nodes[p].ancestry : Covered(s, nodes[p].cost)

Matches == FrontiersMatch /\ TriedMatch /\ RoundComplete /\ LeavesMatch /\ AncestryCheaper

-----------------------------------------------------------------------------
\* The costs of plans are costs.
LEMMA PlanCost ==
    ASSUME Structure, NEW p \in Plan
    PROVE  /\ nodes[p].state \in State /\ CostOn(nodes[p].cost, Qubits(nodes[p].state))
           /\ PlanOK(nodes[p], p)
BY DEF Structure, NodesOK, PlanOK, Costed

\* What costs no more than what is matched matches, too.
LEMMA MatchedMore ==
    ASSUME Structure, NEW s \in State, NEW c, NEW R, CostOn(c, R), NEW d, NEW S, CostOn(d, S),
           Matched(s, c), NoWorse(c, d)
    PROVE  Matched(s, d)
<1>1. PICK q \in frontiers[s] : NoWorse(nodes[q].cost, c)
  BY DEF Matched
<1>2. q \in Plan
  BY DEF Structure, FrontiersOK
<1>3. CostOn(nodes[q].cost, Qubits(nodes[q].state))
  BY <1>2, PlanCost
<1>4. NoWorse(nodes[q].cost, d)
  BY <1>1, <1>3, NoWorseTransitive
<1> QED BY <1>4 DEF Matched

\* A plan is displaced only by one that costs no more.
LEMMA MatchedStays ==
    ASSUME Structure, NEW s \in State, NEW c, NEW R, CostOn(c, R), Matched(s, c),
           NEW new, PlanOK(new, Len(nodes) + 1), Insert(new)
    PROVE  Matched(s, c)'
<1>1. PICK q \in frontiers[s] : NoWorse(nodes[q].cost, c)
  BY DEF Matched
<1>2. q \in Plan /\ nodes[q].state = s
  BY DEF Structure, FrontiersOK
<1>3. new.state \in State /\ CostOn(new.cost, Qubits(new.state))
  BY DEF PlanOK, Costed
<1>4. CASE UNCHANGED plans
  <2>1. nodes' = nodes /\ frontiers' = frontiers
    BY <1>4 DEF plans
  <2> QED BY <1>1, <2>1 DEF Matched
<1>5. CASE Accepted(new)
  <2> DEFINE n == Len(nodes)
  <2>1. NodesGrow /\ nodes'[n + 1] = new
    BY <1>5, AcceptedGrows
  <2>2. nodes'[q] = nodes[q]
    BY <1>2, <2>1 DEF NodesGrow
  <2>3. frontiers' = [frontiers EXCEPT ![new.state] = Retained(new) \cup {n + 1}]
    BY <1>5 DEF Accepted
  <2>4. frontiers \in [State -> SUBSET Plan]
    BY DEF Structure, FrontiersOK
  <2> HIDE DEF n
  <2>5. CASE s # new.state
    <3>1. q \in frontiers'[s]
      BY <1>1, <2>3, <2>4, <2>5
    <3> QED BY <1>1, <2>2, <3>1 DEF Matched
  <2>6. CASE s = new.state /\ ~ Displaces(new, nodes[q])
    <3>1. q \in Retained(new)
      BY <1>1, <2>6 DEF Retained
    <3>2. q \in frontiers'[s]
      BY <1>3, <2>3, <2>4, <2>6, <3>1
    <3> QED BY <1>1, <2>2, <3>2 DEF Matched
  <2>7. CASE s = new.state /\ Displaces(new, nodes[q])
    <3>1. n + 1 \in frontiers'[s]
      BY <1>3, <2>3, <2>4, <2>7
    <3>2. NoWorse(new.cost, nodes[q].cost)
      BY <2>7 DEF Displaces
    <3>3. CostOn(nodes[q].cost, Qubits(nodes[q].state))
      BY <1>2, PlanCost
    <3>4. NoWorse(new.cost, c)
      BY <1>1, <1>3, <3>2, <3>3, NoWorseTransitive
    <3> QED BY <2>1, <3>1, <3>4 DEF Matched
  <2> QED BY <2>5, <2>6, <2>7
<1> QED BY <1>3, <1>4, <1>5, InsertIs DEF Refused, OverLimit

\* What is inserted is matched, unless a limit is hit.
LEMMA InsertMatches ==
    ASSUME Structure, NEW new, PlanOK(new, Len(nodes) + 1), Insert(new), ~ OverLimit
    PROVE  Matched(new.state, new.cost)'
<1>1. new.state \in State /\ CostOn(new.cost, Qubits(new.state))
  BY DEF PlanOK, Costed
<1>2. CASE Refused(new)
  <2>1. PICK q \in frontiers[new.state] : NoWorse(nodes[q].cost, new.cost)
    BY <1>2 DEF Refused, Obstructs
  <2>2. nodes' = nodes /\ frontiers' = frontiers
    BY <1>2 DEF Refused, plans
  <2> QED BY <2>1, <2>2 DEF Matched
<1>3. CASE Accepted(new)
  <2> DEFINE n == Len(nodes)
  <2>1. nodes'[n + 1] = new
    BY <1>3, AcceptedGrows
  <2>2. frontiers' = [frontiers EXCEPT ![new.state] = Retained(new) \cup {n + 1}]
    BY <1>3 DEF Accepted
  <2>3. frontiers \in [State -> SUBSET Plan]
    BY DEF Structure, FrontiersOK
  <2> HIDE DEF n
  <2>4. n + 1 \in frontiers'[new.state]
    BY <1>1, <2>2, <2>3
  <2>5. NoWorse(new.cost, new.cost)
    BY <1>1, NoWorseReflexive
  <2> QED BY <2>1, <2>4, <2>5 DEF Matched
<1> QED BY <1>1, <1>2, <1>3, InsertIs

\* All plans stay matched when one is inserted.
LEMMA InsertKeepsMatch ==
    ASSUME Structure, FrontiersMatch, NEW new, PlanOK(new, Len(nodes) + 1), Insert(new)
    PROVE  FrontiersMatch'
<1>1. \A p \in Plan : Matched(nodes[p].state, nodes[p].cost)'
  <2> SUFFICES ASSUME NEW p \in Plan PROVE Matched(nodes[p].state, nodes[p].cost)'
    OBVIOUS
  <2>1. PICK s, c : s = nodes[p].state /\ c = nodes[p].cost
    OBVIOUS
  <2>2. s \in State /\ CostOn(c, Qubits(s)) /\ Matched(s, c)
    BY <2>1, PlanCost DEF FrontiersMatch
  <2>3. Matched(s, c)'
    BY <2>2, MatchedStays
  <2>4. NodesGrow
    BY InsertKeeps
  <2>5. nodes'[p].state = s /\ nodes'[p].cost = c
    BY <2>1, <2>4 DEF NodesGrow
  <2> QED BY <2>3, <2>5 DEF Matched
<1>2. new.state \in State
  BY DEF PlanOK, Costed
<1>3. CASE UNCHANGED plans
  <2>1. Plan' = Plan
    BY <1>3 DEF plans, Plan
  <2> QED BY <1>1, <2>1 DEF FrontiersMatch
<1>4. CASE Accepted(new)
  <2> DEFINE n == Len(nodes)
  <2>1. Plan' = Plan \cup {n + 1} /\ nodes'[n + 1] = new /\ nodes' # nodes
    BY <1>4, AcceptedGrows
  <2>2. ~ OverLimit
    BY <2>1 DEF OverLimit, plans
  <2>3. PICK s, c : s = new.state /\ c = new.cost
    OBVIOUS
  <2>4. Matched(s, c)'
    BY <2>2, <2>3, InsertMatches DEF Matched
  <2>5. ASSUME NEW p \in Plan' PROVE Matched(nodes[p].state, nodes[p].cost)'
    <3>1. CASE p \in Plan
      BY <1>1, <3>1
    <3>2. CASE p = n + 1
      <4>1. nodes'[p] = new
        BY <2>1, <3>2
      <4>2. nodes'[p].state = s /\ nodes'[p].cost = c
        BY <2>3, <4>1
      <4> QED BY <2>4, <4>2 DEF Matched
    <3> QED BY <2>1, <2>5, <3>1, <3>2
  <2> QED BY <2>5 DEF FrontiersMatch
<1> QED BY <1>2, <1>3, <1>4, InsertIs DEF Refused, OverLimit

\* What a step of the search does to the plans.
Inserts == UNCHANGED plans \/ \E new : PlanOK(new, Len(nodes) + 1) /\ Insert(new)

\* No step of the search loses a match, a plan or what covers it.
LEMMA InsertsKeep ==
    ASSUME Structure, Inserts
    PROVE  /\ NodesGrow
           /\ \A s \in State : \A c, R : CostOn(c, R) /\ Matched(s, c) => Matched(s, c)'
           /\ \A s, c : Covered(s, c) => Covered(s, c)'
<1>1. NodesGrow
  <2>1. CASE UNCHANGED plans
    BY <2>1 DEF plans, NodesGrow, Plan
  <2>2. ASSUME NEW new, PlanOK(new, Len(nodes) + 1), Insert(new) PROVE NodesGrow
    BY <2>2, InsertKeeps
  <2> QED BY <2>1, <2>2 DEF Inserts
<1>2. ASSUME NEW s \in State, NEW c, NEW R, CostOn(c, R), Matched(s, c) PROVE Matched(s, c)'
  <2>1. CASE UNCHANGED plans
    <3>1. nodes' = nodes /\ frontiers' = frontiers
      BY <2>1 DEF plans
    <3> QED BY <1>2, <3>1 DEF Matched
  <2>2. ASSUME NEW new, PlanOK(new, Len(nodes) + 1), Insert(new) PROVE Matched(s, c)'
    BY <1>2, <2>2, MatchedStays
  <2> QED BY <2>1, <2>2 DEF Inserts
<1>3. ASSUME NEW s, NEW c, Covered(s, c) PROVE Covered(s, c)'
  BY <1>1, <1>3 DEF Covered, NodesGrow
<1> QED BY <1>1, <1>2, <1>3

\* What an edge plans depends on the plans it is made of only.
LEMMA PlannedStays ==
    ASSUME NodesGrow, UNCHANGED edges, NEW e \in DOMAIN edges, NEW c, Fits(e, c)
    PROVE  Planned(e, c)' = Planned(e, c) /\ (Cyclic(e, c)' <=> Cyclic(e, c))
<1>1. \A i \in DOMAIN c : nodes'[c[i]] = nodes[c[i]]
  BY DEF Fits, NodesGrow
<1>2. [i \in DOMAIN c |-> nodes'[c[i]]] = [i \in DOMAIN c |-> nodes[c[i]]]
  BY <1>1
<1>3. Planned(e, c)' = Planned(e, c)
  <2>1. PICK k : k = [i \in DOMAIN c |-> nodes[c[i]]]
    OBVIOUS
  <2>2. PICK s, w : s = edges[e].parent /\ w = Assembled(edges[e].name, k, Qubits(s))
    OBVIOUS
  <2> DEFINE P == [state |-> s, children |-> c, cost |-> w.cost, steps |-> w.steps, key |-> w.key,
                   ancestry |-> (UNION {k[i].ancestry : i \in DOMAIN k}) \cup {s}]
  <2>3. Planned(e, c) = P
    BY <2>1, <2>2 DEF Planned
  <2>4. k = [i \in DOMAIN c |-> nodes'[c[i]]]
    BY <1>2, <2>1
  <2>5. s = edges'[e].parent /\ w = Assembled(edges'[e].name, k, Qubits(s))
    BY <2>2
  <2>6. Planned(e, c)' = P
    BY <2>4, <2>5 DEF Planned
  <2> QED BY <2>3, <2>6
<1>4. Cyclic(e, c)' <=> Cyclic(e, c)
  BY <1>1 DEF Cyclic
<1> QED BY <1>3, <1>4

\* A combination that is settled remains so.
LEMMA SettledStays ==
    ASSUME Structure, Inserts, UNCHANGED edges, NEW e \in DOMAIN edges, NEW c, Fits(e, c),
           Cyclic(e, c) \/ Matched(edges[e].parent, Planned(e, c).cost)
    PROVE  Cyclic(e, c)' \/ Matched(edges[e].parent, Planned(e, c).cost)'
<1>1. NodesGrow
  BY InsertsKeep
<1>2. Planned(e, c)' = Planned(e, c) /\ (Cyclic(e, c)' <=> Cyclic(e, c))
  BY <1>1, PlannedStays
<1>3. CASE Cyclic(e, c)
  BY <1>2, <1>3
<1>4. CASE Matched(edges[e].parent, Planned(e, c).cost)
  <2>1. PICK s, d : s = edges[e].parent /\ d = Planned(e, c).cost
    OBVIOUS
  <2>2. s \in State
    BY <2>1, EdgeIs DEF Structure
  <2>3. CostOn(d, Qubits(Planned(e, c).state))
    BY <2>1, PlannedIs DEF Costed
  <2>4. Matched(s, d)'
    BY <1>4, <2>1, <2>2, <2>3, InsertsKeep
  <2>5. edges'[e].parent = s /\ Planned(e, c)'.cost = d
    BY <1>2, <2>1
  <2> QED BY <2>4, <2>5 DEF Matched
<1> QED BY <1>3, <1>4

\* Whatever is below a new plan is covered, so all that is below plans is.
LEMMA AncestryStays ==
    ASSUME Structure, AncestryCheaper, NEW new, PlanOK(new, Len(nodes) + 1), Insert(new),
           \A s \in new.ancestry : s = new.state \/ Covered(s, new.cost)
    PROVE  AncestryCheaper'
<1>1. new.state \in State /\ CostOn(new.cost, Qubits(new.state))
  BY DEF PlanOK, Costed
<1>2. NodesGrow /\ \A s, c : Covered(s, c) => Covered(s, c)'
  BY InsertsKeep DEF Inserts
<1>3. ASSUME NEW p \in Plan, NEW s \in nodes[p].ancestry PROVE Covered(s, nodes[p].cost)'
  <2>1. PICK c : c = nodes[p].cost
    OBVIOUS
  <2>2. Covered(s, c)'
    BY <1>2, <2>1 DEF AncestryCheaper
  <2>3. nodes'[p].cost = c
    BY <1>2, <2>1 DEF NodesGrow
  <2> QED BY <2>2, <2>3 DEF Covered
<1>4. \A p \in Plan : nodes'[p] = nodes[p]
  BY <1>2 DEF NodesGrow
<1>5. CASE UNCHANGED plans
  <2>1. Plan' = Plan
    BY <1>5 DEF plans, Plan
  <2> QED BY <1>3, <1>4, <2>1 DEF AncestryCheaper
<1>6. CASE Accepted(new)
  <2> DEFINE n == Len(nodes)
  <2>1. Plan' = Plan \cup {n + 1} /\ nodes'[n + 1] = new
    BY <1>6, AcceptedGrows
  <2> HIDE DEF n
  <2>2. ASSUME NEW s \in new.ancestry PROVE Covered(s, new.cost)'
    <3>1. PICK c : c = new.cost
      OBVIOUS
    <3>2. CASE s = new.state
      <4>1. NoWorse(new.cost, new.cost)
        BY <1>1, NoWorseReflexive
      <4> QED BY <1>1, <2>1, <3>2, <4>1 DEF Covered
    <3>3. CASE Covered(s, c)
      <4>1. Covered(s, c)'
        BY <1>2, <3>3
      <4> QED BY <3>1, <4>1 DEF Covered
    <3> QED BY <3>1, <3>2, <3>3
  <2>3. ASSUME NEW p \in Plan', NEW s \in nodes'[p].ancestry PROVE Covered(s, nodes[p].cost)'
    <3>1. CASE p \in Plan
      BY <1>3, <1>4, <2>3, <3>1
    <3>2. CASE p = n + 1
      <4>1. nodes'[p] = new
        BY <2>1, <3>2
      <4>2. Covered(s, new.cost)'
        BY <2>2, <2>3, <4>1
      <4> QED BY <4>1, <4>2 DEF Covered
    <3> QED BY <2>1, <2>3, <3>1, <3>2
  <2> QED BY <2>3 DEF AncestryCheaper
<1> QED BY <1>1, <1>5, <1>6, InsertIs DEF Refused, OverLimit

\* What is below the plan of an edge is below its parts, which cost no more.
LEMMA PlannedCovers ==
    ASSUME Structure, AncestryCheaper, NEW e \in DOMAIN edges, NEW c, Fits(e, c),
           NEW s \in Planned(e, c).ancestry
    PROVE  s = Planned(e, c).state \/ Covered(s, Planned(e, c).cost)
<1> DEFINE P == Planned(e, c)
<1>1. /\ P.state = edges[e].parent
      /\ CostOn(P.cost, Qubits(P.state))
      /\ \A i \in DOMAIN c : NoWorse(nodes[c[i]].cost, P.cost)
  BY PlannedIs DEF Costed
<1>2. P.ancestry = (UNION {nodes[c[i]].ancestry : i \in DOMAIN c}) \cup {edges[e].parent}
  <2> DEFINE kids == [i \in DOMAIN c |-> nodes[c[i]]]
  <2>1. P.ancestry = (UNION {kids[i].ancestry : i \in DOMAIN kids}) \cup {edges[e].parent}
    BY DEF Planned
  <2>2. DOMAIN kids = DOMAIN c /\ \A i \in DOMAIN c : kids[i] = nodes[c[i]]
    OBVIOUS
  <2> HIDE DEF kids, P
  <2> QED BY <2>1, <2>2
<1> HIDE DEF P
<1>3. ASSUME NEW i \in DOMAIN c, s \in nodes[c[i]].ancestry PROVE Covered(s, P.cost)
  <2>1. c[i] \in Plan
    BY DEF Fits
  <2>2. s \in State
    BY <1>3, <2>1 DEF AncestryCheaper, Covered
  <2>3. PICK q \in Plan : nodes[q].state = s /\ NoWorse(nodes[q].cost, nodes[c[i]].cost)
    BY <1>3, <2>1 DEF AncestryCheaper, Covered
  <2>4. NoWorse(nodes[q].cost, P.cost)
    BY <1>1, <2>1, <2>3, PlanCost, NoWorseTransitive
  <2> QED BY <2>2, <2>3, <2>4 DEF Covered
<1>4. s \in P.ancestry
  BY DEF P
<1> QED BY <1>1, <1>2, <1>3, <1>4 DEF P

\* What is matched stays so when plans are not touched.
LEMMA PlansStay ==
    ASSUME Matches, UNCHANGED plans
    PROVE  FrontiersMatch' /\ AncestryCheaper'
<1>1. nodes' = nodes /\ frontiers' = frontiers
  BY DEF plans
<1>2. Plan' = Plan
  BY <1>1 DEF Plan
<1>3. FrontiersMatch'
  BY <1>1, <1>2 DEF Matches, FrontiersMatch, Matched
<1>4. AncestryCheaper'
  BY <1>1, <1>2 DEF Matches, AncestryCheaper, Covered
<1> QED BY <1>3, <1>4

\* Without plans there is nothing to match.
LEMMA NoPlansMatch ==
    ASSUME nodes = <<>>
    PROVE  FrontiersMatch /\ AncestryCheaper
<1>1. Plan = {}
  BY DEF Plan
<1> QED BY <1>1 DEF FrontiersMatch, AncestryCheaper

\* Initially there is nothing to match.
LEMMA MatchesInit == ASSUME PlannerInit PROVE Matches
<1>1. nodes = <<>> /\ states = <<>> /\ edges = <<>> /\ explored = <<>> /\ phase = "Idle"
  BY DEF PlannerInit
<1>2. FrontiersMatch /\ AncestryCheaper
  BY <1>1, NoPlansMatch
<1>3. DOMAIN explored = {} /\ DOMAIN states = {}
  BY <1>1
<1> QED BY <1>1, <1>2, <1>3 DEF Matches, TriedMatch, RoundComplete, LeavesMatch

\* Before the search there are no plans.
LEMMA EarlyMatchesNext ==
    ASSUME nodes' = <<>>, DOMAIN explored' = {} \/ \A e \in DOMAIN explored' : explored'[e] = {},
           phase' = "Expanding" \/ (phase' = "Leaves" /\ cursor' = 1),
           states' \in Seq(State)
    PROVE  Matches'
<1>1. Plan' = {}
  BY DEF Plan
<1>2. FrontiersMatch' /\ AncestryCheaper'
  BY <1>1 DEF FrontiersMatch, AncestryCheaper
<1>3. TriedMatch' /\ RoundComplete'
  BY DEF TriedMatch, RoundComplete
<1>4. \A i \in DOMAIN states' : i \in Nat /\ i >= 1
  BY LenProperties
<1>5. LeavesMatch'
  BY <1>4 DEF LeavesMatch
<1> QED BY <1>2, <1>3, <1>5 DEF Matches

\* A batch begins without plans.
LEMMA BeginMatches ==
    ASSUME Structure, NEW R \in RootBatches, Begin(R)
    PROVE  Matches'
<1>1. phase' = "Expanding" /\ nodes' = <<>> /\ explored' = <<>>
  BY DEF Begin
<1>2. states' \in Seq(State)
  BY BeginKeeps DEF Structure, GraphOK
<1>3. DOMAIN explored' = {}
  BY <1>1
<1> QED BY <1>1, <1>2, <1>3, EarlyMatchesNext

\* The graph is expanded before there are plans.
LEMMA ExpandMatches ==
    ASSUME Structure, Expand
    PROVE  Matches'
<1>1. phase = "Expanding" /\ nodes' = nodes
  BY DEF Expand, plans
<1>2. nodes = <<>> /\ explored = <<>>
  BY <1>1 DEF Structure, SearchOK
<1>3. states' \in Seq(State)
  BY ExpandKeeps DEF Structure, GraphOK
<1>4. CASE cursor <= Len(states)
  <2>1. phase' = phase /\ explored' = explored
    BY <1>4 DEF Expand
  <2>2. DOMAIN explored' = {}
    BY <1>2, <2>1
  <2> QED BY <1>1, <1>2, <1>3, <2>1, <2>2, EarlyMatchesNext
<1>5. CASE ~ (cursor <= Len(states))
  <2>1. phase' = "Leaves" /\ cursor' = 1 /\ explored' = [e \in DOMAIN edges |-> {}]
    BY <1>5 DEF Expand
  <2> QED BY <1>1, <1>2, <1>3, <2>1, EarlyMatchesNext
<1> QED BY <1>4, <1>5

\* The native plan of a state is known to match afterwards.
LEMMA LeafMatches ==
    ASSUME Structure, Matches, Leaf
    PROVE  Matches'
<1>1. /\ phase = "Leaves" /\ native' = native /\ states' = states /\ edges' = edges
      /\ explored' = explored /\ pending' = pending /\ changed' = changed /\ selected' = selected
  BY DEF Leaf, graph, search
<1>2. /\ pending = {} /\ DOMAIN explored = DOMAIN edges
      /\ \A e \in DOMAIN explored : \A c \in explored[e] : Fits(e, c)
  BY <1>1 DEF Structure, SearchOK
<1>3. cursor \in Nat \ {0} /\ DOMAIN states = 1..Len(states) /\ Len(states) \in Nat
  BY LenProperties DEF Structure, ControlOK, GraphOK
<1>4. \A e \in DOMAIN explored : \A c \in explored[e] : Cyclic(e, c) \/ Matched(edges[e].parent, Planned(e, c).cost)
  BY <1>1, <1>2 DEF Matches, TriedMatch, Settled
<1>5. ASSUME Inserts PROVE TriedMatch'
  <2> SUFFICES ASSUME NEW e \in DOMAIN explored, NEW c \in explored[e]
               PROVE  Settled(e, c)'
    BY <1>1 DEF TriedMatch
  <2>1. e \in DOMAIN edges /\ Fits(e, c)
    BY <1>2
  <2>2. Cyclic(e, c)' \/ Matched(edges[e].parent, Planned(e, c).cost)'
    BY <1>1, <1>4, <1>5, <2>1, SettledStays
  <2> QED BY <2>2 DEF Settled
<1>6. ASSUME Inserts, NEW i \in DOMAIN states, i < cursor, states[i] \in DOMAIN native
      PROVE  Matched(states[i], LeafCost(states[i]))'
  <2>1. PICK s, d : s = states[i] /\ d = LeafCost(s)
    OBVIOUS
  <2>2. Matched(s, d)
    BY <1>1, <1>6, <2>1 DEF Matches, LeavesMatch
  <2>3. s \in State /\ CostOn(d, Qubits(s))
    BY <1>6, <2>1, LeafIs DEF Structure
  <2>4. Matched(s, d)'
    BY <1>6, <2>2, <2>3, InsertsKeep
  <2>5. states'[i] = s /\ LeafCost(s)' = d
    BY <1>1, <2>1 DEF LeafCost
  <2> QED BY <2>4, <2>5 DEF Matched
<1>7. RoundComplete' \/ phase' = "Solving"
  BY <1>1 DEF RoundComplete, Leaf, Insert
<1>8. CASE cursor <= Len(states) /\ states[cursor] \in DOMAIN native
  <2>1. PICK k, s : k = cursor /\ s = states[cursor]
    OBVIOUS
  <2> DEFINE new == LeafPlan(s)
  <2>2. Insert(new) /\ cursor' = k + 1
    BY <1>8, <2>1 DEF Leaf, LeafPlan
  <2>3. Len(nodes) + 1 \in Nat
    BY PlansFinite
  <2>4. PlanOK(new, Len(nodes) + 1) /\ s \in State
    BY <1>8, <2>1, <2>3, LeafIs DEF Structure
  <2>5. new.state = s /\ new.cost = LeafCost(s) /\ new.ancestry = {s}
    BY DEF LeafPlan
  <2>6. LeafCost(s)' = LeafCost(s)
    BY <1>1 DEF LeafCost
  <2>7. PICK d, n : d = LeafCost(s) /\ n = new
    OBVIOUS
  <2> HIDE DEF new
  <2>8. Inserts
    BY <2>2, <2>4 DEF Inserts
  <2>9. Insert(n) /\ PlanOK(n, Len(nodes) + 1) /\ n.state = s /\ n.cost = d /\ n.ancestry = {s}
    BY <2>2, <2>4, <2>5, <2>7
  <2>10. FrontiersMatch'
    BY <2>9, InsertKeepsMatch DEF Matches
  <2>11. AncestryCheaper'
    BY <2>9, AncestryStays DEF Matches
  <2>12. phase' \in {"Leaves", "Failed"} /\ (phase' = "Leaves" => Matched(s, d)')
    <3>1. CASE OverLimit
      BY <3>1 DEF OverLimit
    <3>2. CASE ~ OverLimit
      <4>1. Matched(n.state, n.cost)'
        BY <2>9, <3>2, InsertMatches
      <4>2. phase' = phase
        BY <2>4, <2>9, <3>2, InsertIs DEF Refused, Accepted
      <4> QED BY <1>1, <2>9, <4>1, <4>2 DEF Matched
    <3> QED BY <3>1, <3>2
  <2>13. LeavesMatch'
    <3> SUFFICES ASSUME NEW i \in DOMAIN states', phase' = "Leaves", i < cursor', states'[i] \in DOMAIN native'
                 PROVE  Matched(states[i], LeafCost(states[i]))'
      BY <2>12 DEF LeavesMatch
    <3>1. CASE i < cursor
      BY <1>1, <1>6, <2>8, <3>1
    <3>2. CASE i = k
      <4>1. states'[i] = s /\ LeafCost(s)' = d
        BY <1>1, <2>1, <2>6, <2>7, <3>2
      <4> QED BY <2>12, <4>1 DEF Matched
    <3>3. i < cursor \/ i = k
      BY <1>1, <1>3, <2>1, <2>2
    <3> QED BY <3>1, <3>2, <3>3
  <2> QED BY <1>5, <1>7, <2>8, <2>10, <2>11, <2>12, <2>13 DEF Matches
<1>9. CASE ~ (cursor <= Len(states) /\ states[cursor] \in DOMAIN native)
  <2>1. UNCHANGED plans
    BY <1>9 DEF Leaf
  <2>2. Inserts
    BY <2>1 DEF Inserts
  <2>3. FrontiersMatch' /\ AncestryCheaper'
    BY <2>1, PlansStay
  <2>4. CASE cursor <= Len(states)
    <3>1. phase' = "Leaves" /\ cursor' = cursor + 1
      BY <1>1, <1>9, <2>4 DEF Leaf
    <3>2. LeavesMatch'
      <4> SUFFICES ASSUME NEW i \in DOMAIN states', i < cursor', states'[i] \in DOMAIN native'
                   PROVE  Matched(states[i], LeafCost(states[i]))'
        BY <3>1 DEF LeavesMatch
      <4>1. i < cursor \/ i = cursor
        BY <1>1, <1>3, <3>1
      <4>2. i # cursor
        BY <1>1, <1>9, <2>4
      <4> QED BY <1>1, <1>6, <2>2, <4>1, <4>2
    <3> QED BY <1>5, <1>7, <2>2, <2>3, <3>1, <3>2 DEF Matches
  <2>5. CASE ~ (cursor <= Len(states))
    <3>1. phase' = "Solving" /\ cursor' = 1
      BY <2>5 DEF Leaf
    <3>2. RoundComplete'
      <4>1. \A e \in DOMAIN edges' : ~ (e < 1)
        BY <1>1, LenProperties DEF Structure, GraphOK
      <4> QED BY <1>1, <1>2, <3>1, <4>1 DEF RoundComplete
    <3>3. LeavesMatch'
      <4> SUFFICES ASSUME NEW i \in DOMAIN states', states'[i] \in DOMAIN native'
                   PROVE  Matched(states[i], LeafCost(states[i]))'
        BY DEF LeavesMatch
      <4>1. i < cursor
        BY <1>1, <1>3, <2>5
      <4> QED BY <1>1, <1>6, <2>2, <4>1
    <3> QED BY <1>5, <2>2, <2>3, <3>2, <3>3 DEF Matches
  <2> QED BY <2>4, <2>5
<1> QED BY <1>8, <1>9

\* The combinations listed are those to be tried.
LEMMA NextEdgeMatches ==
    ASSUME Structure, Matches, NextEdge
    PROVE  Matches'
<1>1. /\ phase = "Solving" /\ pending = {} /\ cursor <= Len(edges)
      /\ phase' = phase /\ native' = native /\ states' = states /\ edges' = edges
      /\ nodes' = nodes /\ frontiers' = frontiers /\ changed' = changed
      /\ pending' = Combinations(cursor) \ explored[cursor]
      /\ explored' = [explored EXCEPT ![cursor] = @ \cup pending']
      /\ cursor' = IF pending' = {} THEN cursor + 1 ELSE cursor
      /\ UNCHANGED plans
  BY DEF NextEdge, graph, plans
<1>2. DOMAIN explored = DOMAIN edges /\ cursor \in DOMAIN edges /\ cursor \in Nat \ {0}
  <2>1. DOMAIN edges = 1..Len(edges)
    BY LenProperties DEF Structure, GraphOK
  <2>2. DOMAIN explored = DOMAIN edges /\ cursor \in Nat \ {0}
    BY <1>1 DEF Structure, SearchOK, ControlOK
  <2> QED BY <1>1, <2>1, <2>2
<1>3. FrontiersMatch' /\ AncestryCheaper'
  BY <1>1, PlansStay
<1>4. TriedMatch'
  <2> SUFFICES ASSUME NEW e \in DOMAIN explored', NEW c \in explored'[e] PROVE Settled(e, c)'
    BY DEF TriedMatch
  <2>1. CASE e = cursor /\ c \in pending'
    <3>1. cursor' = cursor
      BY <1>1, <2>1
    <3> QED BY <2>1, <3>1 DEF Settled
  <2>2. CASE e \in DOMAIN explored /\ c \in explored[e]
    <3>1. Cyclic(e, c) \/ Matched(edges[e].parent, Planned(e, c).cost)
      BY <1>1, <2>2 DEF Matches, TriedMatch, Settled
    <3>2. Cyclic(e, c)' \/ Matched(edges[e].parent, Planned(e, c).cost)'
      BY <1>1, <3>1 DEF Cyclic, Matched, Planned
    <3> QED BY <3>2 DEF Settled
  <2> QED BY <1>1, <1>2, <2>1, <2>2
<1>5. RoundComplete'
  <2> SUFFICES ASSUME ~ changed, NEW e \in DOMAIN edges,
                      e < cursor' \/ (e = cursor' /\ pending' # {})
               PROVE  Combinations(e) \subseteq explored'[e]
    <3>1. \A e : Combinations(e)' = Combinations(e)
      BY <1>1 DEF Combinations
    <3> QED BY <1>1, <3>1 DEF RoundComplete
  <2>1. e \in Nat
    BY LenProperties DEF Structure, GraphOK
  <2>2. e < cursor \/ e = cursor
    BY <1>1, <1>2, <2>1
  <2>3. CASE e < cursor
    <3>1. Combinations(e) \subseteq explored[e]
      BY <1>1, <2>3 DEF Matches, RoundComplete
    <3> QED BY <1>1, <1>2, <3>1
  <2>4. CASE e = cursor
    <3>1. explored'[e] = explored[e] \cup pending'
      BY <1>1, <1>2, <2>4
    <3> QED BY <1>1, <2>4, <3>1
  <2> QED BY <2>2, <2>3, <2>4
<1>6. LeavesMatch'
  <2>1. \A s : LeafCost(s)' = LeafCost(s)
    BY <1>1 DEF LeafCost
  <2> QED BY <1>1, <2>1 DEF Matches, LeavesMatch, Matched
<1> QED BY <1>3, <1>4, <1>5, <1>6 DEF Matches

\* A combination that is tried is settled by it.
LEMMA TryMatches ==
    ASSUME Structure, Matches, Try
    PROVE  Matches'
<1>1. /\ phase = "Solving" /\ native' = native /\ states' = states /\ edges' = edges
      /\ explored' = explored
      /\ DOMAIN explored = DOMAIN edges /\ cursor \in DOMAIN edges /\ cursor \in Nat \ {0}
  BY TryIs
<1>2. PICK c \in pending : c \in explored[cursor] /\ Fits(cursor, c) /\ Tried(c)
  BY TryIs
<1>3. PICK k : k = cursor
  OBVIOUS
<1>4. /\ pending' = pending \ {c} /\ cursor' = IF pending' = {} THEN k + 1 ELSE k
      /\ changed' = (changed \/ nodes' # nodes)
  BY <1>2, <1>3 DEF Tried
<1>5. PICK new : new = Planned(k, c)
  OBVIOUS
<1>6. Fits(k, c) /\ k \in DOMAIN edges /\ new.state = edges[k].parent
  BY <1>1, <1>2, <1>3, <1>5, PlannedIs
<1>7. \/ OverLimit
      \/ Cyclic(k, c) /\ UNCHANGED <<phase, plans>>
      \/ ~ Cyclic(k, c) /\ PlanOK(new, Len(nodes) + 1) /\ Insert(new)
  BY <1>2, <1>3, <1>5, <1>6, PlannedIs DEF Tried
<1>8. Inserts
  BY <1>7 DEF Inserts, OverLimit
<1>9. FrontiersMatch' /\ AncestryCheaper'
  <2>1. CASE UNCHANGED plans
    BY <2>1, PlansStay
  <2>2. CASE PlanOK(new, Len(nodes) + 1) /\ Insert(new)
    <3>1. \A s \in new.ancestry : s = new.state \/ Covered(s, new.cost)
      BY <1>5, <1>6, PlannedCovers DEF Matches
    <3> QED BY <2>2, <3>1, AncestryStays, InsertKeepsMatch DEF Matches
  <2> QED BY <1>7, <2>1, <2>2 DEF OverLimit
<1>10. NodesGrow
  BY <1>8, InsertsKeep
<1>11. TriedMatch'
  <2> SUFFICES ASSUME phase' # "Failed", NEW e \in DOMAIN explored, NEW d \in explored[e]
               PROVE  Settled(e, d)'
    BY <1>1 DEF TriedMatch
  <2>1. e \in DOMAIN edges /\ Fits(e, d)
    BY <1>1 DEF Structure, SearchOK
  <2>2. CASE e = k /\ d = c
    <3>1. Planned(k, c)' = Planned(k, c) /\ (Cyclic(k, c)' <=> Cyclic(k, c))
      BY <1>1, <1>6, <1>10, PlannedStays
    <3>2. CASE Cyclic(k, c)
      <4>1. Cyclic(e, d)'
        BY <2>2, <3>1, <3>2
      <4> QED BY <4>1 DEF Settled
    <3>3. CASE ~ Cyclic(k, c)
      <4>1. ~ OverLimit
        BY DEF OverLimit
      <4>2. Matched(new.state, new.cost)'
        BY <1>7, <3>3, <4>1, InsertMatches
      <4>3. new.state = edges'[k].parent /\ new = Planned(k, c)'
        BY <1>1, <1>5, <1>6, <3>1
      <4>4. Matched(edges[e].parent, Planned(e, d).cost)'
        BY <2>2, <4>2, <4>3 DEF Matched
      <4> QED BY <4>4 DEF Settled
    <3> QED BY <3>2, <3>3
  <2>3. CASE e = k /\ d \in pending /\ d # c
    <3>1. d \in pending' /\ cursor' = k
      BY <1>4, <2>3
    <3> QED BY <2>3, <3>1 DEF Settled
  <2>4. CASE Cyclic(e, d) \/ Matched(edges[e].parent, Planned(e, d).cost)
    <3>1. Cyclic(e, d)' \/ Matched(edges[e].parent, Planned(e, d).cost)'
      BY <1>1, <1>8, <2>1, <2>4, SettledStays
    <3> QED BY <3>1 DEF Settled
  <2>5. Settled(e, d)
    BY <1>1 DEF Matches, TriedMatch
  <2> QED BY <1>3, <2>2, <2>3, <2>4, <2>5 DEF Settled
<1>12. RoundComplete'
  <2> SUFFICES ASSUME phase' = "Solving" /\ ~ changed', NEW e \in DOMAIN edges,
                      e < cursor' \/ (e = cursor' /\ pending' # {})
               PROVE  Combinations(e)' \subseteq explored'[e]
    <3>1. phase' \in {"Solving", "Failed"}
      BY <1>1, <1>2, TriedInserts
    <3> QED BY <1>1, <3>1 DEF RoundComplete
  <2>1. ~ changed /\ nodes' = nodes
    BY <1>4
  <2>2. frontiers' = frontiers
    <3>1. ~ Accepted(new)
      BY <2>1, AcceptedGrows
    <3>2. new.state \in State
      BY <1>6, EdgeIs DEF Structure
    <3> QED BY <1>7, <3>1, <3>2, InsertIs DEF Refused, OverLimit, plans
  <2>3. e \in Nat
    BY LenProperties DEF Structure, GraphOK
  <2>4. e < k \/ e = k
    BY <1>1, <1>3, <1>4, <2>3
  <2>5. Combinations(e) \subseteq explored[e]
    BY <1>1, <1>3, <2>1, <2>4 DEF Matches, RoundComplete
  <2>6. Combinations(e)' = Combinations(e)
    BY <1>1, <2>2 DEF Combinations
  <2> QED BY <1>1, <2>5, <2>6
<1>13. LeavesMatch'
  <2> SUFFICES ASSUME NEW i \in DOMAIN states, states[i] \in DOMAIN native
               PROVE  Matched(states[i], LeafCost(states[i]))'
    BY <1>1 DEF LeavesMatch
  <2>1. PICK s, d : s = states[i] /\ d = LeafCost(s)
    OBVIOUS
  <2>2. Matched(s, d)
    BY <1>1, <2>1 DEF Matches, LeavesMatch
  <2>3. s \in State /\ CostOn(d, Qubits(s))
    BY <2>1, LeafIs DEF Structure
  <2>4. Matched(s, d)'
    BY <1>8, <2>2, <2>3, InsertsKeep
  <2>5. states'[i] = s /\ LeafCost(s)' = d
    BY <1>1, <2>1 DEF LeafCost
  <2> QED BY <2>4, <2>5 DEF Matched
<1> QED BY <1>9, <1>11, <1>12, <1>13 DEF Matches

\* Steps that build no plan and end no combination.
LEMMA QuietMatches ==
    ASSUME Structure, Matches, Repeat \/ Select \/ UNCHANGED plannerVars
    PROVE  Matches'
<1>1. /\ UNCHANGED plans /\ nodes' = nodes /\ frontiers' = frontiers
      /\ native' = native /\ states' = states /\ edges' = edges
      /\ explored' = explored /\ pending' = pending
  BY DEF Repeat, Select, plannerVars, graph, plans, search
<1>2. \/ phase = "Solving" /\ pending = {} /\ phase' = "Solving" /\ cursor' = 1
      \/ /\ phase = "Solving" /\ pending = {} /\ ~ changed /\ phase' = "Done"
         /\ cursor' = cursor
      \/ phase' = phase /\ cursor' = cursor /\ changed' = changed
  BY DEF Repeat, Select, plannerVars, graph, plans, search
<1>3. FrontiersMatch' /\ AncestryCheaper'
  BY <1>1, PlansStay
<1>4. \A e, c : Planned(e, c)' = Planned(e, c)
  BY <1>1 DEF Planned
<1>5. TriedMatch'
  <2> SUFFICES ASSUME phase' # "Failed", NEW e \in DOMAIN explored, NEW c \in explored[e]
               PROVE  Settled(e, c)'
    BY <1>1 DEF TriedMatch
  <2>1. Settled(e, c)
    BY <1>2 DEF Matches, TriedMatch
  <2>2. CASE e = cursor /\ c \in pending
    <3>1. e = cursor' /\ c \in pending'
      BY <1>1, <1>2, <2>2
    <3> QED BY <3>1 DEF Settled
  <2>3. CASE Cyclic(e, c)
    <3>1. Cyclic(e, c)'
      BY <1>1, <2>3 DEF Cyclic
    <3> QED BY <3>1 DEF Settled
  <2>4. CASE Matched(edges[e].parent, Planned(e, c).cost)
    <3>1. Matched(edges[e].parent, Planned(e, c).cost)'
      BY <1>1, <1>4, <2>4 DEF Matched
    <3> QED BY <3>1 DEF Settled
  <2> QED BY <2>1, <2>2, <2>3, <2>4 DEF Settled
<1>6. RoundComplete'
  <2>1. \A e \in DOMAIN edges : ~ (e < 1)
    BY LenProperties DEF Structure, GraphOK
  <2>2. \A e : Combinations(e)' = Combinations(e)
    BY <1>1 DEF Combinations
  <2> QED BY <1>1, <1>2, <2>1, <2>2 DEF Matches, RoundComplete
<1>7. LeavesMatch'
  <2>1. \A s : LeafCost(s)' = LeafCost(s)
    BY <1>1 DEF LeafCost
  <2> QED BY <1>1, <1>2, <2>1 DEF Matches, LeavesMatch, Matched
<1> QED BY <1>3, <1>5, <1>6, <1>7 DEF Matches

\* No step loses a match ...
LEMMA MatchesStep ==
    ASSUME Structure, Matches, [PlannerNext]_plannerVars
    PROVE  Matches'
<1>1. ASSUME NEW R \in RootBatches, Begin(R) PROVE Matches'
  BY <1>1, BeginMatches
<1> QED
  BY <1>1, ExpandMatches, LeafMatches, NextEdgeMatches, TryMatches, QuietMatches
     DEF PlannerNext, Solve, Finished

\* ... so whatever was tried or inserted stays matched.
THEOREM MatchesInductive == PlannerSpec => []Matches
<1>1. PlannerInit => Matches
  BY MatchesInit
<1>2. Structure /\ Matches /\ [PlannerNext]_plannerVars => Matches'
  BY MatchesStep
<1> QED BY <1>1, <1>2, StructureInductive, PTL DEF PlannerSpec

\* At the fixpoint cyclic combinations are matched, too: what is below a plan
\* has a plan that costs no more, which has its match in the frontier.
LEMMA LostNothing == Structure /\ Matches => NothingLost
<1> SUFFICES ASSUME Structure, Matches, phase = "Done" PROVE NothingLost
  BY DEF NothingLost
<1>1. ASSUME NEW s \in Range(states) \cap DOMAIN native
      PROVE  \E p \in frontiers[s] : NoWorse(nodes[p].cost, LeafCost(s))
  <2>1. PICK i \in DOMAIN states : states[i] = s
    BY DEF Range
  <2> QED BY <2>1 DEF Matches, LeavesMatch, Matched
<1>2. ASSUME NEW e \in DOMAIN edges, NEW c \in Combinations(e)
      PROVE  \E p \in frontiers[edges[e].parent] : NoWorse(nodes[p].cost, Planned(e, c).cost)
  <2> DEFINE s == edges[e].parent
             P == Planned(e, c)
  <2>1. /\ pending = {} /\ cursor > Len(edges) /\ DOMAIN explored = DOMAIN edges
        /\ \A f \in DOMAIN explored : \A d \in explored[f] : Fits(f, d)
    BY DEF Structure, SearchOK
  <2>2. e < cursor
    <3>1. e \in 1..Len(edges) /\ Len(edges) \in Nat /\ cursor \in Nat
      BY LenProperties DEF Structure, GraphOK, ControlOK
    <3> QED BY <2>1, <3>1
  <2>3. c \in explored[e]
    BY <2>2 DEF Matches, RoundComplete
  <2>4. Cyclic(e, c) \/ Matched(s, P.cost)
    BY <2>1, <2>3 DEF Matches, TriedMatch, Settled
  <2>5. Fits(e, c)
    BY <2>1, <2>3
  <2>6. s \in State /\ CostOn(P.cost, Qubits(P.state)) /\ \A i \in DOMAIN c : NoWorse(nodes[c[i]].cost, P.cost)
    BY <2>5, EdgeIs, PlannedIs DEF Costed, Structure
  <2> HIDE DEF P
  <2>7. CASE Cyclic(e, c)
    <3>1. PICK i \in DOMAIN c : s \in nodes[c[i]].ancestry
      BY <2>7 DEF Cyclic
    <3>2. c[i] \in Plan
      BY <2>5 DEF Fits
    <3>3. PICK q \in Plan : nodes[q].state = s /\ NoWorse(nodes[q].cost, nodes[c[i]].cost)
      BY <3>1, <3>2 DEF Matches, AncestryCheaper, Covered
    <3>4. NoWorse(nodes[q].cost, P.cost)
      BY <2>6, <3>2, <3>3, PlanCost, NoWorseTransitive
    <3>5. Matched(s, nodes[q].cost)
      BY <3>3 DEF Matches, FrontiersMatch
    <3>6. Matched(s, P.cost)
      BY <2>6, <3>3, <3>4, <3>5, PlanCost, MatchedMore
    <3> QED BY <3>6 DEF Matched, P
  <2> QED BY <2>4, <2>7 DEF Matched, P
<1> QED BY <1>1, <1>2 DEF NothingLost

\* When a batch is done, every native leaf and every combination of plans left,
\* even one refused as cyclic, is matched by a plan of the frontier of its state.
THEOREM PruningLosesNothing == PlannerSpec => []NothingLost
BY StructureInductive, MatchesInductive, LostNothing, PTL

-----------------------------------------------------------------------------
(* All the plans there could be *)

\* A plan of a native instruction, or of a decomposition into earlier plans.
Derived(w, k) ==
    /\ w[k].state \in State
    /\ \/ w[k].state \in DOMAIN native /\ w[k].cost = LeafCost(w[k].state)
       \/ \E d \in Candidates(w[k].state) : \E c \in [DOMAIN d.children -> 1 .. k - 1] :
             /\ \A i \in DOMAIN c : w[c[i]].state = d.children[i]
             /\ w[k].cost = Assembled(d.name, [i \in DOMAIN c |-> w[c[i]]], Qubits(w[k].state)).cost

\* An arena of n plans, none pruned and none refused.
Arena(w, n) == n \in Nat /\ \A k \in 1..n : Derived(w, k)

\* The physical cost of the best of all plans of a state, or that it has none.
Optimal(s, x) ==
    \/ x = <<>> /\ \A n, w : Arena(w, n) => \A k \in 1..n : w[k].state # s
    \/ /\ \E n, w : Arena(w, n) /\ \E k \in 1..n : w[k].state = s /\ Objective(w[k].cost) = x
       /\ \A n, w : Arena(w, n) => \A k \in 1..n :
             w[k].state = s => ~ LexLess(Objective(w[k].cost), x)

-----------------------------------------------------------------------------
\* The smallest index with a property follows from those before it.
LEMMA CountAll ==
    ASSUME NEW n \in Nat, NEW S,
           \A k \in 1..n : (\A j \in 1 .. k - 1 : j \in S) => k \in S
    PROVE  \A k \in 1..n : k \in S
<1> DEFINE T == {k \in 0..n : \A j \in 1..k : j \in S}
<1>1. 0 \in T
  OBVIOUS
<1>2. ASSUME NEW k \in 1..n, k - 1 \in T PROVE k \in T
  <2>1. \A j \in 1 .. k - 1 : j \in S
    BY <1>2
  <2>2. k \in S
    BY <2>1
  <2>3. \A j \in 1..k : j \in 1 .. k - 1 \/ j = k
    OBVIOUS
  <2> QED BY <2>1, <2>2, <2>3
<1> HIDE DEF T
<1>3. \A k \in 0..n : k \in T
  BY <1>1, <1>2, CountUp
<1>4. n \in T
  BY <1>3
<1> QED BY <1>4 DEF T

\* A derived plan has the cost of its parts put together.
LEMMA DerivedParts ==
    ASSUME NEW s \in State, NEW d \in Candidates(s), NEW w, NEW c \in [DOMAIN d.children -> Nat]
    PROVE  /\ Len(d.children) \in Nat /\ DOMAIN d.children = 1..Len(d.children)
           /\ d.name \in Int
           /\ \A i \in DOMAIN d.children : d.children[i] \in State /\ Qubits(d.children[i]) \subseteq Qubits(s)
           /\ Len([i \in DOMAIN c |-> w[c[i]]]) = Len(d.children)
           /\ DOMAIN c = 1..Len(d.children)
<1>1. d.name \in Int /\ d.children \in Seq({k \in State : Qubits(k) \subseteq Qubits(s)})
  BY CandidatesAssumption
<1>2. Len(d.children) \in Nat /\ DOMAIN d.children = 1..Len(d.children)
  BY <1>1, LenProperties
<1>3. ASSUME NEW i \in DOMAIN d.children
      PROVE  d.children[i] \in State /\ Qubits(d.children[i]) \subseteq Qubits(s)
  <2>1. d.children[i] \in {k \in State : Qubits(k) \subseteq Qubits(s)}
    BY <1>1, <1>2, ElementOfSeq
  <2> QED BY <2>1
<1>4. DOMAIN c = 1..Len(d.children)
  BY <1>2
<1> DEFINE kids == [i \in DOMAIN c |-> w[c[i]]]
           m == Len(d.children)
<1>5. kids = [i \in 1..m |-> w[c[i]]]
  BY <1>4
<1> HIDE DEF m, kids
<1>6. Len(kids) = m
  <2>1. m \in Nat
    BY <1>2 DEF m
  <2> QED BY <1>5, <2>1
<1> QED BY <1>1, <1>2, <1>3, <1>4, <1>6 DEF m, kids

\* Derived plans have costs on the qubits of their states.
LEMMA ArenaCosted ==
    ASSUME Structure, NEW n, NEW w, Arena(w, n), NEW k \in 1..n
    PROVE  Costed(w[k])
<1> DEFINE S == {j \in 1..n : Costed(w[j])}
<1>1. n \in Nat
  BY DEF Arena
<1>2. ASSUME NEW j \in 1..n, \A i \in 1 .. j - 1 : i \in S PROVE j \in S
  <2> DEFINE s == w[j].state
  <2>1. Derived(w, j) /\ s \in State
    BY DEF Arena, Derived
  <2>2. CASE s \in DOMAIN native /\ w[j].cost = LeafCost(s)
    BY <2>1, <2>2, LeafIs DEF Structure, Costed
  <2>3. ASSUME NEW d \in Candidates(s), NEW c \in [DOMAIN d.children -> 1 .. j - 1],
               \A i \in DOMAIN c : w[c[i]].state = d.children[i],
               w[j].cost = Assembled(d.name, [i \in DOMAIN c |-> w[c[i]]], Qubits(s)).cost
        PROVE  Costed(w[j])
    <3> DEFINE kids == [i \in DOMAIN c |-> w[c[i]]]
               m == Len(d.children)
    <3> HIDE DEF s
    <3>1. c \in [DOMAIN d.children -> Nat]
      BY <1>1
    <3>2. /\ m \in Nat /\ d.name \in Int /\ Len(kids) = m /\ DOMAIN c = 1..m /\ DOMAIN d.children = 1..m
          /\ \A i \in DOMAIN d.children : Qubits(d.children[i]) \subseteq Qubits(s)
      BY <2>1, <3>1, DerivedParts
    <3>3. \A i \in 1..m : kids[i] = w[c[i]]
      BY <3>2
    <3> HIDE DEF kids, m
    <3>4. ASSUME NEW i \in 1..m PROVE Costed(kids[i]) /\ Qubits(kids[i].state) \subseteq Qubits(s)
      <4>1. c[i] \in 1 .. j - 1 /\ i \in DOMAIN c /\ i \in DOMAIN d.children
        BY <3>2
      <4>2. Costed(w[c[i]])
        BY <1>2, <4>1
      <4>3. w[c[i]].state = d.children[i] /\ Qubits(d.children[i]) \subseteq Qubits(s)
        BY <2>3, <3>2, <4>1
      <4>4. kids[i] = w[c[i]]
        BY <3>3
      <4> HIDE DEF S
      <4> QED BY <4>2, <4>3, <4>4
    <3>5. CostOn(Assembled(d.name, kids, Qubits(s)).cost, Qubits(s))
      BY <2>1, <3>2, <3>4, QubitsFinite, AssembledIs
    <3> QED BY <2>1, <2>3, <3>5 DEF Costed, kids, s
  <2> QED BY <2>1, <2>2, <2>3 DEF Derived
<1> HIDE DEF S
<1>3. k \in S
  BY <1>1, <1>2, CountAll
<1> QED BY <1>3 DEF S

-----------------------------------------------------------------------------
\* A state that is expanded has all of its decompositions among the edges.
HasEdges(s) == \A d \in Candidates(s) : \E e \in DOMAIN edges :
                  edges[e].parent = s /\ edges[e].children = d.children
Expanded ==
    /\ phase = "Expanding" => \A i \in DOMAIN states : i < cursor => HasEdges(states[i])
    /\ phase \in {"Leaves", "Solving", "Done"} => \A i \in DOMAIN states : HasEdges(states[i])

\* When nothing is lost, any plan of a state of the batch is matched.
LEMMA ArenaMatched ==
    ASSUME Structure, NothingLost, Expanded, phase = "Done",
           NEW n, NEW w, Arena(w, n), NEW k \in 1..n, w[k].state \in Range(states)
    PROVE  Matched(w[k].state, w[k].cost)
<1> DEFINE S == {j \in 1..n : w[j].state \in Range(states) => Matched(w[j].state, w[j].cost)}
<1>1. n \in Nat
  BY DEF Arena
<1>2. ASSUME NEW j \in 1..n, \A i \in 1 .. j - 1 : i \in S PROVE j \in S
  <2> SUFFICES ASSUME w[j].state \in Range(states) PROVE Matched(w[j].state, w[j].cost)
    OBVIOUS
  <2>1. PICK s : s = w[j].state
    OBVIOUS
  <2>2. Derived(w, j) /\ s \in State /\ s \in Range(states) /\ Costed(w[j])
    BY <2>1, ArenaCosted DEF Arena, Derived
  <2>3. CASE s \in DOMAIN native /\ w[j].cost = LeafCost(s)
    BY <2>1, <2>2, <2>3 DEF NothingLost, Matched
  <2>4. ASSUME NEW d \in Candidates(s), NEW c \in [DOMAIN d.children -> 1 .. j - 1],
               \A i \in DOMAIN c : w[c[i]].state = d.children[i],
               w[j].cost = Assembled(d.name, [i \in DOMAIN c |-> w[c[i]]], Qubits(s)).cost
        PROVE  Matched(w[j].state, w[j].cost)
    <3> DEFINE olds == [i \in DOMAIN c |-> w[c[i]]]
               m == Len(d.children)
    <3>1. c \in [DOMAIN d.children -> Nat]
      BY <1>1
    <3>2. /\ m \in Nat /\ d.name \in Int /\ Len(olds) = m /\ DOMAIN c = 1..m /\ DOMAIN d.children = 1..m
          /\ \A i \in DOMAIN d.children : d.children[i] \in State /\ Qubits(d.children[i]) \subseteq Qubits(s)
      BY <2>2, <3>1, DerivedParts
    <3>3. \A i \in 1..m : olds[i] = w[c[i]]
      BY <3>2
    <3>4. PICK e \in DOMAIN edges : edges[e].parent = s /\ edges[e].children = d.children
      <4>1. HasEdges(s)
        BY <2>2 DEF Expanded, Range
      <4> QED BY <4>1 DEF HasEdges
    <3>5. ASSUME NEW i \in 1..m
          PROVE  /\ d.children[i] \in State /\ Costed(w[c[i]]) /\ w[c[i]].state = d.children[i]
                 /\ \E q \in frontiers[d.children[i]] : NoWorse(nodes[q].cost, w[c[i]].cost)
      <4>1. c[i] \in 1 .. j - 1 /\ c[i] \in S /\ c[i] \in 1..n
        BY <1>1, <1>2, <2>4, <3>2
      <4>2. w[c[i]].state = d.children[i] /\ Costed(w[c[i]])
        BY <2>4, <3>2, <4>1, ArenaCosted
      <4>3. d.children[i] \in Range(states) /\ d.children[i] \in State
        <5>1. i \in DOMAIN edges[e].children
          BY <3>2, <3>4
        <5> QED BY <3>4, <5>1, EdgeIs DEF Structure
      <4> QED BY <4>1, <4>2, <4>3 DEF Matched
    <3> HIDE DEF olds, m
    <3> DEFINE b == [i \in 1..m |-> CHOOSE q \in frontiers[d.children[i]] : NoWorse(nodes[q].cost, w[c[i]].cost)]
               kids == [i \in DOMAIN b |-> nodes[b[i]]]
    <3>6. DOMAIN b = 1..m /\ \A i \in 1..m : b[i] \in frontiers[d.children[i]] /\ NoWorse(nodes[b[i]].cost, w[c[i]].cost)
      <4> SUFFICES ASSUME NEW i \in 1..m
                   PROVE  b[i] \in frontiers[d.children[i]] /\ NoWorse(nodes[b[i]].cost, w[c[i]].cost)
        OBVIOUS
      <4>1. \E q \in frontiers[d.children[i]] : NoWorse(nodes[q].cost, w[c[i]].cost)
        BY <3>5
      <4>2. b[i] = CHOOSE q \in frontiers[d.children[i]] : NoWorse(nodes[q].cost, w[c[i]].cost)
        OBVIOUS
      <4> HIDE DEF b
      <4> QED BY <4>1, <4>2
    <3>7. b = [i \in 1..m |-> b[i]]
      OBVIOUS
    <3> HIDE DEF b
    <3>8. b \in Combinations(e)
      <4>1. b \in [1..m -> UNION {frontiers[d.children[i]] : i \in 1..m}]
        BY <3>6, <3>7
      <4>2. DOMAIN d.children = 1..m
        BY <3>2 DEF m
      <4> QED BY <3>4, <3>6, <4>1, <4>2 DEF Combinations
    <3>9. Fits(e, b)
      BY <3>8, CombinationsFit
    <3>10. /\ Planned(e, b).cost = Assembled(edges[e].name, kids, Qubits(s)).cost
           /\ CostOn(Planned(e, b).cost, Qubits(s))
      <4>1. /\ Planned(e, b).state = edges[e].parent /\ Costed(Planned(e, b))
            /\ Planned(e, b).cost = Assembled(edges[e].name, [i \in DOMAIN b |-> nodes[b[i]]], Qubits(edges[e].parent)).cost
        BY <3>9, PlannedIs
      <4> QED BY <3>4, <4>1 DEF Costed
    <3>11. Len(kids) = m /\ \A i \in 1..m : kids[i] = nodes[b[i]]
      <4>1. kids = [i \in 1..m |-> nodes[b[i]]]
        BY <3>6
      <4>2. m \in Nat
        BY <3>2 DEF m
      <4> HIDE DEF kids
      <4> QED BY <4>1, <4>2
    <3> HIDE DEF kids
    <3>12. ASSUME NEW i \in 1..m
           PROVE  /\ Costed(kids[i]) /\ Costed(olds[i]) /\ kids[i].state = olds[i].state
                  /\ Qubits(kids[i].state) \subseteq Qubits(s)
                  /\ NoWorse(kids[i].cost, olds[i].cost)
      <4>1. b[i] \in Plan /\ nodes[b[i]].state = d.children[i]
        BY <3>5, <3>6 DEF Structure, FrontiersOK
      <4>2. Costed(nodes[b[i]])
        BY <4>1, PlanCost DEF Costed
      <4>3. olds[i] = w[c[i]] /\ Qubits(d.children[i]) \subseteq Qubits(s)
        BY <3>2, <3>3 DEF m, olds
      <4> QED BY <3>5, <3>6, <3>11, <4>1, <4>2, <4>3
    <3>13. edges[e].name \in Int /\ d.name \in Int /\ m \in Nat /\ Len(olds) = m /\ IsFiniteSet(Qubits(s))
      BY <2>2, <3>2, EdgeIs, QubitsFinite DEF Structure, m, olds
    <3>14. NoWorse(Assembled(edges[e].name, kids, Qubits(s)).cost, Assembled(d.name, olds, Qubits(s)).cost)
      <4>1. Len(kids) = m
        BY <3>11
      <4>2. \A i \in 1..m : /\ Costed(kids[i]) /\ Costed(olds[i]) /\ kids[i].state = olds[i].state
                             /\ Qubits(kids[i].state) \subseteq Qubits(s)
                             /\ NoWorse(kids[i].cost, olds[i].cost)
        BY <3>12
      <4> HIDE DEF olds, m
      <4> QED BY <3>13, <4>1, <4>2, AssembledMonotone
    <3>15. NoWorse(Planned(e, b).cost, w[j].cost)
      BY <2>4, <3>10, <3>14 DEF olds
    <3>16. Matched(s, Planned(e, b).cost)
      BY <3>4, <3>8 DEF NothingLost, Matched
    <3>17. CostOn(w[j].cost, Qubits(s))
      BY <2>1, <2>2 DEF Costed
    <3>18. Matched(s, w[j].cost)
      BY <2>2, <3>10, <3>15, <3>16, <3>17, MatchedMore
    <3> QED BY <2>1, <3>18
  <2> QED BY <2>1, <2>2, <2>3, <2>4 DEF Derived
<1> HIDE DEF S
<1>3. k \in S
  BY <1>1, <1>2, CountAll
<1> QED BY <1>3 DEF S

\* The plans that are built are plans there could be, and the batches before
\* exported the best of all.
Genuine == Arena(nodes, Len(nodes))
ExportedBest ==
    /\ phase = "Idle" => states = <<>>
    /\ \A s \in DOMAIN exported : Optimal(s, exported[s])

\* What could be a plan depends on the device only.
LEMMA ArenaStays ==
    ASSUME native' = native
    PROVE  /\ \A w, n : Arena(w, n)' <=> Arena(w, n)
           /\ \A s, x : Optimal(s, x)' <=> Optimal(s, x)
<1>1. ASSUME NEW w, NEW n PROVE Arena(w, n)' <=> Arena(w, n)
  <2>1. ASSUME NEW k PROVE Derived(w, k)' <=> Derived(w, k)
    BY DEF Derived, LeafCost
  <2> QED BY <2>1 DEF Arena
<1>2. ASSUME NEW s, NEW x PROVE Optimal(s, x)' <=> Optimal(s, x)
  BY <1>1 DEF Optimal
<1> QED BY <1>1, <1>2

\* The plan of a native instruction is one there could be.
LEMMA LeafDerived ==
    ASSUME Structure, NEW s \in DOMAIN native, NEW w, NEW k, w[k] = LeafPlan(s)
    PROVE  Derived(w, k)
<1>1. w[k].state = s /\ w[k].cost = LeafCost(s)
  BY DEF LeafPlan
<1>2. s \in State
  BY LeafIs DEF Structure
<1> QED BY <1>1, <1>2 DEF Derived

\* The plan of an edge is one there could be.
LEMMA PlannedDerived ==
    ASSUME Structure, NEW e \in DOMAIN edges, NEW c, Fits(e, c),
           NEW w, w[Len(nodes) + 1] = Planned(e, c), \A p \in Plan : w[p] = nodes[p]
    PROVE  Derived(w, Len(nodes) + 1)
<1>1. PICK k, s : k = Len(nodes) + 1 /\ s = edges[e].parent
  OBVIOUS
<1>2. s \in State
  BY <1>1, EdgeIs DEF Structure
<1>3. PICK d \in Candidates(s) : d.name = edges[e].name /\ d.children = edges[e].children
  BY <1>1 DEF Structure, GraphOK
<1>4. /\ w[k].state = s
      /\ w[k].cost = Assembled(d.name, [i \in DOMAIN c |-> nodes[c[i]]], Qubits(s)).cost
  BY <1>1, <1>3, PlannedIs
<1>5. c \in [DOMAIN d.children -> 1 .. k - 1]
  <2>1. Len(nodes) \in Nat
    BY PlansFinite
  <2>2. Plan = 1 .. k - 1
    BY <1>1, <2>1 DEF Plan
  <2> QED BY <1>3, <2>2 DEF Fits
<1>6. \A i \in DOMAIN c : w[c[i]] = nodes[c[i]] /\ w[c[i]].state = d.children[i]
  BY <1>3 DEF Fits
<1>7. [i \in DOMAIN c |-> w[c[i]]] = [i \in DOMAIN c |-> nodes[c[i]]]
  BY <1>6
<1>8. Derived(w, k)
  BY <1>2, <1>3, <1>4, <1>5, <1>6, <1>7 DEF Derived
<1> QED BY <1>1, <1>8

\* One derived plan more is an arena.
LEMMA InsertGenuine ==
    ASSUME Structure, Genuine, NEW new, PlanOK(new, Len(nodes) + 1), Insert(new), native' = native,
           \A w : w[Len(nodes) + 1] = new /\ (\A p \in Plan : w[p] = nodes[p]) => Derived(w, Len(nodes) + 1)
    PROVE  Genuine'
<1>1. new.state \in State /\ Len(nodes) \in Nat
  BY PlansFinite DEF PlanOK, Costed
<1>2. CASE UNCHANGED plans
  <2>1. nodes' = nodes
    BY <1>2 DEF plans
  <2> QED BY <2>1, ArenaStays DEF Genuine
<1>3. CASE Accepted(new)
  <2>1. PICK r, n : r = nodes' /\ n = Len(nodes)
    OBVIOUS
  <2>2. /\ r[n + 1] = new /\ Len(r) = n + 1 /\ n \in Nat /\ Plan = 1..n
        /\ \A p \in Plan : r[p] = nodes[p]
    BY <1>1, <1>3, <2>1, AcceptedGrows DEF NodesGrow, Plan
  <2>3. Derived(r, n + 1)
    BY <2>1, <2>2
  <2>4. ASSUME NEW k \in 1..n PROVE Derived(r, k)
    <3>1. Derived(nodes, k)
      BY <2>1 DEF Genuine, Arena
    <3>2. r[k] = nodes[k] /\ \A i \in 1 .. k - 1 : r[i] = nodes[i]
      BY <2>2
    <3>3. CASE nodes[k].state \in DOMAIN native /\ nodes[k].cost = LeafCost(nodes[k].state)
      BY <3>1, <3>2, <3>3 DEF Derived
    <3>4. ASSUME NEW d \in Candidates(nodes[k].state), NEW c \in [DOMAIN d.children -> 1 .. k - 1],
                 \A i \in DOMAIN c : nodes[c[i]].state = d.children[i],
                 nodes[k].cost = Assembled(d.name, [i \in DOMAIN c |-> nodes[c[i]]], Qubits(nodes[k].state)).cost
          PROVE  Derived(r, k)
      <4>1. \A i \in DOMAIN c : r[c[i]] = nodes[c[i]]
        BY <3>2
      <4>2. [i \in DOMAIN c |-> r[c[i]]] = [i \in DOMAIN c |-> nodes[c[i]]]
        BY <4>1
      <4>3. \A i \in DOMAIN c : r[c[i]].state = d.children[i]
        BY <3>4, <4>1
      <4>4. r[k].cost = Assembled(d.name, [i \in DOMAIN c |-> r[c[i]]], Qubits(r[k].state)).cost
        BY <3>2, <3>4, <4>2
      <4>5. r[k].state = nodes[k].state /\ r[k].state \in State
        BY <3>1, <3>2 DEF Derived
      <4> QED BY <4>3, <4>4, <4>5 DEF Derived
    <3> QED BY <3>1, <3>3, <3>4 DEF Derived
  <2>5. Arena(r, n + 1)
    <3>1. n + 1 \in Nat /\ \A k \in 1..(n + 1) : k \in 1..n \/ k = n + 1
      BY <2>2
    <3> QED BY <2>3, <2>4, <3>1 DEF Arena
  <2>6. Arena(r, n + 1)'
    BY <2>5, ArenaStays
  <2> QED BY <2>1, <2>2, <2>6 DEF Genuine
<1> QED BY <1>1, <1>2, <1>3, InsertIs DEF Refused, OverLimit

-----------------------------------------------------------------------------
\* What is exported is the cost of the best of all plans of the state.
LEMMA ExportedOptimal ==
    ASSUME Structure, NothingLost, Expanded, Genuine, phase = "Done", NEW s \in Range(states)
    PROVE  Optimal(s, Exported[s])
<1>1. s \in State /\ IsFiniteSet(Qubits(s)) /\ Qubits(s) # {}
  <2>1. states \in [1..Len(states) -> State]
    BY LenProperties DEF Structure, GraphOK
  <2>2. s \in State
    BY <2>1 DEF Range
  <2> QED BY <2>2, QubitsFinite
<1>2. Exported[s] = IF s \in DOMAIN selected THEN Objective(nodes[selected[s]].cost) ELSE <<>>
  BY DEF Exported
<1>3. DOMAIN selected = {r \in Range(states) : frontiers[r] # {}}
  BY DEF Structure, SelectedOK
<1>4. ASSUME NEW n, NEW w, Arena(w, n), NEW k \in 1..n, w[k].state = s
      PROVE  \E q \in frontiers[s] : NoWorse(nodes[q].cost, w[k].cost)
  BY <1>4, ArenaMatched DEF Matched
<1>5. CASE frontiers[s] = {}
  <2>1. Exported[s] = <<>>
    BY <1>2, <1>3, <1>5
  <2> QED BY <1>4, <1>5, <2>1 DEF Optimal
<1>6. CASE frontiers[s] # {}
  <2>1. s \in DOMAIN selected
    BY <1>3, <1>6
  <2>2. PICK p, x : p = selected[s] /\ x = Objective(nodes[p].cost)
    OBVIOUS
  <2>3. Exported[s] = x
    BY <1>2, <2>1, <2>2
  <2>4. p \in frontiers[s] /\ \A q \in frontiers[s] : ~ LexLess(Rank(nodes[q]), Rank(nodes[p]))
    BY <2>1, <2>2 DEF Structure, SelectedOK
  <2>5. ASSUME NEW q \in frontiers[s]
        PROVE  /\ q \in Plan /\ nodes[q].state = s /\ CostOn(nodes[q].cost, Qubits(s))
               /\ Objective(nodes[q].cost) \in Seq(Int) /\ Len(Objective(nodes[q].cost)) = 5
               /\ Tie(nodes[q]) \in Seq(Int)
    <3>1. q \in Plan /\ nodes[q].state = s
      BY <1>1 DEF Structure, FrontiersOK
    <3>2. CostOn(nodes[q].cost, Qubits(s)) /\ Keyed(nodes[q])
      BY <3>1, PlanCost DEF PlanOK
    <3>3. <<nodes[q].steps>> \in Seq(Int) /\ nodes[q].key \in Seq(Int)
      BY <3>2 DEF Keyed
    <3>4. Tie(nodes[q]) \in Seq(Int)
      BY <3>3, ConcatProperties DEF Tie
    <3> QED BY <1>1, <3>1, <3>2, <3>4, ObjectiveIs
  <2>6. \A q \in frontiers[s] : ~ LexLess(Objective(nodes[q].cost), x)
    <3> SUFFICES ASSUME NEW q \in frontiers[s], LexLess(Objective(nodes[q].cost), x) PROVE FALSE
      OBVIOUS
    <3>1. LexLess(Objective(nodes[q].cost) \o Tie(nodes[q]), x \o Tie(nodes[p]))
      BY <2>2, <2>4, <2>5, LexFirst
    <3> QED BY <2>2, <2>4, <3>1 DEF Rank
  <2>7. ASSUME NEW n, NEW w, Arena(w, n), NEW k \in 1..n, w[k].state = s,
               LexLess(Objective(w[k].cost), x)
        PROVE  FALSE
    <3>1. PICK q \in frontiers[s] : NoWorse(nodes[q].cost, w[k].cost)
      BY <1>4, <2>7
    <3>2. CostOn(w[k].cost, Qubits(s))
      BY <2>7, ArenaCosted DEF Costed
    <3>3. PICK y, z : y = Objective(nodes[q].cost) /\ z = Objective(w[k].cost)
      OBVIOUS
    <3>4. ~ LexLess(z, y)
      BY <1>1, <2>5, <3>1, <3>2, <3>3, ObjectiveMonotone
    <3>5. z \in Seq(Int) /\ Len(z) = 5
      BY <1>1, <3>2, <3>3, ObjectiveIs
    <3>6. y \in Seq(Int) /\ Len(y) = 5 /\ x \in Seq(Int) /\ Len(x) = 5
      BY <2>2, <2>4, <2>5, <3>3
    <3>7. ~ LexLess(y, x) /\ LexLess(z, x)
      BY <2>6, <2>7, <3>3
    <3>8. x = y \/ LexLess(x, y)
      BY <3>6, <3>7, LexTotal
    <3> QED BY <3>4, <3>5, <3>6, <3>7, <3>8, LexTransitive
  <2>8. Arena(nodes, Len(nodes)) /\ p \in 1..Len(nodes) /\ nodes[p].state = s
    BY <2>4, <2>5 DEF Genuine, Plan
  <2>9. \A n, w : Arena(w, n) => \A k \in 1..n : w[k].state = s => ~ LexLess(Objective(w[k].cost), x)
    BY <2>7
  <2> QED BY <2>2, <2>3, <2>8, <2>9 DEF Optimal
<1> QED BY <1>5, <1>6

\* There is but one best cost.
LEMMA OptimumUnique ==
    ASSUME Structure, NEW s, NEW x, Optimal(s, x), NEW y, Optimal(s, y)
    PROVE  x = y
<1> DEFINE Attained(z) == \E n, w : Arena(w, n) /\ \E k \in 1..n : w[k].state = s /\ Objective(w[k].cost) = z
           Unbeaten(z) == \A n, w : Arena(w, n) => \A k \in 1..n :
                             w[k].state = s => ~ LexLess(Objective(w[k].cost), z)
           None == \A n, w : Arena(w, n) => \A k \in 1..n : w[k].state # s
<1>1. /\ (x = <<>> /\ None) \/ (Attained(x) /\ Unbeaten(x))
      /\ (y = <<>> /\ None) \/ (Attained(y) /\ Unbeaten(y))
  BY DEF Optimal
<1>2. ASSUME NEW z, Attained(z) PROVE ~ None /\ z \in Seq(Int) /\ Len(z) = 5
  <2>1. PICK n, w : Arena(w, n) /\ \E k \in 1..n : w[k].state = s /\ Objective(w[k].cost) = z
    BY <1>2
  <2>2. PICK k \in 1..n : w[k].state = s /\ Objective(w[k].cost) = z
    BY <2>1
  <2>3. Costed(w[k])
    BY <2>1, ArenaCosted
  <2>4. z \in Seq(Int) /\ Len(z) = 5
    BY <2>2, <2>3, QubitsFinite, ObjectiveIs DEF Costed
  <2> QED BY <2>1, <2>2, <2>4
<1>3. ASSUME NEW z, NEW u, Attained(z), Unbeaten(u) PROVE ~ LexLess(z, u)
  BY <1>3
<1> HIDE DEF Attained, Unbeaten, None
<1>4. CASE Attained(x) /\ Attained(y) /\ Unbeaten(x) /\ Unbeaten(y)
  BY <1>2, <1>3, <1>4, LexTotal
<1> QED BY <1>1, <1>2, <1>4

Agreement == Expanded /\ Genuine /\ ExportedBest

\* Initially nothing is built and nothing is exported.
LEMMA AgreementInit == ASSUME PlannerInit PROVE Agreement
<1>1. phase = "Idle" /\ states = <<>> /\ nodes = <<>> /\ exported = [s \in {} |-> <<>>]
  BY DEF PlannerInit
<1>2. Len(nodes) = 0 /\ DOMAIN exported = {}
  BY <1>1
<1> QED BY <1>1, <1>2 DEF Agreement, Expanded, Genuine, ExportedBest, Arena

\* A batch that begins exports what the one before has selected.
LEMMA BeginAgrees ==
    ASSUME Structure, NothingLost, Agreement, NEW R \in RootBatches, Begin(R)
    PROVE  Agreement'
<1>1. /\ phase \in {"Idle", "Done"} /\ phase' = "Expanding" /\ cursor' = 1 /\ nodes' = <<>>
      /\ native' = native
      /\ exported' = [s \in Range(states) \cup DOMAIN exported |->
                         IF s \in Range(states) THEN Exported[s] ELSE exported[s]]
  BY DEF Begin
<1>2. Expanded'
  <2>1. states' \in Seq(State)
    BY BeginKeeps DEF Structure, GraphOK
  <2>2. \A i \in DOMAIN states' : ~ (i < 1)
    BY <2>1, LenProperties
  <2> QED BY <1>1, <2>2 DEF Expanded
<1>3. Genuine'
  <2>1. Len(nodes') = 0
    BY <1>1
  <2> QED BY <2>1 DEF Genuine, Arena
<1>4. ExportedBest'
  <2> SUFFICES ASSUME NEW s \in DOMAIN exported' PROVE Optimal(s, exported[s])'
    BY <1>1 DEF ExportedBest
  <2>1. PICK x : x = exported'[s]
    OBVIOUS
  <2>2. Optimal(s, x)
    <3>1. CASE s \in Range(states)
      <4>1. phase = "Done"
        <5>1. phase = "Idle" => Range(states) = {}
          BY DEF Agreement, ExportedBest, Range
        <5> QED BY <1>1, <3>1, <5>1
      <4> QED BY <1>1, <2>1, <3>1, <4>1, ExportedOptimal DEF Agreement
    <3>2. CASE s \notin Range(states)
      BY <1>1, <2>1, <3>2 DEF Agreement, ExportedBest
    <3> QED BY <3>1, <3>2
  <2>3. Optimal(s, x)'
    BY <1>1, <2>2, ArenaStays
  <2> QED BY <2>1, <2>3
<1> QED BY <1>2, <1>3, <1>4 DEF Agreement

\* What is exported stays the best when the device does.
LEMMA ExportedStays ==
    ASSUME ExportedBest, native' = native, exported' = exported, phase' # "Idle" \/ states' = <<>>
    PROVE  ExportedBest'
<1> SUFFICES ASSUME NEW s \in DOMAIN exported PROVE Optimal(s, exported[s])'
  BY DEF ExportedBest
<1>1. PICK x : x = exported[s]
  OBVIOUS
<1>2. Optimal(s, x)'
  BY <1>1, ArenaStays DEF ExportedBest
<1> QED BY <1>1, <1>2

\* ... and what is built remains genuine.
LEMMA GenuineStays ==
    ASSUME Genuine, native' = native, nodes' = nodes
    PROVE  Genuine'
BY ArenaStays DEF Genuine

\* Expanding a state adds each of its decompositions to the edges.
LEMMA ExpandAgrees ==
    ASSUME Structure, Agreement, Expand
    PROVE  Agreement'
<1>1. phase = "Expanding" /\ native' = native /\ nodes' = nodes /\ exported' = exported
  BY DEF Expand, plans
<1>2. Genuine'
  BY <1>1, GenuineStays DEF Agreement
<1>3. phase' \in {"Expanding", "Leaves"}
  BY <1>1 DEF Expand
<1>4. ExportedBest'
  BY <1>1, <1>3, ExportedStays DEF Agreement
<1>5. /\ cursor \in Nat \ {0} /\ DOMAIN states = 1..Len(states) /\ Len(states) \in Nat
      /\ \A i \in DOMAIN states : i < cursor => HasEdges(states[i])
  BY <1>1, LenProperties DEF Structure, ControlOK, GraphOK, Agreement, Expanded
<1>6. CASE cursor <= Len(states)
  <2>1. PICK s, new : s = states[cursor] /\ new = EdgesOf(s)
    OBVIOUS
  <2>2. /\ edges' = edges \o new
        /\ states' \in Seq(State) /\ Continues(states, states')
        /\ edges \in Seq(Range(edges)) /\ new \in Seq(Range(new))
        /\ \A i \in DOMAIN new : new[i].parent = s
        /\ \A d \in Candidates(s) : \E i \in DOMAIN new : new[i].children = d.children
    BY <1>6, <2>1, ExpandIs
  <2>3. /\ \A i \in DOMAIN edges : i \in DOMAIN edges' /\ edges'[i] = edges[i]
        /\ \A i \in DOMAIN new : Len(edges) + i \in DOMAIN edges' /\ edges'[Len(edges) + i] = new[i]
    BY <2>2, GrowIs
  <2>4. phase' = "Expanding" /\ cursor' = cursor + 1
    BY <1>1, <1>6 DEF Expand
  <2>5. ASSUME NEW i \in DOMAIN states', i < cursor' PROVE HasEdges(states[i])'
    <3>1. i \in DOMAIN states /\ states'[i] = states[i] /\ (i < cursor \/ i = cursor)
      <4>1. DOMAIN states' = 1..Len(states') /\ i \in Nat /\ i >= 1
        BY <2>2, LenProperties
      <4>2. i <= cursor
        BY <1>5, <2>4, <2>5, <4>1
      <4>3. i \in 1..Len(states)
        BY <1>5, <1>6, <4>1, <4>2
      <4> QED BY <1>5, <2>2, <4>1, <4>2, <4>3 DEF Continues
    <3>2. PICK r : r = states[i]
      OBVIOUS
    <3>3. HasEdges(r)'
      <4>1. CASE i < cursor
        <5>1. HasEdges(r)
          BY <1>5, <3>1, <3>2, <4>1
        <5> QED BY <2>3, <5>1 DEF HasEdges
      <4>2. CASE i = cursor
        <5>1. r = s
          BY <2>1, <3>2, <4>2
        <5>2. ASSUME NEW d \in Candidates(s)
              PROVE  \E e \in DOMAIN edges' : edges'[e].parent = s /\ edges'[e].children = d.children
          <6>1. PICK j \in DOMAIN new : new[j].children = d.children
            BY <2>2
          <6>2. Len(edges) + j \in DOMAIN edges' /\ edges'[Len(edges) + j] = new[j]
            BY <2>3
          <6>3. new[j].parent = s
            BY <2>2
          <6> QED BY <6>1, <6>2, <6>3
        <5> QED BY <5>1, <5>2 DEF HasEdges
      <4> QED BY <3>1, <4>1, <4>2
    <3> QED BY <3>1, <3>2, <3>3
  <2>6. Expanded'
    BY <2>4, <2>5 DEF Expanded
  <2> QED BY <1>2, <1>4, <2>6 DEF Agreement
<1>7. CASE ~ (cursor <= Len(states))
  <2>1. phase' = "Leaves" /\ states' = states /\ edges' = edges
    BY <1>7 DEF Expand, graph
  <2>2. \A i \in DOMAIN states : i < cursor
    BY <1>5, <1>7
  <2>3. \A i \in DOMAIN states : HasEdges(states[i])
    BY <1>5, <2>2
  <2>4. Expanded'
    BY <2>1, <2>3 DEF Expanded, HasEdges
  <2> QED BY <1>2, <1>4, <2>4 DEF Agreement
<1> QED BY <1>6, <1>7

\* The graph does not change after it is expanded.
LEMMA GraphStays ==
    ASSUME Expanded, UNCHANGED graph, phase \in {"Leaves", "Solving", "Done"}, phase' # "Expanding"
    PROVE  Expanded'
<1>1. states' = states /\ edges' = edges
  BY DEF graph
<1> QED BY <1>1 DEF Expanded, HasEdges

\* A native plan is genuine.
LEMMA LeafAgrees ==
    ASSUME Structure, Agreement, Leaf
    PROVE  Agreement'
<1>1. phase = "Leaves" /\ native' = native /\ exported' = exported /\ UNCHANGED graph
  BY DEF Leaf
<1>2. phase' \in {"Leaves", "Solving", "Failed"}
  BY <1>1 DEF Leaf, Insert
<1>3. Expanded' /\ ExportedBest'
  BY <1>1, <1>2, GraphStays, ExportedStays DEF Agreement
<1>4. CASE cursor <= Len(states) /\ states[cursor] \in DOMAIN native
  <2>1. PICK s, new : s = states[cursor] /\ new = LeafPlan(s)
    OBVIOUS
  <2>2. Insert(new)
    BY <1>4, <2>1 DEF Leaf, LeafPlan
  <2>3. PlanOK(new, Len(nodes) + 1)
    <3>1. Len(nodes) + 1 \in Nat
      BY PlansFinite
    <3> QED BY <1>4, <2>1, <3>1, LeafIs DEF Structure
  <2>4. \A w : w[Len(nodes) + 1] = new => Derived(w, Len(nodes) + 1)
    BY <1>4, <2>1, LeafDerived
  <2>5. Genuine'
    BY <1>1, <2>2, <2>3, <2>4, InsertGenuine DEF Agreement
  <2> QED BY <1>3, <2>5 DEF Agreement
<1>5. CASE ~ (cursor <= Len(states) /\ states[cursor] \in DOMAIN native)
  <2>1. nodes' = nodes
    BY <1>5 DEF Leaf, plans
  <2> QED BY <1>1, <1>3, <2>1, GenuineStays DEF Agreement
<1> QED BY <1>4, <1>5

\* The plan of a combination is genuine.
LEMMA TryAgrees ==
    ASSUME Structure, Agreement, Try
    PROVE  Agreement'
<1>1. /\ phase = "Solving" /\ native' = native /\ exported' = exported /\ UNCHANGED graph
      /\ cursor \in DOMAIN edges
  BY TryIs DEF graph
<1>2. PICK c \in pending : Fits(cursor, c) /\ Tried(c)
  BY TryIs
<1>3. phase' \in {"Solving", "Failed"}
  BY <1>1, <1>2, TriedInserts
<1>4. Expanded' /\ ExportedBest'
  BY <1>1, <1>3, GraphStays, ExportedStays DEF Agreement
<1>5. CASE UNCHANGED plans
  <2>1. nodes' = nodes
    BY <1>5 DEF plans
  <2> QED BY <1>1, <1>4, <2>1, GenuineStays DEF Agreement
<1>6. CASE ~ Cyclic(cursor, c) /\ Insert(Planned(cursor, c))
  <2>1. PICK new : new = Planned(cursor, c)
    OBVIOUS
  <2>2. Insert(new) /\ PlanOK(new, Len(nodes) + 1)
    BY <1>1, <1>2, <1>6, <2>1, PlannedIs
  <2>3. \A w : w[Len(nodes) + 1] = new /\ (\A p \in Plan : w[p] = nodes[p]) => Derived(w, Len(nodes) + 1)
    BY <1>1, <1>2, <2>1, PlannedDerived
  <2>4. Genuine'
    BY <1>1, <2>2, <2>3, InsertGenuine DEF Agreement
  <2> QED BY <1>4, <2>4 DEF Agreement
<1> QED BY <1>2, <1>5, <1>6 DEF Tried, OverLimit

\* The other steps build nothing.
LEMMA QuietAgrees ==
    ASSUME Structure, Agreement, NextEdge \/ Repeat \/ Select \/ UNCHANGED plannerVars
    PROVE  Agreement'
<1>1. /\ native' = native /\ exported' = exported /\ nodes' = nodes /\ UNCHANGED graph
  BY DEF NextEdge, Repeat, Select, plannerVars, plans
<1>2. \/ phase = "Solving" /\ phase' \in {"Solving", "Done"}
      \/ phase' = phase /\ cursor' = cursor
  BY DEF NextEdge, Repeat, Select, plannerVars
<1>3. Genuine'
  BY <1>1, GenuineStays DEF Agreement
<1>4. Expanded'
  <2>1. states' = states /\ edges' = edges
    BY <1>1 DEF graph
  <2> QED BY <1>2, <2>1 DEF Agreement, Expanded, HasEdges
<1>5. ExportedBest'
  <2>1. phase' # "Idle" \/ states' = <<>>
    BY <1>1, <1>2 DEF Agreement, ExportedBest, graph
  <2> QED BY <1>1, <2>1, ExportedStays DEF Agreement
<1> QED BY <1>3, <1>4, <1>5 DEF Agreement

\* No step exports less than the best or builds what could not be ...
LEMMA AgreementStep ==
    ASSUME Structure, NothingLost, Agreement, [PlannerNext]_plannerVars
    PROVE  Agreement'
<1>1. ASSUME NEW R \in RootBatches, Begin(R) PROVE Agreement'
  BY <1>1, BeginAgrees
<1> QED
  BY <1>1, ExpandAgrees, LeafAgrees, TryAgrees, QuietAgrees
     DEF PlannerNext, Solve, Finished

\* ... so all that is built is genuine and all that is exported the best.
THEOREM AgreementInductive == PlannerSpec => []Agreement
<1>1. PlannerInit => Agreement
  BY AgreementInit
<1>2. Structure /\ NothingLost /\ Agreement /\ [PlannerNext]_plannerVars => Agreement'
  BY AgreementStep
<1> QED BY <1>1, <1>2, StructureInductive, PruningLosesNothing, PTL DEF PlannerSpec

\* When a batch is done, what it exports of a state is the cost of the best of
\* all the plans there could be for it.
BestSelected == phase = "Done" => \A s \in Range(states) : Optimal(s, Exported[s])

\* The plan selected for a state is the best of all the plans there could be,
\* not only of those that pruning, the order of discovery and the refusal of
\* cycles have left: the beam of solve is exhaustive unless a limit is hit.
THEOREM SelectionIsOptimal == PlannerSpec => []BestSelected
<1>1. Structure /\ NothingLost /\ Agreement => BestSelected
  BY ExportedOptimal DEF BestSelected, Agreement
<1> QED BY <1>1, StructureInductive, PruningLosesNothing, AgreementInductive, PTL

\* There is one best cost, so batches that export the best agree.
LEMMA BestAgree == Structure /\ Agreement /\ BestSelected => CostsAgree
<1> SUFFICES ASSUME Structure, Agreement, BestSelected, phase = "Done",
                    NEW s \in Range(states) \cap DOMAIN exported
             PROVE  exported[s] = Exported[s]
  BY DEF CostsAgree
<1>1. Optimal(s, exported[s]) /\ Optimal(s, Exported[s])
  BY DEF Agreement, ExportedBest, BestSelected
<1> QED BY <1>1, OptimumUnique

\* Batches planned one after the other for one device agree on which states
\* have a native implementation and on the physical cost of the best one.
THEOREM BatchesAgree == PlannerSpec => []CostsAgree
BY StructureInductive, AgreementInductive, SelectionIsOptimal, BestAgree, PTL

==============================================================================
