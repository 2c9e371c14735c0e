-------------------------- MODULE CommandQueueProofs --------------------------
(***************************************************************************)
(* Safety of the command queue, for all lanes, commands and limits.        *)
(*                                                                         *)
(* Every action first changes one lane (or all of them) and then pumps it. *)
(* The inductive invariant is therefore stated for any lanes L, closures F *)
(* and outcomes O: Core holds between the change and the pump as well, the *)
(* pump preserves it (PumpCore), and work conservation is what the pump    *)
(* adds (PumpConserves).  What the pump does to a lane is stated first,    *)
(* for every state of a lane.                                              *)
(***************************************************************************)
EXTENDS CommandQueue, FunctionTheorems, FiniteSetTheorems, SequenceTheorems, TLAPS

\* A lane that holds entries of E, finitely many of them running.
WellFormed(s, E) == s \in LaneState(E) /\ IsFiniteSet(s.active)

\* No entry is queued twice.
NoRepeats(q) == \A i, j \in DOMAIN q : q[i] = q[j] => i = j

CoreType(L, F, O) ==
  /\ L \in [Lane -> LaneState(Command)]
  /\ \A l \in Lane : IsFiniteSet(L[l].active)
  /\ F \subseteq Task
  /\ O \in [Command -> Settled \union {"unsent", "pending"}]

\* activeTaskIds and the running closures agree, and no closure is of a
\* generation its lane has not reached.
CoreActive(L, F) ==
  /\ \A l \in Lane, c \in Command :
       c \in L[l].active <=>
         \E t \in F : t.lane = l /\ t.generation = L[l].generation /\ t.command = c
  /\ \A t \in F : t.generation <= L[t.lane].generation

\* No command is in two places.
CoreOnce(L, F) ==
  /\ \A l \in Lane : NoRepeats(L[l].queue)
  /\ \A k, l \in Lane : k # l => Elements(L[k].queue) \cap Elements(L[l].queue) = {}
  /\ \A t, u \in F : t.command = u.command => t = u
  /\ \A l \in Lane, t \in F : t.command \notin Elements(L[l].queue)

\* The promises still awaited are those of the commands queued or running.
CorePending(L, F, O) ==
  \A c \in Command :
    O[c] = "pending" <=> \/ \E l \in Lane : c \in Elements(L[l].queue)
                         \/ \E t \in F : t.command = c

Core(L, F, O) ==
  CoreType(L, F, O) /\ CoreActive(L, F) /\ CoreOnce(L, F) /\ CorePending(L, F, O)

IInv ==
  /\ Core(lanes, inflight, outcome)
  /\ gatewayDraining \in BOOLEAN
  /\ WorkConserving

\* The steps StartsWithinLimit and StartsInOrder allow.
LimitStep ==
  \A l \in Lane : lanes'[l].active \ lanes[l].active # {}
                   => Cardinality(lanes'[l].active) <= lanes'[l].maxConcurrent

OrderStep ==
  \A l \in Lane : \A i, j \in DOMAIN lanes[l].queue :
     LET ahead == lanes[l].queue[i]
         behind == lanes[l].queue[j]
     IN  i < j /\ (\E t \in inflight' : t.command = behind)
           => ahead \notin Elements(lanes'[l].queue)

\* Queue q begins with queue p.
Extends(q, p) == \A i \in DOMAIN p : i \in DOMAIN q /\ q[i] = p[i]

\* The lanes after the lanes of P are pumped, and the closures that starts.
Pumped(L, P) == [l \in Lane |-> IF l \in P THEN Pump(L[l]) ELSE L[l]]
Launched(L, P) == UNION {Started(l, L[l]) : l \in P}

-----------------------------------------------------------------------------
\* The pump starts no more entries than are queued, none beyond the limit, and
\* stops early only when the limit is reached.
LEMMA FreeSlotsBounds ==
  ASSUME NEW E, NEW s, WellFormed(s, E)
  PROVE  /\ FreeSlots(s) \in 0..Len(s.queue)
         /\ FreeSlots(s) # 0 =>
              Cardinality(s.active) + FreeSlots(s) <= s.maxConcurrent
         /\ FreeSlots(s) # Len(s.queue) =>
              Cardinality(s.active) + FreeSlots(s) >= s.maxConcurrent
<1>1. Len(s.queue) \in Nat /\ s.maxConcurrent \in Nat
  BY LenProperties DEF WellFormed, LaneState
<1>2. Cardinality(s.active) \in Nat
  BY FS_CardinalityType DEF WellFormed
<1> QED BY <1>1, <1>2 DEF FreeSlots, Smaller

\* The started entries are entries that were queued, at most one per free slot.
LEMMA StartableBounds ==
  ASSUME NEW E, NEW s, WellFormed(s, E)
  PROVE  /\ Startable(s) \subseteq Elements(s.queue)
         /\ Startable(s) \subseteq E
         /\ IsFiniteSet(Startable(s))
         /\ Cardinality(Startable(s)) <= FreeSlots(s)
<1> DEFINE n == FreeSlots(s)
           f == [i \in 1..n |-> s.queue[i]]
<1>1. n \in 0..Len(s.queue)  BY FreeSlotsBounds
<1>2. s.queue \in Seq(E)  BY DEF WellFormed, LaneState
<1>3. n \in Nat /\ 1..n \subseteq DOMAIN s.queue
  BY <1>1, <1>2, LenProperties
<1>4. \A i \in 1..n : s.queue[i] \in E
  BY <1>1, <1>2, LenProperties, ElementOfSeq
<1>5. f \in Surjection(1..n, Startable(s))
  <2>1. f \in [1..n -> Startable(s)]  BY DEF Startable
  <2>2. \A t \in Startable(s) : \E i \in 1..n : f[i] = t  BY DEF Startable
  <2> QED BY <2>1, <2>2, Fun_IsSurj
<1>6. IsFiniteSet(1..n) /\ Cardinality(1..n) = n
  BY <1>3, FS_Interval
<1>7. IsFiniteSet(Startable(s)) /\ Cardinality(Startable(s)) <= n
  BY <1>5, <1>6, FS_Surjection
<1> QED BY <1>3, <1>4, <1>7 DEF Startable, Elements

\* When no entry is queued twice, the pump fills exactly the free slots.
LEMMA StartableCount ==
  ASSUME NEW E, NEW s, WellFormed(s, E), NoRepeats(s.queue)
  PROVE  Cardinality(Startable(s)) = FreeSlots(s)
<1> DEFINE n == FreeSlots(s)
           f == [i \in 1..n |-> s.queue[i]]
<1>1. n \in 0..Len(s.queue)  BY FreeSlotsBounds
<1>2. n \in Nat /\ 1..n \subseteq DOMAIN s.queue
  BY <1>1, LenProperties DEF WellFormed, LaneState
<1>3. f \in Bijection(1..n, Startable(s))
  <2>1. f \in [1..n -> Startable(s)]  BY DEF Startable
  <2>2. \A t \in Startable(s) : \E i \in 1..n : f[i] = t  BY DEF Startable
  <2>3. \A a, b \in 1..n : f[a] = f[b] => a = b  BY <1>2 DEF NoRepeats
  <2> QED BY <2>1, <2>2, <2>3, Fun_IsBij
<1>4. IsFiniteSet(1..n) /\ Cardinality(1..n) = n
  BY <1>2, FS_Interval
<1>5. ExistsBijection(1..n, Startable(s))  BY <1>3 DEF ExistsBijection
<1> QED BY <1>4, <1>5, FS_Bijection

\* What the pump does to the fields of a lane.
LEMMA PumpFields ==
  ASSUME NEW E, NEW s, WellFormed(s, E)
  PROVE  /\ Pump(s).active = s.active \union Startable(s)
         /\ Pump(s).maxConcurrent = s.maxConcurrent
         /\ Pump(s).generation = s.generation
         /\ Pump(s).queue \in Seq(E)
         /\ Len(Pump(s).queue) = Len(s.queue) - FreeSlots(s)
         /\ \A i \in DOMAIN Pump(s).queue :
              /\ i + FreeSlots(s) \in DOMAIN s.queue
              /\ Pump(s).queue[i] = s.queue[i + FreeSlots(s)]
<1> DEFINE n == FreeSlots(s)
           q == SubSeq(s.queue, n + 1, Len(s.queue))
<1>1. s.queue \in Seq(E) /\ Len(s.queue) \in Nat
      /\ DOMAIN s.queue = 1..Len(s.queue)
  BY LenProperties DEF WellFormed, LaneState
<1>2. n \in 0..Len(s.queue)  BY FreeSlotsBounds
<1>3. \A i \in (n + 1)..Len(s.queue) : s.queue[i] \in E
  BY <1>1, <1>2, ElementOfSeq
<1>4. /\ q \in Seq(E)
      /\ Len(q) = IF n + 1 <= Len(s.queue) THEN Len(s.queue) - (n + 1) + 1 ELSE 0
      /\ \A i \in 1..(Len(s.queue) - (n + 1) + 1) : q[i] = s.queue[(n + 1) + i - 1]
  <2> HIDE DEF n
  <2> QED BY <1>1, <1>2, <1>3, SubSeqProperties
<1>5. Len(q) = Len(s.queue) - n
  BY <1>1, <1>2, <1>4
<1>6. \A i \in DOMAIN q : i + n \in DOMAIN s.queue /\ q[i] = s.queue[i + n]
  <2> HIDE DEF n, q
  <2>1. DOMAIN q = 1..Len(q)  BY <1>4, LenProperties
  <2> QED BY <1>1, <1>2, <1>4, <1>5, <2>1
<1>7. Pump(s).queue = q /\ Pump(s).active = s.active \union Startable(s)
      /\ Pump(s).maxConcurrent = s.maxConcurrent
      /\ Pump(s).generation = s.generation
  BY DEF Pump, WellFormed, LaneState
<1> QED BY <1>4, <1>5, <1>6, <1>7

\* The pump keeps a lane well formed.
LEMMA PumpWellFormed ==
  ASSUME NEW E, NEW s, WellFormed(s, E)
  PROVE  WellFormed(Pump(s), E)
<1>1. Pump(s).queue \in Seq(E)  BY PumpFields
<1>2. Startable(s) \subseteq E /\ IsFiniteSet(Startable(s))  BY StartableBounds
<1>3. IsFiniteSet(s.active \union Startable(s))
  BY <1>2, FS_Union DEF WellFormed
<1>4. \A q \in Seq(E), a \in SUBSET E :
        [s EXCEPT !.queue = q, !.active = a] \in LaneState(E)
  BY DEF WellFormed, LaneState
<1>5. Pump(s) = [s EXCEPT !.queue = Pump(s).queue,
                          !.active = s.active \union Startable(s)]
  BY DEF Pump, WellFormed, LaneState
<1>6. Pump(s) \in LaneState(E)
  <2>1. s.active \union Startable(s) \in SUBSET E
    BY <1>2 DEF WellFormed, LaneState
  <2> QED BY <1>1, <1>4, <1>5, <2>1
<1>7. Pump(s).active = s.active \union Startable(s)
  BY PumpFields
<1> QED BY <1>3, <1>6, <1>7 DEF WellFormed

\* The pump partitions the queue: an entry that was queued is started or still
\* queued, and nothing else is.
LEMMA PumpElements ==
  ASSUME NEW E, NEW s, WellFormed(s, E)
  PROVE  Elements(s.queue) = Startable(s) \union Elements(Pump(s).queue)
<1>1. /\ Len(s.queue) \in Nat /\ DOMAIN s.queue = 1..Len(s.queue)
      /\ FreeSlots(s) \in 0..Len(s.queue)
  BY FreeSlotsBounds, LenProperties DEF WellFormed, LaneState
<1>2. DOMAIN Pump(s).queue = 1..(Len(s.queue) - FreeSlots(s))
  BY PumpFields, LenProperties
<1>3. \A i \in DOMAIN s.queue :
        s.queue[i] \in Startable(s) \union Elements(Pump(s).queue)
  <2> SUFFICES ASSUME NEW i \in DOMAIN s.queue, ~(i <= FreeSlots(s))
               PROVE  s.queue[i] \in Elements(Pump(s).queue)
    BY <1>1 DEF Startable
  <2>1. i - FreeSlots(s) \in DOMAIN Pump(s).queue  BY <1>1, <1>2
  <2>2. Pump(s).queue[i - FreeSlots(s)] = s.queue[i - FreeSlots(s) + FreeSlots(s)]
    BY <2>1, PumpFields
  <2>3. i - FreeSlots(s) + FreeSlots(s) = i  BY <1>1
  <2> QED BY <2>1, <2>2, <2>3 DEF Elements
<1>4. Startable(s) \subseteq Elements(s.queue)  BY StartableBounds
<1>5. Elements(Pump(s).queue) \subseteq Elements(s.queue)
  BY PumpFields DEF Elements
<1> QED BY <1>3, <1>4, <1>5 DEF Elements

\* When no entry is queued twice, none is both started and still queued, and
\* none is queued twice afterwards.
LEMMA PumpNoRepeats ==
  ASSUME NEW E, NEW s, WellFormed(s, E), NoRepeats(s.queue)
  PROVE  /\ NoRepeats(Pump(s).queue)
         /\ Startable(s) \cap Elements(Pump(s).queue) = {}
<1>1. /\ Len(s.queue) \in Nat /\ DOMAIN s.queue = 1..Len(s.queue)
      /\ FreeSlots(s) \in 0..Len(s.queue)
  BY FreeSlotsBounds, LenProperties DEF WellFormed, LaneState
<1>2. /\ DOMAIN Pump(s).queue = 1..(Len(s.queue) - FreeSlots(s))
      /\ \A i \in DOMAIN Pump(s).queue :
              /\ i + FreeSlots(s) \in DOMAIN s.queue
              /\ Pump(s).queue[i] = s.queue[i + FreeSlots(s)]
  BY PumpFields, LenProperties
<1>3. NoRepeats(Pump(s).queue)
  <2> SUFFICES ASSUME NEW i \in DOMAIN Pump(s).queue, NEW j \in DOMAIN Pump(s).queue,
                      Pump(s).queue[i] = Pump(s).queue[j]
               PROVE  i = j
    BY DEF NoRepeats
  <2>1. i + FreeSlots(s) = j + FreeSlots(s)  BY <1>2 DEF NoRepeats
  <2> QED BY <1>1, <1>2, <2>1
<1>4. Startable(s) \cap Elements(Pump(s).queue) = {}
  <2> SUFFICES ASSUME NEW i \in 1..FreeSlots(s), NEW j \in DOMAIN Pump(s).queue,
                      s.queue[i] = Pump(s).queue[j]
               PROVE  FALSE
    BY DEF Startable, Elements
  <2>1. i \in DOMAIN s.queue  BY <1>1
  <2>2. i = j + FreeSlots(s)  BY <1>2, <2>1 DEF NoRepeats
  <2> QED BY <1>1, <1>2, <2>2
<1> QED BY <1>3, <1>4

\* The pump never starts an entry beyond the limit.
LEMMA PumpWithinLimit ==
  ASSUME NEW E, NEW s, WellFormed(s, E), Startable(s) # {}
  PROVE  Cardinality(Pump(s).active) <= s.maxConcurrent
<1>1. FreeSlots(s) # 0
  BY FreeSlotsBounds, LenProperties DEF Startable
<1>2. IsFiniteSet(s.active) /\ IsFiniteSet(Startable(s))
      /\ Cardinality(Startable(s)) <= FreeSlots(s)
  BY StartableBounds DEF WellFormed
<1>3. /\ Cardinality(s.active) \in Nat
      /\ Cardinality(Startable(s)) \in Nat
      /\ Cardinality(s.active \cap Startable(s)) \in Nat
  BY <1>2, FS_CardinalityType, FS_Intersection
<1>4. Cardinality(Pump(s).active) = Cardinality(s.active)
        + Cardinality(Startable(s)) - Cardinality(s.active \cap Startable(s))
  BY <1>2, FS_Union, PumpFields
<1>5. /\ Cardinality(s.active) + FreeSlots(s) <= s.maxConcurrent
      /\ FreeSlots(s) \in Nat /\ s.maxConcurrent \in Nat
  BY <1>1, FreeSlotsBounds, LenProperties DEF WellFormed, LaneState
<1> QED BY <1>2, <1>3, <1>4, <1>5

\* The pump leaves no entry queued beside a free slot.
LEMMA PumpWorkConserving ==
  ASSUME NEW E, NEW s, WellFormed(s, E), NoRepeats(s.queue),
         Elements(s.queue) \cap s.active = {}, Pump(s).queue # <<>>
  PROVE  Cardinality(Pump(s).active) >= s.maxConcurrent
<1>1. FreeSlots(s) # Len(s.queue)
  <2>1. Pump(s).queue \in Seq(E) /\ Len(Pump(s).queue) = Len(s.queue) - FreeSlots(s)
    BY PumpFields
  <2>2. Len(Pump(s).queue) # 0  BY <2>1, EmptySeq
  <2> QED BY <2>1, <2>2, LenProperties, FreeSlotsBounds
<1>2. IsFiniteSet(s.active) /\ IsFiniteSet(Startable(s))
      /\ Cardinality(Startable(s)) = FreeSlots(s)
      /\ s.active \cap Startable(s) = {}
  BY StartableBounds, StartableCount DEF WellFormed
<1>3. Cardinality(s.active) \in Nat /\ Cardinality({}) = 0
  BY <1>2, FS_CardinalityType, FS_EmptySet
<1>4. Cardinality(Pump(s).active) = Cardinality(s.active) + FreeSlots(s)
  <2>1. Cardinality(Pump(s).active) = Cardinality(s.active)
          + Cardinality(Startable(s)) - Cardinality(s.active \cap Startable(s))
    BY <1>2, FS_Union, PumpFields
  <2>2. FreeSlots(s) \in Int  BY FreeSlotsBounds
  <2>3. Cardinality(s.active \cap Startable(s)) = 0  BY <1>2, <1>3
  <2> QED BY <1>2, <1>3, <2>1, <2>2, <2>3
<1> QED BY <1>1, <1>4, FreeSlotsBounds

-----------------------------------------------------------------------------
\* The closures launched are those of the startable entries of the lanes pumped.
LEMMA LaunchedMembers ==
  ASSUME NEW L, NEW P \in SUBSET Lane, NEW t
  PROVE  t \in Launched(L, P) <=>
           \E l \in P : \E c \in Startable(L[l]) :
             t = [command |-> c, lane |-> l, generation |-> L[l].generation]
BY DEF Launched, Started

\* Pumping any set of lanes keeps the bookkeeping exact.
LEMMA PumpCore ==
  ASSUME NEW L, NEW F, NEW O, NEW P \in SUBSET Lane, Core(L, F, O)
  PROVE  Core(Pumped(L, P), F \union Launched(L, P), O)
<1> DEFINE M == Pumped(L, P)
           N == Launched(L, P)
<1>1. \A l \in Lane : WellFormed(L[l], Command)
  BY DEF Core, CoreType, WellFormed
<1>2. \A l \in Lane : WellFormed(M[l], Command) /\ M[l] \in LaneState(Command)
  BY <1>1, PumpWellFormed DEF Pumped, WellFormed
<1>3. \A l \in Lane : M[l].generation = L[l].generation
  BY <1>1, PumpFields DEF Pumped
<1>4. \A l \in P : /\ M[l].active = L[l].active \union Startable(L[l])
                   /\ Elements(L[l].queue) = Startable(L[l]) \union Elements(M[l].queue)
                   /\ Startable(L[l]) \cap Elements(M[l].queue) = {}
                   /\ NoRepeats(M[l].queue)
                   /\ Startable(L[l]) \subseteq Command
  BY <1>1, PumpFields, PumpElements, PumpNoRepeats, StartableBounds
  DEF Pumped, Core, CoreOnce
<1>5. \A l \in Lane \ P : M[l] = L[l]
  BY DEF Pumped
<1>6. \A t \in N : \E l \in P : \E c \in Startable(L[l]) :
             t = [command |-> c, lane |-> l, generation |-> L[l].generation]
  BY LaunchedMembers
<1>7. \A l \in P : \A c \in Startable(L[l]) :
             [command |-> c, lane |-> l, generation |-> L[l].generation] \in N
  BY LaunchedMembers
<1>8. \A t \in N : /\ t.lane \in P
                   /\ t.command \in Startable(L[t.lane])
                   /\ t.generation = L[t.lane].generation
  BY <1>6
<1>8a. \A l \in Lane : L[l].generation \in Nat
  BY DEF Core, CoreType, LaneState
<1>9. N \subseteq Task
  BY <1>4, <1>6, <1>8a DEF Task
<1>10. \A l \in Lane : Elements(M[l].queue) \subseteq Elements(L[l].queue)
  BY <1>4, <1>5
<1> HIDE DEF M, N
<1>11. CoreType(M, F \union N, O)
  <2>1. M \in [Lane -> LaneState(Command)]
    BY <1>2 DEF M, Pumped
  <2>2. \A l \in Lane : IsFiniteSet(M[l].active)
    BY <1>2 DEF WellFormed
  <2> QED BY <2>1, <2>2, <1>9 DEF CoreType, Core
<1>12. CoreActive(M, F \union N)
  <2>1. ASSUME NEW l \in Lane, NEW c \in Command
        PROVE  c \in M[l].active <=>
                 \E t \in F \union N : t.lane = l /\ t.generation = M[l].generation
                                       /\ t.command = c
    <3>1. c \in L[l].active <=>
            \E t \in F : t.lane = l /\ t.generation = L[l].generation /\ t.command = c
      BY DEF Core, CoreActive
    <3>2. CASE l \in P
      <4>1. c \in Startable(L[l]) <=>
              \E t \in N : t.lane = l /\ t.generation = L[l].generation /\ t.command = c
        BY <3>2, <1>7, <1>8
      <4> QED BY <3>1, <3>2, <4>1, <1>3, <1>4
    <3>3. CASE l \notin P
      BY <3>1, <3>3, <1>3, <1>5, <1>8
    <3> QED BY <3>2, <3>3
  <2>2. \A t \in F \union N : t.generation <= M[t.lane].generation
    <3>1. ASSUME NEW t \in F PROVE t.generation <= M[t.lane].generation
      BY <1>3 DEF Core, CoreActive, CoreType, Task
    <3>2. ASSUME NEW t \in N PROVE t.generation <= M[t.lane].generation
      BY <1>3, <1>8, <1>8a
    <3> QED BY <3>1, <3>2
  <2> QED BY <2>1, <2>2 DEF CoreActive
<1>13. CoreOnce(M, F \union N)
  <2>1. \A l \in Lane : NoRepeats(M[l].queue)
    BY <1>4, <1>5 DEF Core, CoreOnce
  <2>2. \A k, l \in Lane : k # l => Elements(M[k].queue) \cap Elements(M[l].queue) = {}
    BY <1>10 DEF Core, CoreOnce
  <2>3. \A t \in F, u \in N : t.command # u.command
    BY <1>4, <1>8 DEF Core, CoreOnce
  <2>4. \A t, u \in N : t.command = u.command => t = u
    <3> SUFFICES ASSUME NEW t \in N, NEW u \in N, t.command = u.command
                 PROVE  t = u
      OBVIOUS
    <3>1. t.lane = u.lane
      BY <1>4, <1>8 DEF Core, CoreOnce
    <3> QED BY <3>1, <1>6, <1>8
  <2>5. \A t, u \in F \union N : t.command = u.command => t = u
    BY <2>3, <2>4 DEF Core, CoreOnce
  <2>6. \A l \in Lane, t \in F : t.command \notin Elements(M[l].queue)
    BY <1>10 DEF Core, CoreOnce
  <2>7. ASSUME NEW l \in Lane, NEW t \in N
        PROVE  t.command \notin Elements(M[l].queue)
    <3>1. CASE l = t.lane
      BY <3>1, <1>4, <1>8
    <3>2. CASE l # t.lane
      BY <3>2, <1>4, <1>8, <1>10 DEF Core, CoreOnce
    <3> QED BY <3>1, <3>2
  <2> QED BY <2>1, <2>2, <2>5, <2>6, <2>7 DEF CoreOnce
<1>14. CorePending(M, F \union N, O)
  <2> SUFFICES ASSUME NEW c \in Command
               PROVE  O[c] = "pending" <=>
                        \/ \E l \in Lane : c \in Elements(M[l].queue)
                        \/ \E t \in F \union N : t.command = c
    BY DEF CorePending
  <2>1. O[c] = "pending" <=> \/ \E l \in Lane : c \in Elements(L[l].queue)
                             \/ \E t \in F : t.command = c
    BY DEF Core, CorePending
  <2>2. ASSUME NEW l \in Lane, c \in Elements(L[l].queue)
        PROVE  \/ c \in Elements(M[l].queue)
               \/ \E t \in N : t.command = c
    <3>1. CASE l \in P /\ c \in Startable(L[l])
      <4>1. [command |-> c, lane |-> l, generation |-> L[l].generation] \in N
        BY <3>1, <1>7
      <4> QED BY <4>1
    <3>2. CASE l \in P /\ c \notin Startable(L[l])
      BY <2>2, <3>2, <1>4
    <3>3. CASE l \notin P
      BY <2>2, <3>3, <1>5
    <3> QED BY <3>1, <3>2, <3>3
  <2>3. ASSUME NEW t \in N, t.command = c
        PROVE  \E l \in Lane : c \in Elements(L[l].queue)
    BY <2>3, <1>4, <1>8
  <2> QED BY <2>1, <2>2, <2>3, <1>10
<1> QED BY <1>11, <1>12, <1>13, <1>14 DEF Core, M, N

\* The lanes pumped are left with no entry beside a free slot.
LEMMA PumpConserves ==
  ASSUME NEW L, NEW F, NEW O, NEW P \in SUBSET Lane, Core(L, F, O),
         NEW l \in P, Pumped(L, P)[l].queue # <<>>
  PROVE  Cardinality(Pumped(L, P)[l].active) >= Pumped(L, P)[l].maxConcurrent
<1>1. WellFormed(L[l], Command) /\ NoRepeats(L[l].queue)
  BY DEF Core, CoreType, CoreOnce, WellFormed
<1>2. L[l].active \subseteq Command
  BY DEF Core, CoreType, LaneState
<1>3. Elements(L[l].queue) \cap L[l].active = {}
  BY <1>2 DEF Core, CoreActive, CoreOnce
<1>4. Pumped(L, P)[l] = Pump(L[l])
  BY DEF Pumped
<1>5. Pump(L[l]).maxConcurrent = L[l].maxConcurrent
  BY <1>1, PumpFields
<1> QED BY <1>1, <1>3, <1>4, <1>5, PumpWorkConserving

\* Pumping lanes of P starts nothing beyond a limit and nothing out of order.
\* Before the pump each lane of P may have lost active entries and gained queued
\* ones at the back; the other lanes are as they were.
LEMMA PumpedStep ==
  ASSUME IInv, NEW L, NEW F, NEW O, NEW P \in SUBSET Lane, Core(L, F, O),
         \A l \in P : /\ L[l].active \subseteq lanes[l].active
                      /\ Extends(L[l].queue, lanes[l].queue),
         \A l \in Lane \ P : L[l] = lanes[l],
         F \subseteq inflight,
         lanes' = Pumped(L, P),
         inflight' = F \union Launched(L, P)
  PROVE  LimitStep /\ OrderStep
<1>1. \A l \in Lane : WellFormed(L[l], Command) /\ NoRepeats(L[l].queue)
  BY DEF Core, CoreType, CoreOnce, WellFormed
<1>2. LimitStep
  <2> SUFFICES ASSUME NEW l \in Lane, lanes'[l].active \ lanes[l].active # {}
               PROVE  Cardinality(lanes'[l].active) <= lanes'[l].maxConcurrent
    BY DEF LimitStep
  <2>1. l \in P
    BY DEF Pumped
  <2>2. lanes'[l] = Pump(L[l])
    BY <2>1 DEF Pumped
  <2>3. Pump(L[l]).active = L[l].active \union Startable(L[l])
        /\ Pump(L[l]).maxConcurrent = L[l].maxConcurrent
    BY <1>1, PumpFields
  <2>4. Startable(L[l]) # {}
    BY <2>1, <2>2, <2>3
  <2> QED BY <1>1, <2>2, <2>3, <2>4, PumpWithinLimit
<1>3. OrderStep
  <2> SUFFICES ASSUME NEW l \in Lane, NEW i \in DOMAIN lanes[l].queue,
                      NEW j \in DOMAIN lanes[l].queue, i < j,
                      NEW t \in inflight', t.command = lanes[l].queue[j]
               PROVE  lanes[l].queue[i] \notin Elements(lanes'[l].queue)
    BY DEF OrderStep
  <2>1. t \in Launched(L, P)
    BY DEF IInv, Core, CoreOnce, Elements
  <2>2. t.lane \in P /\ t.command \in Startable(L[t.lane])
    BY <2>1, LaunchedMembers
  <2>3. \A k \in Lane : Extends(L[k].queue, lanes[k].queue)
    BY DEF Extends
  <2>4. /\ i \in DOMAIN L[l].queue /\ L[l].queue[i] = lanes[l].queue[i]
        /\ j \in DOMAIN L[l].queue /\ L[l].queue[j] = lanes[l].queue[j]
    BY <2>3 DEF Extends
  <2>5. t.lane = l
    <3>1. t.command \in Elements(L[l].queue)
      BY <2>4 DEF Elements
    <3>2. t.command \in Elements(L[t.lane].queue)
      BY <1>1, <2>2, StartableBounds
    <3> QED BY <2>2, <3>1, <3>2 DEF Core, CoreOnce
  <2>6. DOMAIN L[l].queue = 1..Len(L[l].queue) /\ Len(L[l].queue) \in Nat
        /\ FreeSlots(L[l]) \in 0..Len(L[l].queue)
    BY <1>1, LenProperties, FreeSlotsBounds DEF WellFormed, LaneState
  <2>7. j \in 1..FreeSlots(L[l])
    <3>1. PICK m \in 1..FreeSlots(L[l]) : L[l].queue[m] = t.command
      BY <2>2, <2>5 DEF Startable
    <3>2. m \in DOMAIN L[l].queue
      BY <2>6
    <3>3. m = j
      BY <1>1, <2>4, <3>1, <3>2 DEF NoRepeats
    <3> QED BY <3>3
  <2>8. i \in 1..FreeSlots(L[l])
    BY <2>4, <2>6, <2>7
  <2>9. lanes[l].queue[i] \in Startable(L[l])
    BY <2>4, <2>8 DEF Startable
  <2>10. lanes'[l] = Pump(L[l])
    BY <2>2, <2>5 DEF Pumped
  <2> QED BY <1>1, <2>9, <2>10, PumpNoRepeats
<1> QED BY <1>2, <1>3

\* A step that starts nothing and moves nothing respects both.
LEMMA QuietStep ==
  ASSUME IInv, inflight' \subseteq inflight,
         \A l \in Lane : lanes'[l].active \subseteq lanes[l].active
  PROVE  LimitStep /\ OrderStep
<1>1. LimitStep
  BY DEF LimitStep
<1>2. \A l \in Lane, t \in inflight' : t.command \notin Elements(lanes[l].queue)
  BY DEF IInv, Core, CoreOnce
<1>3. OrderStep
  BY <1>2 DEF OrderStep, Elements
<1> QED BY <1>1, <1>3

\* A step that gives lane l the state st and pumps it keeps the invariant, when
\* the bookkeeping was exact before the pump.
LEMMA PumpStep ==
  ASSUME IInv, NEW l \in Lane, NEW st, NEW F, NEW O,
         Core([lanes EXCEPT ![l] = st], F, O),
         st.active \subseteq lanes[l].active, Extends(st.queue, lanes[l].queue),
         F \subseteq inflight,
         lanes' = [lanes EXCEPT ![l] = Pump(st)],
         inflight' = F \union Started(l, st),
         outcome' = O
  PROVE  /\ Core(lanes', inflight', outcome') /\ WorkConserving'
         /\ LimitStep /\ OrderStep
<1> DEFINE L == [lanes EXCEPT ![l] = st]
<1>1. DOMAIN lanes = Lane
  BY DEF IInv, Core, CoreType
<1>2. L[l] = st /\ \A k \in Lane : k # l => L[k] = lanes[k]
  BY <1>1
<1>3. lanes' = Pumped(L, {l})
  BY <1>1 DEF Pumped
<1>4. inflight' = F \union Launched(L, {l})
  BY <1>2 DEF Launched
<1> HIDE DEF L
<1>5. Core(L, F, O)
  BY DEF L
<1>6. Core(lanes', inflight', outcome')
  <2>1. {l} \in SUBSET Lane
    OBVIOUS
  <2>2. Core(Pumped(L, {l}), F \union Launched(L, {l}), O)
    BY <2>1, <1>5, PumpCore
  <2> QED BY <1>3, <1>4, <2>2
<1>7. WorkConserving'
  <2> SUFFICES ASSUME NEW k \in Lane, lanes'[k].queue # <<>>
               PROVE  Cardinality(lanes'[k].active) >= lanes'[k].maxConcurrent
    BY DEF WorkConserving
  <2>1. CASE k = l
    BY <2>1, <1>3, <1>5, PumpConserves
  <2>2. CASE k # l
    <3>1. lanes'[k] = lanes[k]
      BY <2>2, <1>1
    <3> QED BY <3>1 DEF IInv, WorkConserving
  <2> QED BY <2>1, <2>2
<1>8. LimitStep /\ OrderStep
  BY <1>2, <1>3, <1>4, <1>5, PumpedStep
<1> QED BY <1>6, <1>7, <1>8

-----------------------------------------------------------------------------
\* What appending an entry does to the elements of a queue.
LEMMA PushElements ==
  ASSUME NEW E, NEW q \in Seq(E), NEW e \in E
  PROVE  /\ Elements(Append(q, e)) = Elements(q) \union {e}
         /\ NoRepeats(q) /\ e \notin Elements(q) => NoRepeats(Append(q, e))
<1>1. /\ Len(q) \in Nat /\ DOMAIN q = 1..Len(q)
      /\ DOMAIN Append(q, e) = 1..(Len(q) + 1)
      /\ \A i \in 1..Len(q) : Append(q, e)[i] = q[i]
      /\ Append(q, e)[Len(q) + 1] = e
  BY LenProperties, AppendProperties
<1>2. Elements(Append(q, e)) = Elements(q) \union {e}
  <2>1. \A i \in DOMAIN Append(q, e) : Append(q, e)[i] \in Elements(q) \union {e}
    BY <1>1 DEF Elements
  <2>2. \A i \in DOMAIN q : q[i] \in Elements(Append(q, e))
    BY <1>1 DEF Elements
  <2>3. e \in Elements(Append(q, e))
    <3>1. Len(q) + 1 \in DOMAIN Append(q, e)  BY <1>1
    <3> QED BY <1>1, <3>1 DEF Elements
  <2> QED BY <2>1, <2>2, <2>3 DEF Elements
<1>3. ASSUME NoRepeats(q), e \notin Elements(q)
      PROVE  NoRepeats(Append(q, e))
  BY <1>1, <1>3 DEF NoRepeats, Elements
<1> QED BY <1>2, <1>3

\* enqueueCommandInLane keeps the invariant.
LEMMA EnqueueStep ==
  ASSUME IInv, NEW c \in Command, NEW l \in Lane, EnqueueCommandInLane(c, l)
  PROVE  IInv' /\ LimitStep /\ OrderStep
<1>1. CASE gatewayDraining
  <2>1. UNCHANGED <<lanes, inflight, gatewayDraining>>
        /\ outcome' = [outcome EXCEPT ![c] = "refused"] /\ outcome[c] = "unsent"
    BY <1>1 DEF EnqueueCommandInLane
  <2>2. outcome' \in [Command -> Settled \union {"unsent", "pending"}]
    BY <2>1 DEF IInv, Core, CoreType, Settled
  <2>3. \A d \in Command : outcome'[d] = "pending" <=> outcome[d] = "pending"
    BY <2>1 DEF IInv, Core, CoreType
  <2>4. CoreType(lanes', inflight', outcome') /\ CorePending(lanes', inflight', outcome')
    BY <2>1, <2>2, <2>3 DEF IInv, Core, CoreType, CorePending
  <2>5. CoreActive(lanes', inflight') /\ CoreOnce(lanes', inflight')
    BY <2>1 DEF IInv, Core
  <2>6. WorkConserving'
    BY <2>1 DEF IInv, WorkConserving
  <2>7. LimitStep /\ OrderStep
    BY <2>1, QuietStep
  <2> QED BY <2>1, <2>4, <2>5, <2>6, <2>7 DEF IInv, Core
<1>2. CASE ~gatewayDraining
  <2> DEFINE st == Push(lanes[l], c)
             L == [lanes EXCEPT ![l] = st]
  <2>1. /\ outcome[c] = "unsent" /\ gatewayDraining' = gatewayDraining
        /\ outcome' = [outcome EXCEPT ![c] = "pending"]
        /\ lanes' = [lanes EXCEPT ![l] = Pump(st)]
        /\ inflight' = inflight \union Started(l, st)
    BY <1>2 DEF EnqueueCommandInLane
  <2>2. /\ lanes \in [Lane -> LaneState(Command)] /\ lanes[l] \in LaneState(Command)
        /\ lanes[l].queue \in Seq(Command)
    BY DEF IInv, Core, CoreType, LaneState
  <2>3. /\ st.queue = Append(lanes[l].queue, c) /\ st.active = lanes[l].active
        /\ st.maxConcurrent = lanes[l].maxConcurrent
        /\ st.generation = lanes[l].generation
        /\ st \in LaneState(Command)
    BY <2>2, AppendProperties DEF Push, LaneState
  <2>4. L[l] = st /\ \A k \in Lane : k # l => L[k] = lanes[k]
    BY <2>2
  <2>5. L \in [Lane -> LaneState(Command)]
    BY <2>2, <2>3
  <2>6. /\ \A k \in Lane : c \notin Elements(lanes[k].queue)
        /\ \A t \in inflight : t.command # c
    BY <2>1 DEF IInv, Core, CorePending
  <2>7. /\ Elements(st.queue) = Elements(lanes[l].queue) \union {c}
        /\ NoRepeats(st.queue)
    BY <2>2, <2>3, <2>6, PushElements DEF IInv, Core, CoreOnce
  <2> HIDE DEF L, st
  <2>8. CoreType(L, inflight, outcome')
    BY <2>1, <2>3, <2>4, <2>5 DEF IInv, Core, CoreType
  <2>9. CoreActive(L, inflight)
    <3>1. \A k \in Lane : L[k].active = lanes[k].active
                          /\ L[k].generation = lanes[k].generation
      BY <2>3, <2>4
    <3>2. \A t \in inflight : t.lane \in Lane
      BY DEF IInv, Core, CoreType, Task
    <3> QED BY <3>1, <3>2 DEF IInv, Core, CoreActive
  <2>10. CoreOnce(L, inflight)
    <3>1. \A k \in Lane : NoRepeats(L[k].queue)
      BY <2>4, <2>7 DEF IInv, Core, CoreOnce
    <3>2. \A j, k \in Lane : j # k => Elements(L[j].queue) \cap Elements(L[k].queue) = {}
      BY <2>4, <2>6, <2>7 DEF IInv, Core, CoreOnce
    <3>3. \A k \in Lane, t \in inflight : t.command \notin Elements(L[k].queue)
      BY <2>4, <2>6, <2>7 DEF IInv, Core, CoreOnce
    <3> QED BY <3>1, <3>2, <3>3 DEF IInv, Core, CoreOnce
  <2>11. CorePending(L, inflight, outcome')
    <3> SUFFICES ASSUME NEW d \in Command
                 PROVE  outcome'[d] = "pending" <=>
                          \/ \E k \in Lane : d \in Elements(L[k].queue)
                          \/ \E t \in inflight : t.command = d
      BY DEF CorePending
    <3>1. CASE d = c
      BY <3>1, <2>1, <2>4, <2>7 DEF IInv, Core, CoreType
    <3>2. CASE d # c
      <4>1. \A k \in Lane : d \in Elements(L[k].queue) <=> d \in Elements(lanes[k].queue)
        BY <3>2, <2>4, <2>7
      <4>2. outcome'[d] = outcome[d]
        BY <3>2, <2>1 DEF IInv, Core, CoreType
      <4> QED BY <4>1, <4>2 DEF IInv, Core, CorePending
    <3> QED BY <3>1, <3>2
  <2>12. Core([lanes EXCEPT ![l] = st], inflight, outcome')
    BY <2>8, <2>9, <2>10, <2>11 DEF Core, L
  <2>13. Extends(st.queue, lanes[l].queue)
    <3>1. DOMAIN lanes[l].queue = 1..Len(lanes[l].queue) /\ Len(lanes[l].queue) \in Nat
          /\ DOMAIN st.queue = 1..(Len(lanes[l].queue) + 1)
      BY <2>2, <2>3, LenProperties, AppendProperties
    <3> QED BY <2>2, <2>3, <3>1, AppendProperties DEF Extends
  <2>14. /\ Core(lanes', inflight', outcome') /\ WorkConserving'
         /\ LimitStep /\ OrderStep
    BY <2>1, <2>3, <2>12, <2>13, PumpStep
  <2> QED BY <2>1, <2>14 DEF IInv
<1> QED BY <1>1, <1>2

\* A lane whose limit alone changes, before the pump.
LEMMA SetConcurrencyStep ==
  ASSUME IInv, NEW l \in Lane, NEW n \in Limit, SetCommandLaneConcurrency(l, n)
  PROVE  IInv' /\ LimitStep /\ OrderStep
<1> DEFINE st == [lanes[l] EXCEPT !.maxConcurrent = AtLeastOne(n)]
           L == [lanes EXCEPT ![l] = st]
<1>1. /\ gatewayDraining' = gatewayDraining /\ outcome' = outcome
      /\ lanes' = [lanes EXCEPT ![l] = Pump(st)]
      /\ inflight' = inflight \union Started(l, st)
  BY DEF SetCommandLaneConcurrency
<1>2. lanes \in [Lane -> LaneState(Command)] /\ lanes[l] \in LaneState(Command)
  BY DEF IInv, Core, CoreType
<1>3. AtLeastOne(n) \in Nat \ {0}
  BY LimitAssumption DEF AtLeastOne
<1>4. /\ st.queue = lanes[l].queue /\ st.active = lanes[l].active
      /\ st.generation = lanes[l].generation
      /\ st \in LaneState(Command)
  BY <1>2, <1>3 DEF LaneState
<1>5. L \in [Lane -> LaneState(Command)]
  BY <1>2, <1>4
<1>6. \A k \in Lane : /\ L[k].queue = lanes[k].queue
                      /\ L[k].active = lanes[k].active
                      /\ L[k].generation = lanes[k].generation
  BY <1>2, <1>4
<1> HIDE DEF L, st
<1>7. CoreType(L, inflight, outcome)
  BY <1>5, <1>6 DEF IInv, Core, CoreType
<1>8. CoreActive(L, inflight)
  <2>1. \A t \in inflight : t.lane \in Lane
    BY DEF IInv, Core, CoreType, Task
  <2> QED BY <1>6, <2>1 DEF IInv, Core, CoreActive
<1>9. CoreOnce(L, inflight)
  BY <1>6 DEF IInv, Core, CoreOnce
<1>10. CorePending(L, inflight, outcome)
  BY <1>6 DEF IInv, Core, CorePending
<1>11. Core([lanes EXCEPT ![l] = st], inflight, outcome)
  BY <1>7, <1>8, <1>9, <1>10 DEF Core, L
<1>12. Extends(st.queue, lanes[l].queue)
  BY <1>4 DEF Extends
<1>13. /\ Core(lanes', inflight', outcome') /\ WorkConserving'
       /\ LimitStep /\ OrderStep
  BY <1>1, <1>4, <1>11, <1>12, PumpStep
<1> QED BY <1>1, <1>13 DEF IInv

\* clearCommandLane keeps the invariant: the entries dropped were only there.
LEMMA ClearStep ==
  ASSUME IInv, NEW l \in Lane, ClearCommandLane(l)
  PROVE  IInv' /\ LimitStep /\ OrderStep
<1>1. /\ gatewayDraining' = gatewayDraining /\ inflight' = inflight
      /\ lanes' = [lanes EXCEPT ![l] = Clear(lanes[l])]
      /\ outcome' = [c \in Command |->
                   IF c \in Elements(lanes[l].queue) THEN "cleared" ELSE outcome[c]]
  BY DEF ClearCommandLane
<1>2. lanes \in [Lane -> LaneState(Command)] /\ lanes[l] \in LaneState(Command)
  BY DEF IInv, Core, CoreType
<1>3. /\ Clear(lanes[l]).queue = <<>> /\ Clear(lanes[l]).active = lanes[l].active
      /\ Clear(lanes[l]).generation = lanes[l].generation
      /\ Clear(lanes[l]).maxConcurrent = lanes[l].maxConcurrent
      /\ Clear(lanes[l]) \in LaneState(Command)
  BY <1>2, EmptySeq DEF Clear, LaneState
<1>4. /\ lanes' \in [Lane -> LaneState(Command)]
      /\ lanes'[l] = Clear(lanes[l])
      /\ \A k \in Lane : k # l => lanes'[k] = lanes[k]
  BY <1>1, <1>2, <1>3
<1>5. \A k \in Lane : /\ lanes'[k].active = lanes[k].active
                      /\ lanes'[k].generation = lanes[k].generation
                      /\ lanes'[k].maxConcurrent = lanes[k].maxConcurrent
  BY <1>3, <1>4
<1>6. Elements(<<>>) = {} /\ NoRepeats(<<>>)
  BY DEF Elements, NoRepeats
<1>7. CoreType(lanes', inflight', outcome')
  <2>1. outcome' \in [Command -> Settled \union {"unsent", "pending"}]
    BY <1>1 DEF IInv, Core, CoreType, Settled
  <2> QED BY <1>1, <1>4, <1>5, <2>1 DEF IInv, Core, CoreType
<1>8. CoreActive(lanes', inflight')
  <2>1. \A t \in inflight : t.lane \in Lane
    BY DEF IInv, Core, CoreType, Task
  <2> QED BY <1>1, <1>5, <2>1 DEF IInv, Core, CoreActive
<1>9. \A k \in Lane : k # l => Elements(lanes'[k].queue) = Elements(lanes[k].queue)
  BY <1>4
<1>10. Elements(lanes'[l].queue) = {}
  BY <1>3, <1>4, <1>6
<1>11. CoreOnce(lanes', inflight')
  <2>1. \A k \in Lane : NoRepeats(lanes'[k].queue)
    BY <1>3, <1>4, <1>6 DEF IInv, Core, CoreOnce
  <2>2. \A j, k \in Lane : j # k =>
          Elements(lanes'[j].queue) \cap Elements(lanes'[k].queue) = {}
    BY <1>9, <1>10 DEF IInv, Core, CoreOnce
  <2>3. \A k \in Lane, t \in inflight' : t.command \notin Elements(lanes'[k].queue)
    BY <1>1, <1>9, <1>10 DEF IInv, Core, CoreOnce
  <2> QED BY <1>1, <2>1, <2>2, <2>3 DEF IInv, Core, CoreOnce
<1>12. CorePending(lanes', inflight', outcome')
  <2> SUFFICES ASSUME NEW c \in Command
               PROVE  outcome'[c] = "pending" <=>
                        \/ \E k \in Lane : c \in Elements(lanes'[k].queue)
                        \/ \E t \in inflight' : t.command = c
    BY DEF CorePending
  <2>1. CASE c \in Elements(lanes[l].queue)
    BY <2>1, <1>1, <1>9, <1>10 DEF IInv, Core, CoreOnce
  <2>2. CASE c \notin Elements(lanes[l].queue)
    BY <2>2, <1>1, <1>9, <1>10 DEF IInv, Core, CorePending
  <2> QED BY <2>1, <2>2
<1>13. WorkConserving'
  <2> SUFFICES ASSUME NEW k \in Lane, lanes'[k].queue # <<>>
               PROVE  Cardinality(lanes'[k].active) >= lanes'[k].maxConcurrent
    BY DEF WorkConserving
  <2>1. k # l
    BY <1>3, <1>4
  <2> QED BY <2>1, <1>4 DEF IInv, WorkConserving
<1>14. LimitStep /\ OrderStep
  BY <1>1, <1>5, QuietStep
<1> QED BY <1>1, <1>7, <1>8, <1>11, <1>12, <1>13, <1>14 DEF IInv, Core

\* A finished task keeps the invariant, whether its generation is current or not.
LEMMA FinishStep ==
  ASSUME IInv, NEW t \in inflight, NEW result \in {"resolved", "rejected"},
         FinishTask(t, result)
  PROVE  IInv' /\ LimitStep /\ OrderStep
<1> DEFINE l == t.lane
           c == t.command
           F == inflight \ {t}
<1>1. /\ gatewayDraining' = gatewayDraining
      /\ outcome' = [outcome EXCEPT ![c] = result]
  BY DEF FinishTask
<1>2. /\ l \in Lane /\ c \in Command
      /\ lanes \in [Lane -> LaneState(Command)] /\ lanes[l] \in LaneState(Command)
  BY DEF IInv, Core, CoreType, Task
<1>3. /\ \A k \in Lane : c \notin Elements(lanes[k].queue)
      /\ \A u \in F : u.command # c
  BY DEF IInv, Core, CoreOnce
<1>4. outcome' \in [Command -> Settled \union {"unsent", "pending"}]
      /\ outcome'[c] # "pending"
      /\ \A d \in Command : d # c => outcome'[d] = outcome[d]
  BY <1>1, <1>2 DEF IInv, Core, CoreType, Settled
<1>5. CoreOnce(lanes, F)
  BY DEF IInv, Core, CoreOnce
<1>6. CorePending(lanes, F, outcome')
  <2> SUFFICES ASSUME NEW d \in Command
               PROVE  outcome'[d] = "pending" <=>
                        \/ \E k \in Lane : d \in Elements(lanes[k].queue)
                        \/ \E u \in F : u.command = d
    BY DEF CorePending
  <2>1. CASE d = c
    BY <2>1, <1>3, <1>4
  <2>2. CASE d # c
    BY <2>2, <1>4 DEF IInv, Core, CorePending
  <2> QED BY <2>1, <2>2
<1>7. CASE t.generation = lanes[t.lane].generation
  <2> DEFINE st == Complete(lanes[l], c)
             L == [lanes EXCEPT ![l] = st]
  <2>1. /\ lanes' = [lanes EXCEPT ![l] = Pump(st)]
        /\ inflight' = F \union Started(l, st)
    BY <1>7 DEF FinishTask
  <2>2. /\ st.queue = lanes[l].queue /\ st.active = lanes[l].active \ {c}
        /\ st.generation = lanes[l].generation
        /\ st \in LaneState(Command)
    BY <1>2 DEF Complete, LaneState
  <2>3. L \in [Lane -> LaneState(Command)] /\ L[l] = st
        /\ \A k \in Lane : k # l => L[k] = lanes[k]
    BY <1>2, <2>2
  <2>4. \A k \in Lane : /\ L[k].queue = lanes[k].queue
                        /\ L[k].generation = lanes[k].generation
                        /\ L[k].active \subseteq lanes[k].active
    BY <2>2, <2>3
  <2> HIDE DEF L, st
  <2>5. CoreType(L, F, outcome')
    <3>1. \A k \in Lane : IsFiniteSet(L[k].active)
      BY <2>4, FS_Subset DEF IInv, Core, CoreType
    <3> QED BY <3>1, <1>4, <2>3 DEF IInv, Core, CoreType
  <2>6. CoreActive(L, F)
    <3>1. \A u \in F : u.generation <= L[u.lane].generation
      <4>1. \A u \in inflight : u.lane \in Lane
        BY DEF IInv, Core, CoreType, Task
      <4> QED BY <4>1, <2>4 DEF IInv, Core, CoreActive
    <3>2. ASSUME NEW k \in Lane, NEW d \in Command
          PROVE  d \in L[k].active <=>
                   \E u \in F : u.lane = k /\ u.generation = L[k].generation
                               /\ u.command = d
      <4>1. d \in lanes[k].active <=>
              \E u \in inflight : u.lane = k /\ u.generation = lanes[k].generation
                                  /\ u.command = d
        BY DEF IInv, Core, CoreActive
      <4>2. CASE d = c
        <5>1. c \notin L[k].active
          <6>1. CASE k = l
            BY <6>1, <2>2, <2>3
          <6>2. CASE k # l
            BY <6>2, <4>1, <4>2, <1>3, <2>3
          <6> QED BY <6>1, <6>2
        <5> QED BY <4>2, <5>1, <1>3
      <4>3. CASE d # c
        <5>1. d \in L[k].active <=> d \in lanes[k].active
          BY <4>3, <2>2, <2>3
        <5> QED BY <4>1, <4>3, <5>1, <2>4
      <4> QED BY <4>2, <4>3
    <3> QED BY <3>1, <3>2 DEF CoreActive
  <2>7. CoreOnce(L, F)
    BY <1>5, <2>4 DEF CoreOnce
  <2>8. CorePending(L, F, outcome')
    BY <1>6, <2>4 DEF CorePending
  <2>9. Core([lanes EXCEPT ![l] = st], F, outcome')
    BY <2>5, <2>6, <2>7, <2>8 DEF Core, L
  <2>10. /\ F \subseteq inflight /\ st.active \subseteq lanes[l].active
         /\ Extends(st.queue, lanes[l].queue)
    BY <2>2 DEF Extends
  <2>11. /\ Core(lanes', inflight', outcome') /\ WorkConserving'
         /\ LimitStep /\ OrderStep
    <3> HIDE DEF F
    <3> QED BY <1>2, <2>1, <2>9, <2>10, PumpStep
  <2> QED BY <1>1, <2>11 DEF IInv
<1>8. CASE t.generation # lanes[t.lane].generation
  <2>1. lanes' = lanes /\ inflight' = F
    BY <1>8 DEF FinishTask
  <2>2. CoreType(lanes, F, outcome')
    BY <1>4 DEF IInv, Core, CoreType
  <2>3. CoreActive(lanes, F)
    BY <1>8 DEF IInv, Core, CoreActive
  <2>4. WorkConserving'
    BY <2>1 DEF IInv, WorkConserving
  <2>5. LimitStep /\ OrderStep
    BY <2>1, QuietStep
  <2> QED BY <1>1, <1>5, <1>6, <2>1, <2>2, <2>3, <2>4, <2>5 DEF IInv, Core
<1> QED BY <1>7, <1>8

\* markGatewayDraining keeps the invariant.
LEMMA MarkDrainingStep ==
  ASSUME IInv, MarkGatewayDraining
  PROVE  IInv' /\ LimitStep /\ OrderStep
<1>1. gatewayDraining' = TRUE /\ lanes' = lanes /\ inflight' = inflight
      /\ outcome' = outcome
  BY DEF MarkGatewayDraining
<1>2. Core(lanes', inflight', outcome')
  BY <1>1 DEF IInv
<1>3. WorkConserving'
  BY <1>1 DEF IInv, WorkConserving
<1>4. LimitStep /\ OrderStep
  BY <1>1, QuietStep
<1> QED BY <1>1, <1>2, <1>3, <1>4 DEF IInv

\* resetAllLanes keeps the invariant: no closure has a generation that is only
\* now begun, so the emptied active sets are exact.
LEMMA ResetStep ==
  ASSUME IInv, ResetAllLanes
  PROVE  IInv' /\ LimitStep /\ OrderStep
<1> DEFINE L == [l \in Lane |-> Reset(lanes[l])]
<1>1. /\ gatewayDraining' = FALSE /\ outcome' = outcome
      /\ lanes' = [l \in Lane |-> Pump(Reset(lanes[l]))]
      /\ inflight' = inflight \union UNION {Started(l, Reset(lanes[l])) : l \in Lane}
  BY DEF ResetAllLanes
<1>2. \A l \in Lane : lanes[l] \in LaneState(Command)
  BY DEF IInv, Core, CoreType
<1>3. \A l \in Lane : /\ L[l].queue = lanes[l].queue
                      /\ L[l].active = {}
                      /\ L[l].generation = lanes[l].generation + 1
                      /\ L[l] \in LaneState(Command)
  <2> SUFFICES ASSUME NEW l \in Lane
               PROVE  LET s == Reset(lanes[l])
                      IN  /\ s.queue = lanes[l].queue
                          /\ s.active = {}
                          /\ s.generation = lanes[l].generation + 1
                          /\ s \in LaneState(Command)
    OBVIOUS
  <2>1. lanes[l] \in LaneState(Command) /\ lanes[l].generation + 1 \in Nat
    BY <1>2 DEF LaneState
  <2>2. Reset(lanes[l]) = [lanes[l] EXCEPT !.generation = lanes[l].generation + 1,
                                           !.active = {}]
    BY DEF Reset
  <2>3. {} \in SUBSET Command
    OBVIOUS
  <2> QED BY <2>1, <2>2, <2>3 DEF LaneState
<1>4. lanes' = Pumped(L, Lane)
  BY <1>1 DEF Pumped
<1>5. inflight' = inflight \union Launched(L, Lane)
  BY <1>1 DEF Launched
<1>6. L \in [Lane -> LaneState(Command)]
  BY <1>3
<1> HIDE DEF L
<1>7. CoreType(L, inflight, outcome)
  BY <1>3, <1>6, FS_EmptySet DEF IInv, Core, CoreType
<1>8. CoreActive(L, inflight)
  <2>1. \A t \in inflight : t.lane \in Lane /\ t.generation \in Nat
    BY DEF IInv, Core, CoreType, Task
  <2>2. \A l \in Lane : lanes[l].generation \in Nat
    BY <1>2 DEF LaneState
  <2>3. \A t \in inflight : t.generation < L[t.lane].generation
    BY <1>3, <2>1, <2>2 DEF IInv, Core, CoreActive
  <2>4. \A l \in Lane : L[l].generation \in Nat
    BY <1>3, <2>2
  <2> QED BY <1>3, <2>1, <2>3, <2>4 DEF CoreActive
<1>9. CoreOnce(L, inflight)
  BY <1>3 DEF IInv, Core, CoreOnce
<1>10. CorePending(L, inflight, outcome)
  BY <1>3 DEF IInv, Core, CorePending
<1>11. Core(L, inflight, outcome)
  BY <1>7, <1>8, <1>9, <1>10 DEF Core
<1>12. Core(lanes', inflight', outcome')
  BY <1>1, <1>4, <1>5, <1>11, PumpCore
<1>13. WorkConserving'
  BY <1>4, <1>11, PumpConserves DEF WorkConserving
<1>14. LimitStep /\ OrderStep
  <2>1. \A l \in Lane : L[l].active \subseteq lanes[l].active
                        /\ Extends(L[l].queue, lanes[l].queue)
    BY <1>3 DEF Extends
  <2> QED BY <2>1, <1>4, <1>5, <1>11, PumpedStep
<1> QED BY <1>1, <1>12, <1>13, <1>14 DEF IInv

-----------------------------------------------------------------------------
\* The initial states satisfy the invariant.
LEMMA InitInv == Init => IInv
<1> SUFFICES ASSUME Init PROVE IInv
  OBVIOUS
<1>1. \A l \in Lane : lanes[l] = IdleLane
  BY DEF Init
<1>2. /\ IdleLane \in LaneState(Command) /\ IdleLane.queue = <<>>
      /\ IdleLane.active = {} /\ IdleLane.generation = 0
  BY EmptySeq DEF IdleLane, LaneState
<1>3. Elements(<<>>) = {} /\ NoRepeats(<<>>)
  BY DEF Elements, NoRepeats
<1>4. CoreType(lanes, inflight, outcome)
  BY <1>1, <1>2, FS_EmptySet DEF Init, CoreType, Settled
<1>5. CoreActive(lanes, inflight) /\ CoreOnce(lanes, inflight)
  BY <1>1, <1>2, <1>3 DEF Init, CoreActive, CoreOnce
<1>6. CorePending(lanes, inflight, outcome)
  BY <1>1, <1>2, <1>3 DEF Init, CorePending
<1>7. WorkConserving
  BY <1>1, <1>2 DEF WorkConserving
<1> QED BY <1>4, <1>5, <1>6, <1>7 DEF Init, IInv, Core

\* Every step keeps the invariant and respects the limits and the order.
LEMMA NextStep == IInv /\ [Next]_vars => IInv' /\ LimitStep /\ OrderStep
<1> SUFFICES ASSUME IInv, [Next]_vars
             PROVE  IInv' /\ LimitStep /\ OrderStep
  OBVIOUS
<1>1. ASSUME NEW c \in Command, NEW l \in Lane, EnqueueCommandInLane(c, l)
      PROVE  IInv' /\ LimitStep /\ OrderStep
  BY <1>1, EnqueueStep
<1>2. ASSUME NEW t \in inflight, NEW result \in {"resolved", "rejected"},
             FinishTask(t, result)
      PROVE  IInv' /\ LimitStep /\ OrderStep
  BY <1>2, FinishStep
<1>3. ASSUME NEW l \in Lane, NEW n \in Limit, SetCommandLaneConcurrency(l, n)
      PROVE  IInv' /\ LimitStep /\ OrderStep
  BY <1>3, SetConcurrencyStep
<1>4. ASSUME NEW l \in Lane, ClearCommandLane(l)
      PROVE  IInv' /\ LimitStep /\ OrderStep
  BY <1>4, ClearStep
<1>5. CASE MarkGatewayDraining
  BY <1>5, MarkDrainingStep
<1>6. CASE MayReset /\ ResetAllLanes
  BY <1>6, ResetStep
<1>7. CASE UNCHANGED vars
  <2>1. lanes' = lanes /\ inflight' = inflight /\ outcome' = outcome
        /\ gatewayDraining' = gatewayDraining
    BY <1>7 DEF vars
  <2>2. Core(lanes', inflight', outcome')
    BY <2>1 DEF IInv
  <2>3. WorkConserving'
    BY <2>1 DEF IInv, WorkConserving
  <2>4. LimitStep /\ OrderStep
    BY <2>1, QuietStep
  <2> QED BY <2>1, <2>2, <2>3, <2>4 DEF IInv
<1> QED BY <1>1, <1>2, <1>3, <1>4, <1>5, <1>6, <1>7 DEF Next

\* The invariant implies that a pending promise has exactly one place.
LEMMA OnePlace == IInv => PendingHasOnePlace
<1> SUFFICES ASSUME IInv, NEW c \in Command
             PROVE  Cardinality(QueuedAt(c)) + Cardinality(RunningAs(c))
                      = IF outcome[c] = "pending" THEN 1 ELSE 0
  BY DEF PendingHasOnePlace
<1>1. \A p : p \in QueuedAt(c) <=> \E l \in Lane : \E i \in DOMAIN lanes[l].queue :
                                   p = <<l, i>> /\ lanes[l].queue[i] = c
  BY DEF QueuedAt
<1>2. \A p, q \in QueuedAt(c) : p = q
  BY <1>1 DEF IInv, Core, CoreOnce, NoRepeats, Elements
<1>3. \A t, u \in RunningAs(c) : t = u
  BY DEF IInv, Core, CoreOnce, RunningAs
<1>4. QueuedAt(c) # {} <=> \E l \in Lane : c \in Elements(lanes[l].queue)
  BY <1>1 DEF Elements
<1>5. RunningAs(c) # {} <=> \E t \in inflight : t.command = c
  BY DEF RunningAs
<1>6. outcome[c] = "pending" <=> QueuedAt(c) # {} \/ RunningAs(c) # {}
  BY <1>4, <1>5 DEF IInv, Core, CorePending
<1>7. ~(QueuedAt(c) # {} /\ RunningAs(c) # {})
  BY <1>4, <1>5 DEF IInv, Core, CoreOnce
<1>8. \A S : (\A x, y \in S : x = y) => S = {} \/ \E x : S = {x}
  OBVIOUS
<1>9. /\ QueuedAt(c) # {} => Cardinality(QueuedAt(c)) = 1
      /\ RunningAs(c) # {} => Cardinality(RunningAs(c)) = 1
      /\ Cardinality({}) = 0
  BY <1>2, <1>3, <1>8, FS_Singleton, FS_EmptySet
<1> QED BY <1>6, <1>7, <1>9

\* The invariant implies the properties of states that the runs check.
LEMMA InvImplies == IInv => TypeOK /\ ActiveIsCurrent /\ WorkConserving
<1> SUFFICES ASSUME IInv PROVE TypeOK /\ ActiveIsCurrent /\ WorkConserving
  OBVIOUS
<1>1. TypeOK
  BY DEF IInv, Core, CoreType, TypeOK
<1>2. ActiveIsCurrent
  <2> SUFFICES ASSUME NEW l \in Lane
               PROVE  lanes[l].active =
                        {t.command : t \in {u \in inflight :
                           u.lane = l /\ u.generation = lanes[l].generation}}
    BY DEF ActiveIsCurrent
  <2>1. lanes[l].active \subseteq Command /\ \A t \in inflight : t.command \in Command
    BY DEF IInv, Core, CoreType, LaneState, Task
  <2>2. \A c \in Command : c \in lanes[l].active <=>
           \E t \in inflight : t.lane = l /\ t.generation = lanes[l].generation
                               /\ t.command = c
    BY DEF IInv, Core, CoreActive
  <2> QED BY <2>1, <2>2
<1> QED BY <1>1, <1>2 DEF IInv

-----------------------------------------------------------------------------
\* The queue's state keeps its type.
THEOREM TypeCorrect == Spec => []TypeOK
<1>1. Spec => []IInv
  BY InitInv, NextStep, PTL DEF Spec
<1> QED BY <1>1, InvImplies, PTL

\* activeTaskIds is exact in every reachable state, restarts included.
THEOREM ActiveExact == Spec => []ActiveIsCurrent
<1>1. Spec => []IInv
  BY InitInv, NextStep, PTL DEF Spec
<1> QED BY <1>1, InvImplies, PTL

\* No lane ever holds queued work beside a free slot.
THEOREM NoIdleSlot == Spec => []WorkConserving
<1>1. Spec => []IInv
  BY InitInv, NextStep, PTL DEF Spec
<1> QED BY <1>1, InvImplies, PTL

\* No accepted command is ever lost or in two places, restarts included.
THEOREM NothingLost == Spec => []PendingHasOnePlace
<1>1. Spec => []IInv
  BY InitInv, NextStep, PTL DEF Spec
<1> QED BY <1>1, OnePlace, PTL

\* No step starts a task beyond its lane's limit.
THEOREM WithinLimit == Spec => StartsWithinLimit
<1>1. IInv /\ [Next]_vars => [LimitStep]_vars
  BY NextStep
<1>2. [LimitStep]_vars <=>
        [\A l \in Lane : lanes'[l].active \ lanes[l].active # {}
           => Cardinality(lanes'[l].active) <= lanes'[l].maxConcurrent]_vars
  BY DEF LimitStep
<1> QED BY <1>1, <1>2, InitInv, NextStep, PTL DEF Spec, StartsWithinLimit

\* No step starts a command before one queued ahead of it in its lane.
THEOREM InOrder == Spec => StartsInOrder
<1>1. IInv /\ [Next]_vars => [OrderStep]_vars
  BY NextStep
<1>2. [OrderStep]_vars <=>
        [\A l \in Lane : \A i, j \in DOMAIN lanes[l].queue :
           LET ahead == lanes[l].queue[i]
               behind == lanes[l].queue[j]
           IN  i < j /\ (\E t \in inflight' : t.command = behind)
                 => ahead \notin Elements(lanes'[l].queue)]_vars
  BY DEF OrderStep
<1> QED BY <1>1, <1>2, InitInv, NextStep, PTL DEF Spec, StartsInOrder

-----------------------------------------------------------------------------
\* What the modules that run work through the queue need to know of its steps.

\* What a step of lane l may change, when it may add the commands new and ends
\* the tasks gone: other lanes stay, and what starts was queued or is new.
Moves(l, new, gone) ==
  /\ \A k \in Lane \ {l} : lanes'[k] = lanes[k]
  /\ lanes'[l].generation = lanes[l].generation
  /\ Elements(lanes'[l].queue) \subseteq Elements(lanes[l].queue) \union new
  /\ inflight \ gone \subseteq inflight' /\ gone \cap inflight' = {}
  /\ \A t \in inflight' \ inflight :
       /\ t.lane = l /\ t.generation = lanes[l].generation
       /\ t.command \in Elements(lanes[l].queue) \union new

\* Only the new commands leave "unsent", and only awaited promises settle.
OutcomesMove(new) ==
  \A d \in Command :
    IF d \in new THEN outcome[d] = "unsent" /\ outcome'[d] \in {"pending", "refused"}
    ELSE \/ outcome'[d] = outcome[d]
         \/ outcome[d] = "pending" /\ outcome'[d] \in {"resolved", "rejected", "cleared"}

\* Giving lane l the state st and pumping it is such a step.
LEMMA PumpMoves ==
  ASSUME IInv, NEW l \in Lane, NEW st \in LaneState(Command), IsFiniteSet(st.active),
         NEW new, NEW gone \in SUBSET inflight,
         Elements(st.queue) \subseteq Elements(lanes[l].queue) \union new,
         \A t \in gone : t.command \notin new,
         st.generation = lanes[l].generation,
         lanes' = [lanes EXCEPT ![l] = Pump(st)],
         inflight' = (inflight \ gone) \union Started(l, st)
  PROVE  Moves(l, new, gone)
<1>1. WellFormed(st, Command)
  BY DEF WellFormed
<1>2. /\ Pump(st).generation = st.generation
      /\ Elements(Pump(st).queue) \subseteq Elements(st.queue)
      /\ Startable(st) \subseteq Elements(st.queue)
  BY <1>1, PumpFields, PumpElements, StartableBounds
<1>3. lanes \in [Lane -> LaneState(Command)]
  BY DEF IInv, Core, CoreType
<1>4. lanes'[l] = Pump(st) /\ \A k \in Lane \ {l} : lanes'[k] = lanes[k]
  BY <1>3
<1>5. \A t \in Started(l, st) : /\ t.lane = l /\ t.generation = st.generation
                                /\ t.command \in Startable(st)
  BY DEF Started
<1>6. \A t \in inflight : t.command \notin Elements(lanes[l].queue)
  BY DEF IInv, Core, CoreOnce
<1>7. gone \cap Started(l, st) = {}
  BY <1>2, <1>5, <1>6
<1> QED BY <1>2, <1>4, <1>5, <1>7 DEF Moves

\* enqueueCommandInLane is such a step.
LEMMA EnqueueMoves ==
  ASSUME IInv, NEW c \in Command, NEW l \in Lane, EnqueueCommandInLane(c, l)
  PROVE  /\ Moves(l, {c}, {}) /\ OutcomesMove({c})
         /\ outcome[c] = "unsent"
         /\ lanes'[l].maxConcurrent = lanes[l].maxConcurrent
<1>1. outcome[c] = "unsent" /\ OutcomesMove({c})
  BY DEF EnqueueCommandInLane, OutcomesMove, IInv, Core, CoreType
<1>2. lanes[l] \in LaneState(Command) /\ IsFiniteSet(lanes[l].active)
  BY DEF IInv, Core, CoreType
<1>3. CASE UNCHANGED <<lanes, inflight>>
  BY <1>1, <1>3 DEF Moves
<1>4. CASE /\ lanes' = [lanes EXCEPT ![l] = Pump(Push(lanes[l], c))]
           /\ inflight' = inflight \union Started(l, Push(lanes[l], c))
  <2> DEFINE st == Push(lanes[l], c)
  <2>1. /\ st.queue = Append(lanes[l].queue, c)
        /\ st.active = lanes[l].active /\ st.generation = lanes[l].generation
        /\ st.maxConcurrent = lanes[l].maxConcurrent
        /\ st \in LaneState(Command)
    BY <1>2, AppendProperties DEF Push, LaneState
  <2>2. Elements(st.queue) = Elements(lanes[l].queue) \union {c}
    BY <1>2, <2>1, PushElements DEF LaneState
  <2> HIDE DEF st
  <2>3. inflight' = (inflight \ {}) \union Started(l, st)
    BY <1>4 DEF st
  <2>4. lanes' = [lanes EXCEPT ![l] = Pump(st)]
    BY <1>4 DEF st
  <2>5. Moves(l, {c}, {})
    BY <1>2, <2>1, <2>2, <2>3, <2>4, PumpMoves
  <2>6. Pump(st).maxConcurrent = st.maxConcurrent
    BY <1>2, <2>1, PumpFields DEF WellFormed
  <2>7. lanes'[l] = Pump(st)
    BY <2>4 DEF IInv, Core, CoreType
  <2> QED BY <1>1, <2>1, <2>5, <2>6, <2>7
<1> QED BY <1>1, <1>3, <1>4 DEF EnqueueCommandInLane

\* The end of a task is such a step.
LEMMA FinishMoves ==
  ASSUME IInv, NEW t \in inflight, NEW result \in {"resolved", "rejected"},
         FinishTask(t, result)
  PROVE  /\ t.lane \in Lane /\ t.command \in Command
         /\ Moves(t.lane, {}, {t}) /\ OutcomesMove({})
         /\ lanes'[t.lane].maxConcurrent = lanes[t.lane].maxConcurrent
         /\ outcome' = [outcome EXCEPT ![t.command] = result]
<1> DEFINE l == t.lane
<1>1. /\ l \in Lane /\ t.command \in Command
      /\ lanes[l] \in LaneState(Command) /\ IsFiniteSet(lanes[l].active)
      /\ outcome \in [Command -> Settled \union {"unsent", "pending"}]
  BY DEF IInv, Core, CoreType, Task
<1>2. outcome[t.command] = "pending"
  BY <1>1 DEF IInv, Core, CorePending
<1>3. outcome' = [outcome EXCEPT ![t.command] = result] /\ OutcomesMove({})
  BY <1>1, <1>2 DEF FinishTask, OutcomesMove
<1>4. CASE inflight' = inflight \ {t} /\ UNCHANGED lanes
  BY <1>1, <1>3, <1>4 DEF Moves
<1>5. CASE /\ lanes' = [lanes EXCEPT ![l] = Pump(Complete(lanes[l], t.command))]
           /\ inflight' = (inflight \ {t}) \union Started(l, Complete(lanes[l], t.command))
  <2> DEFINE st == Complete(lanes[l], t.command)
  <2>1. /\ st.queue = lanes[l].queue /\ st.generation = lanes[l].generation
        /\ st.active = lanes[l].active \ {t.command}
        /\ st.maxConcurrent = lanes[l].maxConcurrent
        /\ st \in LaneState(Command)
    BY <1>1 DEF Complete, LaneState
  <2>2. IsFiniteSet(st.active)
    BY <1>1, <2>1, FS_RemoveElement
  <2> HIDE DEF st
  <2>3. /\ lanes' = [lanes EXCEPT ![l] = Pump(st)]
        /\ inflight' = (inflight \ {t}) \union Started(l, st)
    BY <1>5 DEF st
  <2>4. Moves(l, {}, {t})
    BY <1>1, <2>1, <2>2, <2>3, PumpMoves
  <2>5. Pump(st).maxConcurrent = st.maxConcurrent
    BY <2>1, <2>2, PumpFields DEF WellFormed
  <2>6. lanes'[l] = Pump(st)
    BY <1>1, <2>3 DEF IInv, Core, CoreType
  <2> QED BY <1>1, <1>3, <2>1, <2>4, <2>5, <2>6
<1> QED BY <1>4, <1>5 DEF FinishTask

\* A new limit is such a step.
LEMMA ConcurrencyMoves ==
  ASSUME IInv, NEW l \in Lane, NEW n \in Limit, SetCommandLaneConcurrency(l, n)
  PROVE  Moves(l, {}, {}) /\ OutcomesMove({}) /\ UNCHANGED outcome
<1> DEFINE st == [lanes[l] EXCEPT !.maxConcurrent = AtLeastOne(n)]
<1>1. lanes[l] \in LaneState(Command) /\ IsFiniteSet(lanes[l].active)
  BY DEF IInv, Core, CoreType
<1>2. AtLeastOne(n) \in Nat \ {0}
  BY LimitAssumption DEF AtLeastOne
<1>3. /\ st.queue = lanes[l].queue /\ st.generation = lanes[l].generation
      /\ st.active = lanes[l].active /\ st \in LaneState(Command)
  BY <1>1, <1>2 DEF LaneState
<1>4. /\ lanes' = [lanes EXCEPT ![l] = Pump(st)]
      /\ inflight' = (inflight \ {}) \union Started(l, st)
  BY DEF SetCommandLaneConcurrency
<1>5. UNCHANGED outcome /\ OutcomesMove({})
  BY DEF SetCommandLaneConcurrency, OutcomesMove
<1> HIDE DEF st
<1>6. Moves(l, {}, {})
  BY <1>1, <1>3, <1>4, PumpMoves
<1> QED BY <1>5, <1>6

\* Clearing a lane is such a step.
LEMMA ClearMoves ==
  ASSUME IInv, NEW l \in Lane, ClearCommandLane(l)
  PROVE  /\ Moves(l, {}, {}) /\ OutcomesMove({})
         /\ lanes'[l].maxConcurrent = lanes[l].maxConcurrent
         /\ lanes'[l].queue = <<>> /\ lanes'[l].active = lanes[l].active
         /\ inflight' = inflight
         /\ outcome' = [c \in Command |->
                         IF c \in Elements(lanes[l].queue) THEN "cleared" ELSE outcome[c]]
<1>1. lanes \in [Lane -> LaneState(Command)]
  BY DEF IInv, Core, CoreType
<1>2. /\ Clear(lanes[l]).queue = <<>> /\ Clear(lanes[l]).active = lanes[l].active
      /\ Clear(lanes[l]).generation = lanes[l].generation
      /\ Clear(lanes[l]).maxConcurrent = lanes[l].maxConcurrent
  BY <1>1 DEF Clear, LaneState
<1>3. lanes'[l] = Clear(lanes[l]) /\ \A k \in Lane \ {l} : lanes'[k] = lanes[k]
  BY <1>1 DEF ClearCommandLane
<1>4. inflight' = inflight
      /\ outcome' = [c \in Command |->
                       IF c \in Elements(lanes[l].queue) THEN "cleared" ELSE outcome[c]]
  BY DEF ClearCommandLane
<1>5. Elements(<<>>) = {}
  BY DEF Elements
<1>6. Moves(l, {}, {})
  BY <1>2, <1>3, <1>4, <1>5 DEF Moves
<1>7. \A c \in Elements(lanes[l].queue) : c \in Command => outcome[c] = "pending"
  BY DEF IInv, Core, CorePending
<1>8. OutcomesMove({})
  BY <1>4, <1>7 DEF OutcomesMove
<1> QED BY <1>2, <1>3, <1>4, <1>6, <1>8

=============================================================================
