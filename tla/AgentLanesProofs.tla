-------------------------- MODULE AgentLanesProofs --------------------------
(***************************************************************************)
(* Safety of agent runs on the command queue, for all runs, sessions and   *)
(* limits: a run under way holds its session (LanesInv), and the lanes     *)
(* implement AgentRuns.                                                    *)
(*                                                                         *)
(* Every step but a restart changes one lane of the queue.  Moves and      *)
(* OutcomesMove (CommandQueueProofs) say what such a step may change,      *)
(* whichever operation of the queue it is, and the invariant is shown to   *)
(* survive any of them.                                                    *)
(***************************************************************************)
EXTENDS AgentLanes, CommandQueueProofs

\* An entry is queued, and started, in the lane it is for.
Placed ==
  /\ \A l \in Lane : \A c \in Elements(lanes[l].queue) : LaneOf(c) = l
  /\ \A t \in inflight : t.lane = LaneOf(t.command)

\* A session's lane keeps the limit it was created with, and is within it.
OneAtATime ==
  \A s \in Session :
    lanes[s].maxConcurrent = 1 /\ Cardinality(lanes[s].active) <= 1

\* The run of a session entry is asked for only once that entry has started.
Nested ==
  \A r \in Run : outcome[<<r, "global">>] # "unsent" =>
    /\ outcome[<<r, "session">>] # "unsent"
    /\ \A l \in Lane : <<r, "session">> \notin Elements(lanes[l].queue)

\* Until a restart interrupts something, every task is of the lifecycle of its
\* lane, and a run that may still start or end has its session entry in flight.
Current ==
  ~interrupted =>
    /\ \A t \in inflight : t.generation = lanes[t.lane].generation
    /\ \A r \in Run : outcome[<<r, "global">>] = "pending" => InFlight(<<r, "session">>)

HoldInv ==
  /\ IInv
  /\ waits \subseteq Run /\ interrupted \in BOOLEAN
  /\ Placed /\ OneAtATime /\ Nested /\ Current

-----------------------------------------------------------------------------
\* Which commands there are, and that session lanes are for session entries.
LEMMA Places ==
  /\ \A r \in Run, level \in {"cron", "session", "global"} : <<r, level>> \in Command
  /\ \A c \in Command : c[1] \in Run /\ c[2] \in {"cron", "session", "global"}
                        /\ c = <<c[1], c[2]>>
  /\ \A c \in Command : LaneOf(c) \in Lane
  /\ \A c \in Command : LaneOf(c) \in Session <=> c[2] = "session"
  /\ \A r \in Run : LaneOf(<<r, "session">>) = SessionOf[r] /\ SessionOf[r] \in Session
  /\ Session \subseteq Lane
<1>1. \A r \in Run, level \in {"cron", "session", "global"} : <<r, level>> \in Command
  BY Commands DEF Commands
<1>2. \A c \in Command : c[1] \in Run /\ c[2] \in {"cron", "session", "global"}
                         /\ c = <<c[1], c[2]>>
  BY Commands DEF Commands
<1>3. \A r \in Run : SessionOf[r] \in Session
  BY Runs DEF Runs
<1>4. /\ Session \subseteq Lane /\ cron \in Lane /\ main \in Lane /\ nested \in Lane
      /\ cron \notin Session /\ main \notin Session /\ nested \notin Session
  BY Lanes DEF Lanes
<1>5. \A r \in Run : GlobalLane(r) \in {main, nested}
  BY DEF GlobalLane
<1>6. \A c \in Command : /\ c[2] = "cron" => LaneOf(c) = cron
                         /\ c[2] = "session" => LaneOf(c) = SessionOf[c[1]]
                         /\ c[2] = "global" => LaneOf(c) = GlobalLane(c[1])
  BY DEF LaneOf
<1>7. \A r \in Run : LaneOf(<<r, "session">>) = SessionOf[r]
  BY <1>1, <1>6
<1> QED BY <1>1, <1>2, <1>3, <1>4, <1>5, <1>6, <1>7

\* A step that moves one lane keeps the invariant, when what it adds is for that
\* lane, a run is added only by its session entry in flight, and a session entry
\* ends only after its run.
LEMMA KeepsHold ==
  ASSUME HoldInv, IInv', LimitStep,
         NEW l \in Lane, NEW new \in SUBSET Command, NEW gone \in SUBSET inflight,
         Moves(l, new, gone), OutcomesMove(new),
         l \in Session => lanes'[l].maxConcurrent = lanes[l].maxConcurrent,
         waits' \subseteq Run, interrupted' = interrupted,
         \A c \in new : LaneOf(c) = l,
         \A r \in Run : <<r, "global">> \in new =>
           <<r, "session">> \notin new /\ InFlight(<<r, "session">>),
         \A r \in Run, t \in gone : t.command = <<r, "session">> =>
           <<r, "global">> \notin new /\ outcome[<<r, "global">>] # "pending"
  PROVE  HoldInv'
<1>0. IInv /\ Placed /\ OneAtATime /\ Nested /\ Current /\ interrupted \in BOOLEAN
  BY DEF HoldInv
<1>1. Placed'
  <2>1. \A k \in Lane : \A c \in Elements(lanes'[k].queue) : LaneOf(c) = k
    BY <1>0 DEF Placed, Moves
  <2>2. \A t \in inflight' : t.lane = LaneOf(t.command)
    BY <1>0 DEF Placed, Moves
  <2> QED BY <2>1, <2>2 DEF Placed
<1>2. OneAtATime'
  <2> SUFFICES ASSUME NEW s \in Session
               PROVE  /\ lanes'[s].maxConcurrent = 1
                      /\ Cardinality(lanes'[s].active) <= 1
    BY DEF OneAtATime
  <2>1. s \in Lane /\ lanes[s].maxConcurrent = 1 /\ Cardinality(lanes[s].active) <= 1
    BY <1>0, Places DEF OneAtATime
  <2>2. lanes'[s].maxConcurrent = 1
    BY <2>1 DEF Moves
  <2>3. CASE lanes'[s].active \ lanes[s].active # {}
    BY <2>1, <2>2, <2>3 DEF LimitStep
  <2>4. CASE lanes'[s].active \subseteq lanes[s].active
    <3>1. IsFiniteSet(lanes[s].active)
      BY <1>0, <2>1 DEF IInv, Core, CoreType
    <3>2. /\ Cardinality(lanes'[s].active) <= Cardinality(lanes[s].active)
          /\ Cardinality(lanes'[s].active) \in Nat /\ Cardinality(lanes[s].active) \in Nat
      BY <2>4, <3>1, FS_Subset, FS_CardinalityType
    <3> QED BY <2>1, <2>2, <3>2
  <2> QED BY <2>3, <2>4
<1>3. Nested'
  <2> SUFFICES ASSUME NEW r \in Run, outcome'[<<r, "global">>] # "unsent"
               PROVE  /\ outcome'[<<r, "session">>] # "unsent"
                      /\ \A k \in Lane : <<r, "session">> \notin Elements(lanes'[k].queue)
    BY DEF Nested
  <2> DEFINE c == <<r, "session">>
             g == <<r, "global">>
  <2>1. c \in Command /\ g \in Command
    BY Places
  <2>2. /\ outcome[c] # "unsent"
        /\ \A k \in Lane : c \notin Elements(lanes[k].queue)
    <3>1. CASE g \in new
      <4>1. PICK t \in inflight : t.command = c
        BY <3>1 DEF InFlight
      <4>2. outcome[c] = "pending"
        BY <1>0, <2>1, <4>1 DEF IInv, Core, CorePending
      <4>3. \A k \in Lane : c \notin Elements(lanes[k].queue)
        BY <1>0, <4>1 DEF IInv, Core, CoreOnce
      <4> QED BY <4>2, <4>3
    <3>2. CASE g \notin new
      <4>1. outcome[g] # "unsent"
        BY <2>1, <3>2 DEF OutcomesMove
      <4> QED BY <1>0, <4>1 DEF Nested
    <3> QED BY <3>1, <3>2
  <2>3. c \notin new
    BY <2>1, <2>2 DEF OutcomesMove
  <2>4. outcome'[c] # "unsent"
    BY <2>1, <2>2, <2>3 DEF OutcomesMove
  <2>5. \A k \in Lane : c \notin Elements(lanes'[k].queue)
    BY <2>2, <2>3 DEF Moves
  <2> QED BY <2>4, <2>5
<1>4. Current'
  <2> SUFFICES ASSUME ~interrupted
               PROVE  /\ \A t \in inflight' : t.generation = lanes'[t.lane].generation
                      /\ \A r \in Run : outcome'[<<r, "global">>] = "pending"
                                          => InFlight(<<r, "session">>)'
    BY DEF Current
  <2>1. \A t \in inflight : t.lane \in Lane
    BY <1>0 DEF IInv, Core, CoreType, Task
  <2>2. \A k \in Lane : lanes'[k].generation = lanes[k].generation
    BY DEF Moves
  <2>3. ASSUME NEW t \in inflight'
        PROVE  t.generation = lanes'[t.lane].generation
    <3>1. CASE t \in inflight
      BY <1>0, <2>1, <2>2, <3>1 DEF Current
    <3>2. CASE t \notin inflight
      BY <2>2, <3>2 DEF Moves
    <3> QED BY <3>1, <3>2
  <2>4. ASSUME NEW r \in Run, outcome'[<<r, "global">>] = "pending"
        PROVE  InFlight(<<r, "session">>)'
    <3>1. <<r, "global">> \in Command
      BY Places
    <3>2. outcome[<<r, "global">>] = "pending" \/ <<r, "global">> \in new
      BY <2>4, <3>1 DEF OutcomesMove
    <3>3. PICK t \in inflight : t.command = <<r, "session">>
      BY <1>0, <3>2 DEF Current, InFlight
    <3>4. t \notin gone
      BY <3>2, <3>3
    <3>5. t \in inflight'
      BY <3>4 DEF Moves
    <3> QED BY <3>3, <3>5 DEF InFlight
  <2> QED BY <2>3, <2>4
<1> QED BY <1>0, <1>1, <1>2, <1>3, <1>4 DEF HoldInv

-----------------------------------------------------------------------------
\* Asking for an entry other than a run keeps the invariant.
LEMMA EnqueueHold ==
  ASSUME HoldInv, NEW c \in Command, c[2] # "global",
         EnqueueCommandInLane(c, LaneOf(c)),
         waits' \subseteq Run, interrupted' = interrupted
  PROVE  HoldInv'
<1>1. IInv /\ LaneOf(c) \in Lane
  BY Places DEF HoldInv
<1>2. IInv' /\ LimitStep
  BY <1>1, EnqueueStep
<1>3. /\ Moves(LaneOf(c), {c}, {}) /\ OutcomesMove({c})
      /\ lanes'[LaneOf(c)].maxConcurrent = lanes[LaneOf(c)].maxConcurrent
  BY <1>1, EnqueueMoves
<1>4. \A r \in Run : <<r, "global">> # c
  OBVIOUS
<1>5. {c} \in SUBSET Command /\ {} \in SUBSET inflight
  OBVIOUS
<1> QED BY <1>1, <1>2, <1>3, <1>4, <1>5, KeepsHold

\* A session entry in flight asking for its run keeps the invariant.
LEMMA EnqueueRunHold ==
  ASSUME HoldInv, NEW r \in Run, InFlight(<<r, "session">>),
         EnqueueCommandInLane(<<r, "global">>, LaneOf(<<r, "global">>)),
         waits' = waits, interrupted' = interrupted
  PROVE  HoldInv'
<1> DEFINE c == <<r, "global">>
<1>1. IInv /\ c \in Command /\ LaneOf(c) \in Lane /\ waits' \subseteq Run
  BY Places DEF HoldInv
<1>2. IInv' /\ LimitStep
  BY <1>1, EnqueueStep
<1>3. /\ Moves(LaneOf(c), {c}, {}) /\ OutcomesMove({c})
      /\ lanes'[LaneOf(c)].maxConcurrent = lanes[LaneOf(c)].maxConcurrent
  BY <1>1, EnqueueMoves
<1>4. \A q \in Run : <<q, "session">> # c /\ (<<q, "global">> = c => q = r)
  OBVIOUS
<1>5. {c} \in SUBSET Command /\ {} \in SUBSET inflight
  BY <1>1
<1> HIDE DEF c
<1> QED BY <1>1, <1>2, <1>3, <1>4, <1>5, KeepsHold

\* The end of a task keeps the invariant, when a session entry ends after its run.
LEMMA FinishHold ==
  ASSUME HoldInv, NEW t \in inflight, NEW result \in {"resolved", "rejected"},
         FinishTask(t, result),
         \A r \in Run : t.command = <<r, "session">> =>
           outcome[<<r, "global">>] # "pending",
         waits' = waits, interrupted' = interrupted
  PROVE  HoldInv'
<1>1. IInv /\ waits' \subseteq Run
  BY DEF HoldInv
<1>2. IInv' /\ LimitStep
  BY <1>1, FinishStep
<1>3. /\ t.lane \in Lane /\ Moves(t.lane, {}, {t}) /\ OutcomesMove({})
      /\ lanes'[t.lane].maxConcurrent = lanes[t.lane].maxConcurrent
  BY <1>1, FinishMoves
<1>4. {} \in SUBSET Command /\ {t} \in SUBSET inflight
  OBVIOUS
<1> QED BY <1>1, <1>2, <1>3, <1>4, KeepsHold

\* A restart keeps the invariant: when it interrupts nothing, all is idle.
LEMMA RestartHold ==
  ASSUME HoldInv, Restart
  PROVE  HoldInv'
<1>0. IInv /\ Placed /\ OneAtATime /\ Nested /\ Current /\ interrupted \in BOOLEAN
  BY DEF HoldInv
<1>1. IInv' /\ LimitStep
  BY <1>0, ResetStep DEF Restart
<1>2. /\ outcome' = outcome /\ waits' = waits
      /\ interrupted' = (interrupted \/ inflight # {})
      /\ lanes' = [l \in Lane |-> Pump(Reset(lanes[l]))]
      /\ inflight' = inflight \union UNION {Started(l, Reset(lanes[l])) : l \in Lane}
  BY DEF Restart, ResetAllLanes
<1>3. \A l \in Lane : /\ Reset(lanes[l]) \in LaneState(Command)
                      /\ Reset(lanes[l]).active = {}
                      /\ Reset(lanes[l]).queue = lanes[l].queue
                      /\ Reset(lanes[l]).maxConcurrent = lanes[l].maxConcurrent
                      /\ Reset(lanes[l]).generation = lanes[l].generation + 1
  <2> SUFFICES ASSUME NEW l \in Lane
               PROVE  /\ Reset(lanes[l]) \in LaneState(Command)
                      /\ Reset(lanes[l]).active = {}
                      /\ Reset(lanes[l]).queue = lanes[l].queue
                      /\ Reset(lanes[l]).maxConcurrent = lanes[l].maxConcurrent
                      /\ Reset(lanes[l]).generation = lanes[l].generation + 1
    OBVIOUS
  <2>1. lanes[l] \in LaneState(Command)
    BY <1>0 DEF IInv, Core, CoreType
  <2> DEFINE n == lanes[l].generation + 1
  <2>2. n \in Nat
    BY <2>1 DEF LaneState
  <2>3. Reset(lanes[l]) = [lanes[l] EXCEPT !.generation = n, !.active = {}]
    BY DEF Reset
  <2>4. {} \in SUBSET Command
    OBVIOUS
  <2> HIDE DEF n
  <2> QED BY <2>1, <2>2, <2>3, <2>4 DEF LaneState, n
<1>4. \A l \in Lane : WellFormed(Reset(lanes[l]), Command)
  BY <1>3, FS_EmptySet DEF WellFormed
<1>5. \A l \in Lane :
        /\ lanes'[l].maxConcurrent = lanes[l].maxConcurrent
        /\ lanes'[l].generation = lanes[l].generation + 1
        /\ lanes'[l].active = Startable(Reset(lanes[l]))
        /\ Elements(lanes'[l].queue) \subseteq Elements(lanes[l].queue)
        /\ Startable(Reset(lanes[l])) \subseteq Elements(lanes[l].queue)
  <2> SUFFICES ASSUME NEW l \in Lane
               PROVE  /\ lanes'[l].maxConcurrent = lanes[l].maxConcurrent
                      /\ lanes'[l].generation = lanes[l].generation + 1
                      /\ lanes'[l].active = Startable(Reset(lanes[l]))
                      /\ Elements(lanes'[l].queue) \subseteq Elements(lanes[l].queue)
                      /\ Startable(Reset(lanes[l])) \subseteq Elements(lanes[l].queue)
    OBVIOUS
  <2> DEFINE st == Reset(lanes[l])
  <2>1. lanes'[l] = Pump(st) /\ WellFormed(st, Command)
    BY <1>2, <1>4
  <2>2. /\ st.active = {} /\ st.queue = lanes[l].queue
        /\ st.maxConcurrent = lanes[l].maxConcurrent
        /\ st.generation = lanes[l].generation + 1
    BY <1>3
  <2> HIDE DEF st
  <2>3. /\ Pump(st).active = st.active \union Startable(st)
        /\ Pump(st).maxConcurrent = st.maxConcurrent
        /\ Pump(st).generation = st.generation
    BY <2>1, PumpFields
  <2>4. Elements(st.queue) = Startable(st) \union Elements(Pump(st).queue)
    BY <2>1, PumpElements
  <2>5. st = Reset(lanes[l])
    BY DEF st
  <2> QED BY <2>1, <2>2, <2>3, <2>4, <2>5
<1>6. \A t \in inflight' \ inflight :
        \E l \in Lane : /\ t.lane = l /\ t.generation = lanes[l].generation + 1
                        /\ t.command \in Elements(lanes[l].queue)
  BY <1>2, <1>3, <1>5 DEF Started
<1>7. Placed'
  <2>1. \A k \in Lane : \A c \in Elements(lanes'[k].queue) : LaneOf(c) = k
    BY <1>0, <1>5 DEF Placed
  <2>2. \A t \in inflight' : t.lane = LaneOf(t.command)
    BY <1>0, <1>6 DEF Placed
  <2> QED BY <2>1, <2>2 DEF Placed
<1>8. OneAtATime'
  <2> SUFFICES ASSUME NEW s \in Session
               PROVE  /\ lanes'[s].maxConcurrent = 1
                      /\ Cardinality(lanes'[s].active) <= 1
    BY DEF OneAtATime
  <2>1. s \in Lane /\ lanes'[s].maxConcurrent = 1
    BY <1>0, <1>5, Places DEF OneAtATime
  <2>2. CASE lanes'[s].active = {}
    <3>1. Cardinality(lanes'[s].active) = 0
      BY <2>2, FS_EmptySet
    <3> QED BY <2>1, <3>1
  <2>3. CASE lanes'[s].active # {}
    <3>1. Startable(Reset(lanes[s])) # {}
      BY <1>5, <2>1, <2>3
    <3>2. Cardinality(Pump(Reset(lanes[s])).active) <= lanes[s].maxConcurrent
      BY <1>3, <1>4, <2>1, <3>1, PumpWithinLimit
    <3> QED BY <1>0, <1>2, <2>1, <3>2 DEF OneAtATime
  <2> QED BY <2>1, <2>2, <2>3
<1>9. Nested'
  BY <1>0, <1>2, <1>5 DEF Nested
<1>10. Current'
  <2> SUFFICES ASSUME ~interrupted'
               PROVE  /\ \A t \in inflight' : t.generation = lanes'[t.lane].generation
                      /\ \A r \in Run : outcome'[<<r, "global">>] = "pending"
                                          => InFlight(<<r, "session">>)'
    BY DEF Current
  <2>1. inflight = {} /\ ~interrupted
    BY <1>2
  <2>2. \A t \in inflight' : t.generation = lanes'[t.lane].generation
    BY <1>5, <1>6, <2>1
  <2>3. \A r \in Run : outcome'[<<r, "global">>] # "pending"
    BY <1>0, <1>2, <2>1 DEF Current, InFlight
  <2> QED BY <2>2, <2>3
<1> QED BY <1>0, <1>1, <1>2, <1>7, <1>8, <1>9, <1>10 DEF HoldInv

\* Every step keeps the invariant.
LEMMA LanesStep == HoldInv /\ [LanesNext]_laneVars => HoldInv'
<1> SUFFICES ASSUME HoldInv, [LanesNext]_laneVars PROVE HoldInv'
  OBVIOUS
<1>0. IInv /\ waits \subseteq Run /\ {} \in SUBSET Command /\ {} \in SUBSET inflight
  BY DEF HoldInv
<1>1. ASSUME NEW r \in Run, AskFor(r) PROVE HoldInv'
  <2>1. First(r) \in Command /\ First(r)[2] # "global"
    BY Places DEF First
  <2> QED BY <1>0, <1>1, <2>1, EnqueueHold DEF AskFor
<1>2. ASSUME NEW r \in Run, SessionsSend(r) PROVE HoldInv'
  <2>1. Callee[r] \in Run
    BY <1>2, Runs DEF SessionsSend, Runs
  <2> DEFINE c == <<Callee[r], "session">>
  <2>2. c \in Command /\ c[2] # "global" /\ LaneOf(c) = SessionOf[Callee[r]]
    BY <2>1, Places
  <2>3. waits' \subseteq Run
    BY <1>0, <1>2 DEF SessionsSend
  <2>4. EnqueueCommandInLane(c, LaneOf(c)) /\ interrupted' = interrupted
    BY <1>2, <2>2 DEF SessionsSend
  <2> HIDE DEF c
  <2> QED BY <2>2, <2>3, <2>4, EnqueueHold
<1>3. ASSUME NEW c \in Command, EnqueueInner(c) PROVE HoldInv'
  <2> DEFINE r == c[1]
  <2>1. r \in Run /\ c = <<r, c[2]>>
    BY Places
  <2>2. CASE c[2] = "cron"
    <3>1. Inner(c) = <<r, "session">> /\ Inner(c) \in Command /\ Inner(c)[2] # "global"
      BY <2>1, <2>2, Places DEF Inner
    <3> QED BY <1>0, <1>3, <3>1, EnqueueHold DEF EnqueueInner
  <2>3. CASE c[2] = "session"
    <3>1. Inner(c) = <<r, "global">> /\ InFlight(<<r, "session">>)
      BY <1>3, <2>1, <2>3 DEF Inner, EnqueueInner, MustEnqueue
    <3> QED BY <1>3, <2>1, <3>1, EnqueueRunHold DEF EnqueueInner
  <2> QED BY <1>3, <2>2, <2>3 DEF EnqueueInner, MustEnqueue
<1>4. ASSUME NEW t \in inflight, FinishOuter(t) PROVE HoldInv'
  <2> DEFINE result == IF t.command[2] = "cron" \/ outcome[Inner(t.command)] = "resolved"
                         THEN "resolved" ELSE "rejected"
  <2>1. result \in {"resolved", "rejected"} /\ FinishTask(t, result)
    BY <1>4 DEF FinishOuter
  <2>2. \A r \in Run : t.command = <<r, "session">> => outcome[<<r, "global">>] # "pending"
    BY <1>4 DEF FinishOuter, Inner, Settled
  <2>3. waits' = waits /\ interrupted' = interrupted
    BY <1>4 DEF FinishOuter
  <2> HIDE DEF result
  <2> QED BY <2>1, <2>2, <2>3, FinishHold
<1>5. ASSUME NEW t \in inflight, JobGivesUp(t) PROVE HoldInv'
  BY <1>5, FinishHold DEF JobGivesUp
<1>6. ASSUME NEW t \in inflight, NEW result \in {"resolved", "rejected"},
             FinishRun(t, result)
      PROVE  HoldInv'
  BY <1>6, FinishHold DEF FinishRun
<1>7. ASSUME NEW s \in Session, ClearSession(s) PROVE HoldInv'
  <2>1. s \in Lane /\ ClearCommandLane(s) /\ waits' = waits /\ interrupted' = interrupted
    BY <1>7, Places DEF ClearSession
  <2>2. IInv' /\ LimitStep
    BY <1>0, <2>1, ClearStep
  <2>3. /\ Moves(s, {}, {}) /\ OutcomesMove({})
        /\ lanes'[s].maxConcurrent = lanes[s].maxConcurrent
    BY <1>0, <2>1, ClearMoves
  <2> QED BY <1>0, <2>1, <2>2, <2>3, KeepsHold
<1>8. ASSUME NEW l \in {main, cron}, NEW n \in Limit, SetConcurrency(l, n)
      PROVE  HoldInv'
  <2>1. l \in Lane /\ l \notin Session
    BY Lanes DEF Lanes
  <2>2. SetCommandLaneConcurrency(l, n) /\ waits' = waits /\ interrupted' = interrupted
    BY <1>8 DEF SetConcurrency
  <2>3. IInv' /\ LimitStep
    BY <1>0, <2>1, <2>2, SetConcurrencyStep
  <2>4. Moves(l, {}, {}) /\ OutcomesMove({})
    BY <1>0, <2>1, <2>2, ConcurrencyMoves
  <2> QED BY <1>0, <2>1, <2>2, <2>3, <2>4, KeepsHold
<1>9. ASSUME UNCHANGED <<lanes, inflight, outcome, interrupted>>,
             waits' \subseteq Run, gatewayDraining' \in BOOLEAN
      PROVE  HoldInv'
  <2>1. IInv'
    BY <1>0, <1>9 DEF IInv, WorkConserving
  <2>2. Placed' /\ OneAtATime' /\ Nested' /\ Current'
    BY <1>9 DEF HoldInv, Placed, OneAtATime, Nested, Current, InFlight
  <2>3. interrupted' \in BOOLEAN
    BY <1>9 DEF HoldInv
  <2> QED BY <1>9, <2>1, <2>2, <2>3 DEF HoldInv
<1>10. ASSUME NEW r \in Run, SendReturns(r) PROVE HoldInv'
  <2>1. /\ UNCHANGED <<lanes, inflight, outcome, interrupted>>
        /\ waits' \subseteq Run /\ gatewayDraining' \in BOOLEAN
    BY <1>0, <1>10 DEF SendReturns, vars, IInv
  <2> QED BY <1>9, <2>1
<1>11. CASE Drain
  <2>1. /\ UNCHANGED <<lanes, inflight, outcome, interrupted>>
        /\ waits' \subseteq Run /\ gatewayDraining' \in BOOLEAN
    BY <1>0, <1>11 DEF Drain, MarkGatewayDraining
  <2> QED BY <1>9, <2>1
<1>12. CASE Restart
  BY <1>12, RestartHold
<1>13. CASE UNCHANGED laneVars
  <2>1. /\ UNCHANGED <<lanes, inflight, outcome, interrupted>>
        /\ waits' \subseteq Run /\ gatewayDraining' \in BOOLEAN
    BY <1>0, <1>13 DEF laneVars, vars, IInv
  <2> QED BY <1>9, <2>1
<1> QED BY <1>1, <1>2, <1>3, <1>4, <1>5, <1>6, <1>7, <1>8, <1>10, <1>11, <1>12, <1>13
        DEF LanesNext

\* Nothing is in a lane or waits when the process starts.
LEMMA LanesInitInv == LanesInit => HoldInv
<1> SUFFICES ASSUME LanesInit PROVE HoldInv
  OBVIOUS
<1>1. IInv /\ waits = {} /\ interrupted = FALSE /\ Init
  BY InitInv DEF LanesInit
<1>2. /\ \A l \in Lane : lanes[l] = IdleLane
      /\ inflight = {} /\ \A c \in Command : outcome[c] = "unsent"
  BY <1>1 DEF Init
<1>3. /\ IdleLane.maxConcurrent = 1 /\ Elements(IdleLane.queue) = {}
      /\ Cardinality(IdleLane.active) = 0
  BY FS_EmptySet DEF IdleLane, Elements
<1>4. Placed
  BY <1>2, <1>3 DEF Placed
<1>5. OneAtATime
  BY <1>2, <1>3, Places DEF OneAtATime
<1>6. Nested /\ Current
  BY <1>2, Places DEF Nested, Current
<1> QED BY <1>1, <1>4, <1>5, <1>6 DEF HoldInv

\* Under the invariant, until a restart interrupts something, a session entry in
\* flight has the one slot of its session's lane.
LEMMA SlotOfSession ==
  ASSUME HoldInv, ~interrupted, NEW r \in Run
  PROVE  /\ InFlight(<<r, "session">>) <=>
              <<r, "session">> \in lanes[SessionOf[r]].active
         /\ InFlight(<<r, "session">>) =>
              lanes[SessionOf[r]].active = {<<r, "session">>}
<1> DEFINE c == <<r, "session">>
           s == SessionOf[r]
<1>1. c \in Command /\ s \in Session /\ s \in Lane /\ LaneOf(c) = s
  BY Places
<1>2. IInv /\ Placed /\ OneAtATime /\ Current
  BY DEF HoldInv
<1>3. c \in lanes[s].active <=>
        \E t \in inflight : t.lane = s /\ t.generation = lanes[s].generation /\ t.command = c
  BY <1>1, <1>2 DEF IInv, Core, CoreActive
<1>4. \A t \in inflight : t.command = c =>
        t.lane = s /\ t.generation = lanes[s].generation
  BY <1>1, <1>2 DEF Placed, Current
<1>5. InFlight(c) <=> c \in lanes[s].active
  BY <1>3, <1>4 DEF InFlight
<1>6. IsFiniteSet(lanes[s].active) /\ Cardinality(lanes[s].active) <= 1
  BY <1>1, <1>2 DEF IInv, Core, CoreType, OneAtATime
<1>7. ASSUME c \in lanes[s].active
      PROVE  lanes[s].active = {c}
  <2>1. IsFiniteSet({c}) /\ Cardinality({c}) = 1
    BY FS_Singleton
  <2>2. {c} \subseteq lanes[s].active
    BY <1>7
  <2>3. Cardinality(lanes[s].active) \in Nat /\ Cardinality({c}) <= Cardinality(lanes[s].active)
    BY <1>6, <2>2, FS_Subset, FS_CardinalityType
  <2>4. Cardinality({c}) = Cardinality(lanes[s].active)
    BY <1>6, <2>1, <2>3
  <2> QED BY <1>6, <2>2, <2>4, FS_Subset
<1> QED BY <1>5, <1>7

\* The inductive invariant implies the property that the run checks.
LEMMA HoldImplies == HoldInv => LanesInv
<1> SUFFICES ASSUME HoldInv PROVE LanesInv
  OBVIOUS
<1>1. LanesTypeOK
  BY InvImplies DEF HoldInv, LanesTypeOK
<1>2. SlotsHeld
  <2> SUFFICES ASSUME ~interrupted, NEW t \in inflight, t.command[2] = "global"
               PROVE  lanes[SessionOf[t.command[1]]].active = {<<t.command[1], "session">>}
    BY DEF SlotsHeld
  <2> DEFINE r == t.command[1]
  <2>1. t.command \in Command
    BY DEF HoldInv, IInv, Core, CoreType, Task
  <2>2. r \in Run /\ t.command = <<r, "global">>
    BY <2>1, Places
  <2>3. outcome[<<r, "global">>] = "pending"
    BY <2>1, <2>2 DEF HoldInv, IInv, Core, CorePending
  <2>4. InFlight(<<r, "session">>)
    BY <2>2, <2>3 DEF HoldInv, Current
  <2> QED BY <2>2, <2>4, SlotOfSession
<1> QED BY <1>1, <1>2 DEF LanesInv

\* As long as no restart has interrupted anything, every run under way holds the
\* only slot of its session, whatever the lanes, limits, clears and nestings.
THEOREM RunsHoldTheirSession == LanesSpec => []LanesInv
<1>1. LanesSpec => []HoldInv
  BY LanesInitInv, LanesStep, PTL DEF LanesSpec
<1> QED BY <1>1, HoldImplies, PTL

-----------------------------------------------------------------------------
\* What the refinement mapping makes of a session's queue.
LEMMA RunsOfSeq ==
  ASSUME NEW q \in Seq(Command)
  PROVE  /\ RunsOf(q) \in Seq(Run) /\ Len(RunsOf(q)) = Len(q)
         /\ DOMAIN RunsOf(q) = 1..Len(q)
         /\ \A i \in 1..Len(q) : RunsOf(q)[i] = q[i][1]
<1>1. \A i \in 1..Len(q) : q[i][1] \in Run
  BY Places
<1>2. DOMAIN q = 1..Len(q) /\ Len(q) \in Nat
  BY LenProperties
<1>3. RunsOf(q) = [i \in 1..Len(q) |-> q[i][1]]
  BY <1>2 DEF RunsOf
<1> QED BY <1>1, <1>2, <1>3

\* The runs of a queue to which an entry is added.
LEMMA RunsOfAppend ==
  ASSUME NEW q \in Seq(Command), NEW c \in Command
  PROVE  RunsOf(Append(q, c)) = Append(RunsOf(q), c[1])
<1>1. /\ Append(q, c) \in Seq(Command) /\ Len(Append(q, c)) = Len(q) + 1
      /\ Append(q, c)[Len(q) + 1] = c /\ Len(q) \in Nat
      /\ \A i \in 1..Len(q) : Append(q, c)[i] = q[i]
  BY AppendProperties, LenProperties
<1>2. /\ RunsOf(q) \in Seq(Run) /\ Len(RunsOf(q)) = Len(q) /\ c[1] \in Run
      /\ \A i \in 1..Len(q) : RunsOf(q)[i] = q[i][1]
  BY RunsOfSeq, Places
<1> DEFINE a == Append(q, c)
           b == Append(RunsOf(q), c[1])
<1>3. /\ b \in Seq(Run) /\ Len(b) = Len(q) + 1 /\ b[Len(q) + 1] = c[1]
      /\ \A i \in 1..Len(q) : b[i] = q[i][1]
  BY <1>1, <1>2, AppendProperties
<1>4. /\ RunsOf(a) \in Seq(Run) /\ Len(RunsOf(a)) = Len(q) + 1
      /\ \A i \in 1..(Len(q) + 1) : RunsOf(a)[i] = a[i][1]
  BY <1>1, RunsOfSeq
<1>5. \A i \in 1..(Len(q) + 1) : RunsOf(a)[i] = b[i]
  <2> SUFFICES ASSUME NEW i \in 1..(Len(q) + 1) PROVE RunsOf(a)[i] = b[i]
    OBVIOUS
  <2>1. CASE i = Len(q) + 1
    BY <1>1, <1>3, <1>4, <2>1
  <2>2. CASE i # Len(q) + 1
    <3>1. i \in 1..Len(q)
      BY <1>1, <2>2
    <3> QED BY <1>1, <1>3, <1>4, <3>1
  <2> QED BY <2>1, <2>2
<1> HIDE DEF a, b
<1>6. RunsOf(a) = b
  BY <1>3, <1>4, <1>5, SeqEqual
<1> QED BY <1>6 DEF a, b

\* The runs of a queue are that of its first entry and those of the rest.
LEMMA RunsOfTail ==
  ASSUME NEW q \in Seq(Command), q # <<>>
  PROVE  RunsOf(q) = <<Head(q)[1]>> \o RunsOf(Tail(q))
<1>1. /\ Head(q) \in Command /\ Tail(q) \in Seq(Command) /\ Len(q) \in Nat /\ Len(q) # 0
      /\ Head(q) = q[1] /\ Len(Tail(q)) = Len(q) - 1
      /\ \A i \in 1..(Len(q) - 1) : Tail(q)[i] = q[i + 1]
  BY HeadTailProperties, LenProperties, EmptySeq
<1> DEFINE t == RunsOf(Tail(q))
           b == <<Head(q)[1]>> \o t
<1>2. /\ t \in Seq(Run) /\ Len(t) = Len(q) - 1
      /\ \A i \in 1..(Len(q) - 1) : t[i] = q[i + 1][1]
  <2>1. /\ t \in Seq(Run) /\ Len(t) = Len(Tail(q))
        /\ \A i \in 1..Len(Tail(q)) : t[i] = Tail(q)[i][1]
    BY <1>1, RunsOfSeq
  <2> QED BY <1>1, <2>1
<1>3. /\ RunsOf(q) \in Seq(Run) /\ Len(RunsOf(q)) = Len(q)
      /\ \A i \in 1..Len(q) : RunsOf(q)[i] = q[i][1]
  BY RunsOfSeq
<1>4. Head(q)[1] \in Run
  BY <1>1, Places
<1> HIDE DEF t
<1>5. /\ b \in Seq(Run) /\ Len(b) = 1 + Len(t)
      /\ \A i \in 1..(1 + Len(t)) :
           b[i] = IF i = 1 THEN Head(q)[1] ELSE t[i - 1]
  <2>1. /\ <<Head(q)[1]>> \in Seq(Run) /\ Len(<<Head(q)[1]>>) = 1
        /\ <<Head(q)[1]>>[1] = Head(q)[1]
    BY <1>4
  <2> QED BY <1>2, <2>1, ConcatProperties
<1> HIDE DEF b
<1>6. \A i \in 1..Len(q) : RunsOf(q)[i] = b[i]
  <2> SUFFICES ASSUME NEW i \in 1..Len(q) PROVE RunsOf(q)[i] = b[i]
    OBVIOUS
  <2>1. CASE i = 1
    BY <1>1, <1>2, <1>3, <1>5, <2>1
  <2>2. CASE i # 1
    <3>1. i - 1 \in 1..(Len(q) - 1) /\ i \in 1..(1 + Len(t)) /\ (i - 1) + 1 = i
      BY <1>1, <1>2, <2>2
    <3>2. b[i] = t[i - 1] /\ t[i - 1] = q[(i - 1) + 1][1]
      BY <1>2, <1>5, <2>2, <3>1
    <3> QED BY <1>3, <3>1, <3>2
  <2> QED BY <2>1, <2>2
<1>7. Len(b) = Len(q)
  BY <1>1, <1>2, <1>5
<1>8. RunsOf(q) = b
  BY <1>3, <1>5, <1>6, <1>7, SeqEqual
<1> QED BY <1>8 DEF b, t

-----------------------------------------------------------------------------
\* Run r has the one slot of its session's lane.
HeldBy(slot, r) == slot = {<<r, "session">>}

\* A slot is held by one run.
LEMMA HeldByOne ==
  \A slot, r, q : /\ HeldBy(slot, r) => slot # {}
                  /\ HeldBy(slot, r) /\ HeldBy(slot, q) => r = q
<1> SUFFICES ASSUME NEW slot, NEW r, HeldBy(slot, r)
             PROVE  slot # {} /\ \A q : HeldBy(slot, q) => r = q
  OBVIOUS
<1>1. <<r, "session">> \in slot
  BY DEF HeldBy
<1>2. ASSUME NEW q, HeldBy(slot, q) PROVE r = q
  <2>1. <<r, "session">> = <<q, "session">>
    BY <1>1, <1>2 DEF HeldBy
  <2> QED BY <2>1
<1> QED BY <1>1, <1>2

\* The line of a session, read off the one slot and the queue of its lane.
LineFacts ==
  ~interrupted =>
    \A s \in Session :
      /\ lanes[s].active = {} => lanes[s].queue = <<>> /\ Line[s] = <<>>
      /\ lanes[s].active # {} =>
           \E r \in Run : SessionOf[r] = s /\ HeldBy(lanes[s].active, r)
      /\ \A r \in Run : HeldBy(lanes[s].active, r) =>
           /\ SessionOf[r] = s /\ RunsOf(lanes[s].queue) \in Seq(Run)
           /\ Waiting(r) => Line[s] = <<r>> \o RunsOf(lanes[s].queue)
           /\ ~Waiting(r) => Line[s] = RunsOf(lanes[s].queue)

\* A run under way has the slot of its session, its promise is awaited.
RunningFacts ==
  \A r \in Running :
    /\ outcome[<<r, "global">>] = "pending"
    /\ ~interrupted => HeldBy(lanes[SessionOf[r]].active, r)

\* The line of a session, read off the invariant.
LEMMA LineHolds == HoldInv => LineFacts
<1> SUFFICES ASSUME HoldInv, ~interrupted, NEW s \in Session
             PROVE  /\ lanes[s].active = {} => lanes[s].queue = <<>> /\ Line[s] = <<>>
                    /\ lanes[s].active # {} =>
                         \E r \in Run : SessionOf[r] = s /\ HeldBy(lanes[s].active, r)
                    /\ \A r \in Run : HeldBy(lanes[s].active, r) =>
                         /\ SessionOf[r] = s /\ RunsOf(lanes[s].queue) \in Seq(Run)
                         /\ Waiting(r) => Line[s] = <<r>> \o RunsOf(lanes[s].queue)
                         /\ ~Waiting(r) => Line[s] = RunsOf(lanes[s].queue)
  BY DEF LineFacts
<1> DEFINE rest == RunsOf(lanes[s].queue)
<1>1. /\ s \in Lane /\ lanes[s] \in LaneState(Command)
      /\ lanes[s].queue \in Seq(Command) /\ lanes[s].active \subseteq Command
  BY Places DEF HoldInv, IInv, Core, CoreType, LaneState
<1>2. rest \in Seq(Run)
  BY <1>1, RunsOfSeq
<1>3. <<>> \o rest = rest
  BY <1>2, ConcatEmptySeq
<1>4. Line[s] = (IF Next1(s) = {} THEN <<>> ELSE <<CHOOSE r \in Next1(s) : TRUE>>) \o rest
  BY DEF Line
<1>5. \A r \in Run : r \in Next1(s) <=>
        SessionOf[r] = s /\ <<r, "session">> \in lanes[s].active /\ Waiting(r)
  BY SlotOfSession DEF Next1
<1>6. CASE lanes[s].active = {}
  <2>1. Next1(s) = {}
    BY <1>5, <1>6 DEF Next1
  <2>2. Cardinality(lanes[s].active) = 0
    BY <1>6, FS_EmptySet
  <2>3. lanes[s].queue = <<>>
    BY <1>1, <2>2 DEF HoldInv, IInv, WorkConserving, OneAtATime
  <2>4. RunsOf(<<>>) = <<>>
    BY DEF RunsOf
  <2> QED BY <1>3, <1>4, <1>6, <2>1, <2>3, <2>4, HeldByOne
<1>7. CASE lanes[s].active # {}
  <2>1. PICK c \in lanes[s].active : TRUE
    BY <1>7
  <2>2. c \in Command /\ \E t \in inflight : t.lane = s /\ t.command = c
    BY <1>1 DEF HoldInv, IInv, Core, CoreActive
  <2>3. LaneOf(c) = s
    BY <2>2 DEF HoldInv, Placed
  <2> DEFINE r == c[1]
  <2>4. r \in Run /\ c = <<r, "session">> /\ SessionOf[r] = s
    BY <2>2, <2>3, Places
  <2>5. lanes[s].active = {<<r, "session">>}
    BY <2>1, <2>4, SlotOfSession
  <2>6. \A q \in Run : <<q, "session">> \in lanes[s].active => q = r
    BY <2>5
  <2>7. Next1(s) \subseteq Run
    BY DEF Next1
  <2> HIDE DEF r
  <2>8. Waiting(r) => Next1(s) = {r}
    BY <1>5, <2>4, <2>5, <2>6, <2>7
  <2>9. ~Waiting(r) => Next1(s) = {}
    BY <1>5, <2>6, <2>7
  <2>10. (CHOOSE q \in {r} : TRUE) = r
    OBVIOUS
  <2>11. HeldBy(lanes[s].active, r)
    BY <2>5 DEF HeldBy
  <2>12. \A q \in Run : HeldBy(lanes[s].active, q) => q = r
    BY <2>11, HeldByOne
  <2>13. Waiting(r) => Line[s] = <<r>> \o rest
    BY <1>4, <2>8, <2>10
  <2>14. ~Waiting(r) => Line[s] = rest
    BY <1>3, <1>4, <2>9
  <2> QED BY <1>2, <1>7, <2>4, <2>11, <2>12, <2>13, <2>14
<1> QED BY <1>6, <1>7

\* The runs that are under way, read off the invariant.
LEMMA RunningHolds == HoldInv => RunningFacts
<1> SUFFICES ASSUME HoldInv, NEW r \in Running
             PROVE  /\ outcome[<<r, "global">>] = "pending"
                    /\ ~interrupted => HeldBy(lanes[SessionOf[r]].active, r)
  BY DEF RunningFacts
<1>1. r \in Run /\ <<r, "global">> \in Command /\ InFlight(<<r, "global">>)
  BY Places DEF Running
<1>2. outcome[<<r, "global">>] = "pending"
  BY <1>1 DEF HoldInv, IInv, Core, CorePending, InFlight
<1>3. ~interrupted => InFlight(<<r, "session">>)
  BY <1>1, <1>2 DEF HoldInv, Current
<1> QED BY <1>1, <1>2, <1>3, SlotOfSession DEF HeldBy

\* The same of the next state.
LEMMA LineHoldsNext == HoldInv' => LineFacts' /\ RunningFacts'
BY LineHolds, RunningHolds, PTL

\* The domain of the mapped line.
LEMMA LineDomain == Line = [s \in Session |-> Line[s]]
BY DEF Line

\* The same of the next state.
LEMMA LineDomainNext == Line' = [s \in Session |-> Line'[s]]
BY DEF Line

-----------------------------------------------------------------------------
\* A step that leaves the session lanes alone advances the abstract runs: the
\* ones whose global entries it starts are the first ones of their sessions.
LEMMA AdvanceStep ==
  ASSUME HoldInv, HoldInv', ~interrupted, ~interrupted',
         \A s \in Session : lanes'[s] = lanes[s],
         Asked' = Asked,
         NEW gone, gone = {} \/ \E r \in Running : gone = {r},
         Running \ Running' = gone,
         \A r \in Running' \ Running : Waiting(r),
         \A r \in Run \ (Running' \ Running) : Waiting(r)' <=> Waiting(r)
  PROVE  Runs1!AbsNext
<1> DEFINE K == Running' \ Running
           S == {SessionOf[r] : r \in K}
<1>1. /\ LineFacts /\ LineFacts' /\ RunningFacts /\ RunningFacts'
      /\ Line' = [s \in Session |-> Line'[s]]
  BY LineHolds, RunningHolds, LineHoldsNext, LineDomainNext
<1>2. K \subseteq Run
  BY DEF Running
<1>3. \A r \in K : /\ SessionOf[r] \in Session /\ Waiting(r) /\ ~Waiting(r)'
                   /\ HeldBy(lanes[SessionOf[r]].active, r)
  <2>1. \A r \in Running' : ~Waiting(r)'
    BY DEF Running, Waiting
  <2> QED BY <1>1, <1>2, <2>1, Places DEF RunningFacts
<1> HIDE DEF K
<1>5. \A r \in K : Line[SessionOf[r]] = <<r>> \o Line'[SessionOf[r]]
                   /\ Line'[SessionOf[r]] \in Seq(Run)
  <2> SUFFICES ASSUME NEW r \in K
               PROVE  Line[SessionOf[r]] = <<r>> \o Line'[SessionOf[r]]
                      /\ Line'[SessionOf[r]] \in Seq(Run)
    OBVIOUS
  <2> DEFINE s == SessionOf[r]
             rest == RunsOf(lanes[s].queue)
  <2>1. r \in Run /\ s \in Session /\ lanes'[s] = lanes[s]
    BY <1>2, <1>3
  <2>2. rest \in Seq(Run) /\ Line[s] = <<r>> \o rest
    BY <1>1, <1>3, HeldByOne, <2>1 DEF LineFacts
  <2>3. Line'[s] = rest
    BY <1>1, <1>3, HeldByOne, <2>1 DEF LineFacts
  <2> QED BY <2>2, <2>3
<1>6. \A s \in Session \ S : Line'[s] = Line[s]
  <2> SUFFICES ASSUME NEW s \in Session \ S PROVE Line'[s] = Line[s]
    OBVIOUS
  <2>1. lanes'[s] = lanes[s]
    OBVIOUS
  <2>2. CASE lanes[s].active = {}
    BY <1>1, <2>1, <2>2 DEF LineFacts
  <2>3. CASE lanes[s].active # {}
    <3>1. PICK r \in Run : /\ SessionOf[r] = s /\ HeldBy(lanes[s].active, r)
                           /\ Waiting(r) => Line[s] = <<r>> \o RunsOf(lanes[s].queue)
                           /\ ~Waiting(r) => Line[s] = RunsOf(lanes[s].queue)
      BY <1>1, <2>3 DEF LineFacts
    <3>2. r \notin K
      BY <3>1 DEF S
    <3>3. Waiting(r)' <=> Waiting(r)
      BY <3>1, <3>2 DEF K
    <3>4. /\ Waiting(r)' => Line'[s] = <<r>> \o RunsOf(lanes[s].queue)
          /\ ~Waiting(r)' => Line'[s] = RunsOf(lanes[s].queue)
      BY <1>1, HeldByOne, <2>1, <2>3, <3>1 DEF LineFacts
    <3> QED BY <3>1, <3>3, <3>4
  <2> QED BY <2>2, <2>3
<1>7. \A r \in K : /\ Line[SessionOf[r]] # <<>>
                   /\ Head(Line[SessionOf[r]]) = r
                   /\ Tail(Line[SessionOf[r]]) = Line'[SessionOf[r]]
  <2>1. \A r \in Run, q \in Seq(Run) : /\ <<r>> \o q # <<>>
                                      /\ Head(<<r>> \o q) = r
                                      /\ Tail(<<r>> \o q) = q
    OBVIOUS
  <2> SUFFICES ASSUME NEW r \in K
               PROVE  /\ Line[SessionOf[r]] # <<>>
                      /\ Head(Line[SessionOf[r]]) = r
                      /\ Tail(Line[SessionOf[r]]) = Line'[SessionOf[r]]
    OBVIOUS
  <2> DEFINE q == Line'[SessionOf[r]]
             p == Line[SessionOf[r]]
  <2>2. r \in Run /\ q \in Seq(Run) /\ p = <<r>> \o q
    BY <1>2, <1>5
  <2> HIDE DEF p, q
  <2>3. p # <<>> /\ Head(p) = r /\ Tail(p) = q
    BY <2>1, <2>2
  <2> QED BY <2>3 DEF p, q
<1>8. Running' = (Running \ gone) \union {Head(Line[s]) : s \in S}
  <2>1. {Head(Line[s]) : s \in S} = K
    <3>1. \A s \in S : \E r \in K : s = SessionOf[r]
      BY DEF S
    <3>2. \A s \in S : Head(Line[s]) \in K
      BY <1>7, <3>1
    <3>3. \A r \in K : SessionOf[r] \in S /\ r = Head(Line[SessionOf[r]])
      BY <1>7 DEF S
    <3> HIDE DEF S
    <3> QED BY <3>2, <3>3
  <2>2. Running' = (Running \ (Running \ Running')) \union (Running' \ Running)
    OBVIOUS
  <2> QED BY <2>1, <2>2 DEF K
<1>9. Line' = [s \in Session |-> IF s \in S THEN Tail(Line[s]) ELSE Line[s]]
  <2>1. \A s \in Session : Line'[s] = IF s \in S THEN Tail(Line[s]) ELSE Line[s]
    BY <1>6, <1>7
  <2> QED BY <1>1, <2>1
<1>10. \A r1, r2 \in Running' : SessionOf[r1] = SessionOf[r2] => r1 = r2
  <2>1. Running' \subseteq Run
    BY DEF Running
  <2> QED BY <1>1, HeldByOne, <2>1 DEF RunningFacts
<1>11. Runs1!Advance(gone, S)
  BY <1>8, <1>9, <1>10 DEF Runs1!Advance
<1>12. S \in SUBSET {s \in Session : Line[s] # <<>>}
  BY <1>3, <1>7
<1>13. gone \in {{}} \union {{r} : r \in Running}
  OBVIOUS
<1> QED BY <1>11, <1>12, <1>13 DEF Runs1!AbsNext

-----------------------------------------------------------------------------
\* A session lane whose slot and queue stay, and whose run waits as it did, keeps
\* its line.
LEMMA LineSame ==
  ASSUME HoldInv, HoldInv', ~interrupted, ~interrupted', NEW s \in Session,
         lanes'[s] = lanes[s],
         \A r \in Run : HeldBy(lanes[s].active, r) => (Waiting(r)' <=> Waiting(r))
  PROVE  Line'[s] = Line[s]
<1>1. LineFacts /\ LineFacts'
  BY LineHolds, LineHoldsNext
<1>2. CASE lanes[s].active = {}
  BY <1>1, <1>2 DEF LineFacts
<1>3. CASE lanes[s].active # {}
  <2>1. PICK r \in Run : HeldBy(lanes[s].active, r)
    BY <1>1, <1>3 DEF LineFacts
  <2>2. /\ Waiting(r) => Line[s] = <<r>> \o RunsOf(lanes[s].queue)
        /\ ~Waiting(r) => Line[s] = RunsOf(lanes[s].queue)
    BY <1>1, <2>1 DEF LineFacts
  <2>3. /\ Waiting(r)' => Line'[s] = <<r>> \o RunsOf(lanes[s].queue)
        /\ ~Waiting(r)' => Line'[s] = RunsOf(lanes[s].queue)
    BY <1>1, <2>1 DEF LineFacts
  <2> QED BY <2>1, <2>2, <2>3
<1> QED BY <1>2, <1>3

\* A step of a session's lane that ends no run starts none either.
LEMMA SessionRunning ==
  ASSUME HoldInv, HoldInv', NEW s \in Session, NEW new, NEW gone \in SUBSET inflight,
         Moves(s, new, gone), \A t \in gone : t.command[2] # "global"
  PROVE  /\ \A r \in Run : InFlight(<<r, "global">>)' <=> InFlight(<<r, "global">>)
         /\ Running' = Running
<1>1. ASSUME NEW t \in inflight', t.command[2] = "global"
      PROVE  t \in inflight
  <2>1. t.command \in Command /\ t.lane = LaneOf(t.command)
    BY DEF HoldInv, IInv, Core, CoreType, Task, Placed
  <2>2. t.lane # s
    BY <1>1, <2>1, Places
  <2> QED BY <2>2 DEF Moves
<1>2. ASSUME NEW t \in inflight, t.command[2] = "global"
      PROVE  t \in inflight'
  BY <1>2 DEF Moves
<1>3. ASSUME NEW r \in Run
      PROVE  InFlight(<<r, "global">>)' <=> InFlight(<<r, "global">>)
  <2>1. <<r, "global">>[2] = "global"
    OBVIOUS
  <2> QED BY <1>1, <1>2, <2>1 DEF InFlight
<1> QED BY <1>3 DEF Running

\* What the pump does to a lane of one slot.
LEMMA OneSlotPump ==
  ASSUME NEW st \in LaneState(Command), IsFiniteSet(st.active), st.maxConcurrent = 1
  PROVE  /\ st.active # {} \/ st.queue = <<>> =>
              Pump(st).queue = st.queue /\ Pump(st).active = st.active
         /\ st.active = {} /\ st.queue # <<>> =>
              Pump(st).queue = Tail(st.queue) /\ Pump(st).active = {Head(st.queue)}
<1>1. /\ st.queue \in Seq(Command) /\ Len(st.queue) \in Nat
      /\ st.queue = <<>> <=> Len(st.queue) = 0
  BY LenProperties, EmptySeq DEF LaneState
<1>2. /\ Pump(st).queue = SubSeq(st.queue, FreeSlots(st) + 1, Len(st.queue))
      /\ Pump(st).active = st.active \union Startable(st)
  BY DEF Pump, LaneState
<1>3. /\ Cardinality(st.active) \in Nat
      /\ st.active = {} <=> Cardinality(st.active) = 0
  BY FS_CardinalityType, FS_EmptySet
<1>4. ASSUME st.active # {} \/ st.queue = <<>>
      PROVE  Pump(st).queue = st.queue /\ Pump(st).active = st.active
  <2>1. FreeSlots(st) = 0
    BY <1>1, <1>3, <1>4 DEF FreeSlots, Smaller
  <2>2. Startable(st) = {}
    BY <2>1 DEF Startable
  <2>3. SubSeq(st.queue, 1, Len(st.queue)) = st.queue
    BY <1>1, SubSeqFull
  <2> QED BY <1>2, <2>1, <2>2, <2>3
<1>5. ASSUME st.active = {}, st.queue # <<>>
      PROVE  Pump(st).queue = Tail(st.queue) /\ Pump(st).active = {Head(st.queue)}
  <2>1. FreeSlots(st) = 1
    BY <1>1, <1>3, <1>5 DEF FreeSlots, Smaller
  <2>2. Startable(st) = {st.queue[1]}
    BY <2>1 DEF Startable
  <2>3. Tail(st.queue) = SubSeq(st.queue, 2, Len(st.queue)) /\ Head(st.queue) = st.queue[1]
    BY <1>1, <1>5
  <2> QED BY <1>2, <1>5, <2>1, <2>2, <2>3
<1> QED BY <1>4, <1>5

-----------------------------------------------------------------------------
\* A session entry that is accepted is a run asked for, at the end of its line.
LEMMA AskStep ==
  ASSUME HoldInv, HoldInv', ~interrupted, ~interrupted', NEW r \in Run,
         EnqueueCommandInLane(<<r, "session">>, SessionOf[r]), ~gatewayDraining
  PROVE  Runs1!Ask(r)
<1> DEFINE c == <<r, "session">>
           s == SessionOf[r]
           st == Push(lanes[s], c)
<1>1. /\ c \in Command /\ s \in Session /\ s \in Lane /\ <<r, "global">> \in Command
      /\ IInv /\ lanes[s] \in LaneState(Command) /\ IsFiniteSet(lanes[s].active)
      /\ lanes[s].maxConcurrent = 1
      /\ outcome \in [Command -> Settled \union {"unsent", "pending"}]
      /\ LineFacts /\ LineFacts' /\ RunningFacts /\ DOMAIN lanes = Lane
  BY Places, LineHolds, LineHoldsNext, RunningHolds
  DEF HoldInv, IInv, Core, CoreType, OneAtATime
<1>2. /\ outcome[c] = "unsent" /\ outcome' = [outcome EXCEPT ![c] = "pending"]
      /\ lanes' = [lanes EXCEPT ![s] = Pump(st)]
  BY DEF EnqueueCommandInLane
<1>3. Moves(s, {c}, {})
  BY <1>1, EnqueueMoves
<1>4. /\ \A q \in Run : InFlight(<<q, "global">>)' <=> InFlight(<<q, "global">>)
      /\ Running' = Running
  BY <1>1, <1>3, SessionRunning
<1>5. \A q \in Run : outcome'[<<q, "global">>] = outcome[<<q, "global">>]
  BY <1>1, <1>2, Places
<1>6. \A q \in Run : Waiting(q)' <=> Waiting(q)
  BY <1>4, <1>5 DEF Waiting
<1>7. outcome[<<r, "global">>] = "unsent"
  BY <1>1, <1>2 DEF HoldInv, Nested
<1>8. Waiting(r)
  BY <1>1, <1>7 DEF Waiting, RunningFacts, Running
<1>9. r \notin Asked /\ Asked' = Asked \union {r}
  <2>1. \A q \in Run : outcome'[<<q, "session">>] =
                         IF q = r THEN "pending" ELSE outcome[<<q, "session">>]
    BY <1>1, <1>2, Places
  <2> QED BY <1>2, <2>1 DEF Asked
<1>10. \A k \in Session \ {s} : Line'[k] = Line[k]
  <2> SUFFICES ASSUME NEW k \in Session \ {s} PROVE Line'[k] = Line[k]
    OBVIOUS
  <2>1. lanes'[k] = lanes[k]
    BY <1>3, Places DEF Moves
  <2> QED BY <1>6, <2>1, LineSame
<1>11. /\ st \in LaneState(Command) /\ st.maxConcurrent = 1
       /\ st.queue = Append(lanes[s].queue, c) /\ st.active = lanes[s].active
  BY <1>1, AppendProperties DEF Push, LaneState
<1>12. lanes'[s] = Pump(st)
  BY <1>1, <1>2
<1>13. lanes[s].queue \in Seq(Command)
  BY <1>1 DEF LaneState
<1> HIDE DEF st
<1>14. Line'[s] = Append(Line[s], r)
  <2>1. CASE lanes[s].active = {}
    <3>1. lanes[s].queue = <<>> /\ Line[s] = <<>>
      BY <1>1, <2>1 DEF LineFacts
    <3>2. st.queue # <<>> /\ Tail(st.queue) = <<>> /\ Head(st.queue) = c
      BY <1>11, <3>1
    <3>3. lanes'[s].queue = <<>> /\ lanes'[s].active = {c}
      BY <1>1, <1>11, <1>12, <2>1, <3>2, OneSlotPump
    <3>4. HeldBy(lanes'[s].active, r)
      BY <3>3 DEF HeldBy
    <3>5. Waiting(r)'
      BY <1>6, <1>8
    <3>6. Line'[s] = <<r>> \o RunsOf(lanes'[s].queue)
      BY <1>1, <3>4, <3>5 DEF LineFacts
    <3>7. RunsOf(<<>>) = <<>>
      BY DEF RunsOf
    <3>8. <<r>> \o <<>> = Append(<<>>, r)
      OBVIOUS
    <3> QED BY <3>1, <3>3, <3>6, <3>7, <3>8
  <2>2. CASE lanes[s].active # {}
    <3>1. lanes'[s].queue = st.queue /\ lanes'[s].active = lanes[s].active
      BY <1>1, <1>11, <1>12, <2>2, OneSlotPump
    <3>2. PICK q \in Run : HeldBy(lanes[s].active, q)
      BY <1>1, <2>2 DEF LineFacts
    <3> DEFINE rest == RunsOf(lanes[s].queue)
    <3>3. /\ rest \in Seq(Run)
          /\ Waiting(q) => Line[s] = <<q>> \o rest
          /\ ~Waiting(q) => Line[s] = rest
      BY <1>1, <3>2 DEF LineFacts
    <3>4. RunsOf(st.queue) = Append(rest, r)
      BY <1>1, <1>11, <1>13, RunsOfAppend
    <3>5. /\ Waiting(q)' => Line'[s] = <<q>> \o Append(rest, r)
          /\ ~Waiting(q)' => Line'[s] = Append(rest, r)
      <4>1. HeldBy(lanes'[s].active, q)
        BY <3>1, <3>2
      <4>2. /\ Waiting(q)' => Line'[s] = <<q>> \o RunsOf(lanes'[s].queue)
            /\ ~Waiting(q)' => Line'[s] = RunsOf(lanes'[s].queue)
        BY <1>1, <4>1 DEF LineFacts
      <4>3. RunsOf(lanes'[s].queue) = Append(rest, r)
        BY <3>1, <3>4
      <4> QED BY <4>2, <4>3
    <3>6. <<q>> \o Append(rest, r) = Append(<<q>> \o rest, r)
      <4> HIDE DEF rest
      <4>1. /\ <<q>> \in Seq(Run) /\ <<r>> \in Seq(Run)
            /\ Append(rest, r) = rest \o <<r>>
            /\ <<q>> \o rest \in Seq(Run)
        BY <3>3, AppendIsConcat, ConcatProperties
      <4>2. Append(<<q>> \o rest, r) = (<<q>> \o rest) \o <<r>>
        BY <4>1, AppendIsConcat
      <4> QED BY <3>3, <4>1, <4>2, ConcatAssociative
    <3> QED BY <1>6, <3>2, <3>3, <3>5, <3>6
  <2> QED BY <2>1, <2>2
<1>15. Line' = [Line EXCEPT ![s] = Append(Line[s], r)]
  BY <1>10, <1>14, LineDomain, LineDomainNext
<1> QED BY <1>4, <1>9, <1>15 DEF Runs1!Ask

\* A run that the draining gateway refuses gives up the head of its line.
LEMMA RefuseStep ==
  ASSUME HoldInv, HoldInv', ~interrupted, ~interrupted', NEW r \in Run,
         InFlight(<<r, "session">>), outcome[<<r, "global">>] = "unsent",
         outcome' = [outcome EXCEPT ![<<r, "global">>] = "refused"],
         UNCHANGED <<lanes, inflight>>
  PROVE  Runs1!Drop(SessionOf[r])
<1> DEFINE s == SessionOf[r]
           g == <<r, "global">>
<1>1. /\ s \in Session /\ g \in Command /\ LineFacts /\ LineFacts' /\ RunningFacts
      /\ outcome \in [Command -> Settled \union {"unsent", "pending"}]
  BY Places, LineHolds, LineHoldsNext, RunningHolds DEF HoldInv, IInv, Core, CoreType
<1>2. HeldBy(lanes[s].active, r)
  BY SlotOfSession DEF HeldBy
<1>3. Running' = Running /\ \A q \in Run : InFlight(<<q, "global">>)' <=> InFlight(<<q, "global">>)
  BY DEF Running, InFlight
<1>4. Waiting(r) /\ ~Waiting(r)'
  <2>1. outcome'[g] = "refused"
    BY <1>1
  <2> QED BY <1>1, <2>1 DEF Waiting, RunningFacts, Running
<1>5. \A q \in Run \ {r} : Waiting(q)' <=> Waiting(q)
  <2>1. \A q \in Run \ {r} : <<q, "global">> \in Command /\ <<q, "global">> # g
    BY Places
  <2>2. \A q \in Run \ {r} : outcome'[<<q, "global">>] = outcome[<<q, "global">>]
    BY <1>1, <2>1
  <2> QED BY <1>3, <2>2 DEF Waiting
<1>6. Asked' = Asked
  <2>1. \A q \in Run : <<q, "session">> \in Command /\ <<q, "session">> # g
    BY Places
  <2>2. \A q \in Run : outcome'[<<q, "session">>] = outcome[<<q, "session">>]
    BY <1>1, <2>1
  <2> QED BY <2>2 DEF Asked
<1>7. \A k \in Session \ {s} : Line'[k] = Line[k]
  <2> SUFFICES ASSUME NEW k \in Session \ {s} PROVE Line'[k] = Line[k]
    OBVIOUS
  <2>1. \A q \in Run : HeldBy(lanes[k].active, q) => SessionOf[q] = k
    BY LineHolds DEF LineFacts
  <2>2. \A q \in Run : HeldBy(lanes[k].active, q) => q # r
    BY <2>1
  <2> QED BY <1>5, <2>2, LineSame
<1> DEFINE rest == RunsOf(lanes[s].queue)
<1>8. rest \in Seq(Run) /\ Line[s] = <<r>> \o rest
  BY <1>1, <1>2, <1>4 DEF LineFacts
<1>9. Line'[s] = rest
  BY <1>1, <1>2, <1>4 DEF LineFacts
<1> HIDE DEF rest
<1>10. Line[s] # <<>> /\ Tail(Line[s]) = rest
  BY <1>8
<1>11. Line' = [Line EXCEPT ![s] = Tail(Line[s])]
  BY <1>7, <1>9, <1>10, LineDomain, LineDomainNext
<1> QED BY <1>3, <1>6, <1>10, <1>11 DEF Runs1!Drop

\* The end of a session entry, whose run has ended before it, hands the slot to
\* the next entry: the abstract line does not change.
LEMMA HandOverStep ==
  ASSUME HoldInv, HoldInv', ~interrupted, ~interrupted', NEW r \in Run,
         NEW t \in inflight, t.command = <<r, "session">>,
         outcome[<<r, "global">>] \in Settled,
         NEW result \in {"resolved", "rejected"}, FinishTask(t, result)
  PROVE  Asked' = Asked /\ Line' = Line /\ Running' = Running
<1> DEFINE c == <<r, "session">>
           s == SessionOf[r]
           st == Complete(lanes[s], c)
<1>1. /\ c \in Command /\ s \in Session /\ s \in Lane
      /\ IInv /\ lanes[s] \in LaneState(Command) /\ IsFiniteSet(lanes[s].active)
      /\ lanes[s].maxConcurrent = 1 /\ DOMAIN lanes = Lane
      /\ outcome \in [Command -> Settled \union {"unsent", "pending"}]
      /\ LineFacts /\ LineFacts' /\ RunningFacts
  BY Places, LineHolds, LineHoldsNext, RunningHolds
  DEF HoldInv, IInv, Core, CoreType, OneAtATime
<1>2. t.lane = s /\ t.generation = lanes[s].generation
  BY Places DEF HoldInv, Placed, Current
<1>3. /\ outcome' = [outcome EXCEPT ![c] = result]
      /\ lanes' = [lanes EXCEPT ![s] = Pump(st)]
  BY <1>2 DEF FinishTask
<1>4. Moves(s, {}, {t})
  BY <1>1, <1>2, FinishMoves
<1>5. /\ \A q \in Run : InFlight(<<q, "global">>)' <=> InFlight(<<q, "global">>)
      /\ Running' = Running
  BY <1>1, <1>4, SessionRunning
<1>6. \A q \in Run : outcome'[<<q, "global">>] = outcome[<<q, "global">>]
  BY <1>1, <1>3, Places
<1>7. \A q \in Run : Waiting(q)' <=> Waiting(q)
  BY <1>5, <1>6 DEF Waiting
<1>8. outcome[c] = "pending"
  BY <1>1 DEF IInv, Core, CorePending
<1>9. Asked' = Asked
  <2>1. \A q \in Run : outcome'[<<q, "session">>] =
                         IF q = r THEN result ELSE outcome[<<q, "session">>]
    BY <1>1, <1>3, Places
  <2> QED BY <1>8, <2>1 DEF Asked
<1>10. \A k \in Session \ {s} : Line'[k] = Line[k]
  <2> SUFFICES ASSUME NEW k \in Session \ {s} PROVE Line'[k] = Line[k]
    OBVIOUS
  <2>1. lanes'[k] = lanes[k]
    BY <1>4, Places DEF Moves
  <2> QED BY <1>7, <2>1, LineSame
<1>11. lanes[s].active = {c}
  <2>1. InFlight(c)
    BY DEF InFlight
  <2> QED BY <2>1, SlotOfSession
<1>12. /\ st \in LaneState(Command) /\ st.maxConcurrent = 1
       /\ st.queue = lanes[s].queue /\ st.active = {}
  BY <1>1, <1>11 DEF Complete, LaneState
<1>13. lanes'[s] = Pump(st) /\ IsFiniteSet(st.active)
  BY <1>1, <1>3, <1>12, FS_EmptySet
<1>14. lanes[s].queue \in Seq(Command)
  BY <1>1 DEF LaneState
<1> HIDE DEF st
<1>15. Line[s] = RunsOf(lanes[s].queue)
  <2>1. HeldBy(lanes[s].active, r)
    BY <1>11 DEF HeldBy
  <2>2. ~Waiting(r)
    BY DEF Waiting, Settled
  <2> QED BY <1>1, <2>1, <2>2 DEF LineFacts
<1>16. Line'[s] = Line[s]
  <2>1. CASE lanes[s].queue = <<>>
    <3>1. lanes'[s].active = {}
      BY <1>12, <1>13, <2>1, OneSlotPump
    <3>2. Line'[s] = <<>>
      BY <1>1, <3>1 DEF LineFacts
    <3>3. RunsOf(<<>>) = <<>>
      BY DEF RunsOf
    <3> QED BY <1>15, <2>1, <3>2, <3>3
  <2>2. CASE lanes[s].queue # <<>>
    <3> DEFINE d == Head(lanes[s].queue)
    <3>1. lanes'[s].queue = Tail(lanes[s].queue) /\ lanes'[s].active = {d}
      BY <1>12, <1>13, <2>2, OneSlotPump
    <3>2. d \in Command /\ d \in Elements(lanes[s].queue)
      BY <1>14, <2>2, HeadTailProperties, LenProperties, EmptySeq DEF Elements
    <3>3. LaneOf(d) = s
      BY <1>1, <3>2 DEF HoldInv, Placed
    <3>4. PICK q \in Run : d = <<q, "session">>
      BY <1>1, <3>2, <3>3, Places
    <3>5. HeldBy(lanes'[s].active, q)
      BY <3>1, <3>4 DEF HeldBy
    <3>6. outcome[<<q, "global">>] = "unsent"
      BY <1>1, <3>2, <3>4 DEF HoldInv, Nested
    <3>7. Waiting(q)'
      <4>1. q \notin Running
        BY <1>1, <3>6 DEF RunningFacts
      <4>2. Waiting(q)
        BY <3>4, <3>6, <4>1 DEF Waiting, Running
      <4> QED BY <1>7, <3>4, <4>2
    <3>8. Line'[s] = <<q>> \o RunsOf(lanes'[s].queue)
      BY <1>1, <3>4, <3>5, <3>7 DEF LineFacts
    <3>9. RunsOf(lanes[s].queue) = <<q>> \o RunsOf(Tail(lanes[s].queue))
      BY <1>14, <2>2, <3>4, RunsOfTail
    <3> QED BY <1>15, <3>1, <3>8, <3>9
  <2> QED BY <2>1, <2>2
<1>17. Line' = Line
  BY <1>10, <1>16, LineDomain, LineDomainNext
<1> QED BY <1>5, <1>9, <1>17

\* Clearing a session's lane gives up the runs that are queued there.
LEMMA GiveUpStep ==
  ASSUME HoldInv, HoldInv', ~interrupted, ~interrupted', NEW s \in Session,
         ClearCommandLane(s)
  PROVE  Runs1!Drop(s) \/ (Asked' = Asked /\ Line' = Line /\ Running' = Running)
<1>1. s \in Lane /\ IInv /\ LineFacts /\ LineFacts' /\ lanes[s].queue \in Seq(Command)
  BY Places, LineHolds, LineHoldsNext DEF HoldInv, IInv, Core, CoreType, LaneState
<1>2. /\ Moves(s, {}, {}) /\ inflight' = inflight
      /\ lanes'[s].queue = <<>> /\ lanes'[s].active = lanes[s].active
      /\ outcome' = [c \in Command |->
                       IF c \in Elements(lanes[s].queue) THEN "cleared" ELSE outcome[c]]
  BY <1>1, ClearMoves
<1>3. Running' = Running /\ \A q \in Run : InFlight(<<q, "global">>)' <=> InFlight(<<q, "global">>)
  BY <1>2 DEF Running, InFlight
<1>4. \A q \in Run : outcome'[<<q, "global">>] = outcome[<<q, "global">>]
  <2>1. \A q \in Run : <<q, "global">> \in Command /\ LaneOf(<<q, "global">>) \notin Session
    BY Places
  <2>2. \A q \in Run : <<q, "global">> \notin Elements(lanes[s].queue)
    BY <1>1, <2>1 DEF HoldInv, Placed
  <2> QED BY <1>2, <2>1, <2>2
<1>5. \A q \in Run : Waiting(q)' <=> Waiting(q)
  BY <1>3, <1>4 DEF Waiting
<1>6. Asked' = Asked
  <2>1. \A q \in Run : /\ <<q, "session">> \in Command
                       /\ outcome'[<<q, "session">>] = outcome[<<q, "session">>]
                          \/ (/\ outcome[<<q, "session">>] = "pending"
                              /\ outcome'[<<q, "session">>] = "cleared")
    BY <1>1, <1>2, Places DEF IInv, Core, CorePending
  <2> QED BY <2>1 DEF Asked
<1>7. \A k \in Session \ {s} : Line'[k] = Line[k]
  <2> SUFFICES ASSUME NEW k \in Session \ {s} PROVE Line'[k] = Line[k]
    OBVIOUS
  <2>1. lanes'[k] = lanes[k]
    BY <1>2, Places DEF Moves
  <2> QED BY <1>5, <2>1, LineSame
<1>8. RunsOf(<<>>) = <<>>
  BY DEF RunsOf
<1>9. Line'[s] = Line[s]
      \/ (Line[s] # <<>> /\ Line'[s] \in {<<Head(Line[s])>>, <<>>})
  <2>1. CASE lanes[s].active = {}
    BY <1>1, <1>2, <2>1 DEF LineFacts
  <2>2. CASE lanes[s].active # {}
    <3>1. PICK r \in Run : HeldBy(lanes[s].active, r)
      BY <1>1, <2>2 DEF LineFacts
    <3> DEFINE rest == RunsOf(lanes[s].queue)
    <3>2. rest \in Seq(Run)
      BY <1>1, RunsOfSeq
    <3>3. /\ Waiting(r) => Line[s] = <<r>> \o rest
          /\ ~Waiting(r) => Line[s] = rest
      BY <1>1, <3>1 DEF LineFacts
    <3>4. /\ Waiting(r)' => Line'[s] = <<r>> \o RunsOf(lanes'[s].queue)
          /\ ~Waiting(r)' => Line'[s] = RunsOf(lanes'[s].queue)
      <4>1. HeldBy(lanes'[s].active, r)
        BY <1>2, <3>1
      <4> QED BY <1>1, <4>1 DEF LineFacts
    <3> HIDE DEF rest
    <3>5. CASE Waiting(r)
      <4>1. Line'[s] = <<r>> \o <<>> /\ Line[s] = <<r>> \o rest
        BY <1>2, <1>5, <1>8, <3>3, <3>4, <3>5
      <4>2. <<r>> \o <<>> = <<r>> /\ <<r>> \o rest # <<>> /\ Head(<<r>> \o rest) = r
        BY <3>2
      <4> QED BY <4>1, <4>2
    <3>6. CASE ~Waiting(r)
      <4>1. Line'[s] = <<>>
        BY <1>2, <1>5, <1>8, <3>4, <3>6
      <4> QED BY <4>1
    <3> QED BY <3>5, <3>6
  <2> QED BY <2>1, <2>2
<1>10. CASE Line'[s] = Line[s]
  BY <1>3, <1>6, <1>7, <1>10, LineDomain, LineDomainNext
<1>11. CASE Line[s] # <<>> /\ Line'[s] \in {<<Head(Line[s])>>, <<>>}
  <2>1. Line' = [Line EXCEPT ![s] = Line'[s]]
    BY <1>7, LineDomain, LineDomainNext
  <2> QED BY <1>3, <1>6, <1>11, <2>1 DEF Runs1!Drop
<1> QED BY <1>9, <1>10, <1>11

\* A restart that interrupts nothing finds nothing queued either.
LEMMA IdleRestartStep ==
  ASSUME HoldInv, HoldInv', ~interrupted, ~interrupted', Restart
  PROVE  Asked' = Asked /\ Line' = Line /\ Running' = Running
<1>1. /\ inflight = {} /\ outcome' = outcome /\ IInv
      /\ lanes' = [l \in Lane |-> Pump(Reset(lanes[l]))]
      /\ inflight' = inflight \union UNION {Started(l, Reset(lanes[l])) : l \in Lane}
  BY DEF Restart, ResetAllLanes, HoldInv
<1>2. \A l \in Lane : lanes[l].active = {} /\ lanes[l].queue = <<>>
  <2> SUFFICES ASSUME NEW l \in Lane
               PROVE  lanes[l].active = {} /\ lanes[l].queue = <<>>
    OBVIOUS
  <2>1. lanes[l] \in LaneState(Command)
    BY <1>1 DEF IInv, Core, CoreType
  <2>2. lanes[l].active \subseteq Command /\ lanes[l].maxConcurrent \in Nat \ {0}
    BY <2>1 DEF LaneState
  <2>3. lanes[l].active = {}
    BY <1>1, <2>2 DEF IInv, Core, CoreActive
  <2>4. Cardinality(lanes[l].active) = 0
    BY <2>3, FS_EmptySet
  <2>5. lanes[l].queue = <<>>
    BY <1>1, <2>2, <2>4 DEF IInv, WorkConserving
  <2> QED BY <2>3, <2>5
<1>3. \A l \in Lane : Startable(Reset(lanes[l])) = {} /\ lanes'[l].active = {}
  <2> SUFFICES ASSUME NEW l \in Lane
               PROVE  Startable(Reset(lanes[l])) = {} /\ lanes'[l].active = {}
    OBVIOUS
  <2> DEFINE st == Reset(lanes[l])
             n == lanes[l].generation + 1
  <2>1. lanes[l] \in LaneState(Command) /\ n \in Nat /\ {} \in SUBSET Command
    BY <1>1 DEF IInv, Core, CoreType, LaneState
  <2>2. st = [lanes[l] EXCEPT !.generation = n, !.active = {}]
    BY DEF Reset
  <2> HIDE DEF n, st
  <2>3. st \in LaneState(Command) /\ st.active = {} /\ st.queue = <<>>
    BY <1>2, <2>1, <2>2 DEF LaneState
  <2>4. WellFormed(st, Command)
    BY <2>3, FS_EmptySet DEF WellFormed
  <2>5. Startable(st) \subseteq Elements(<<>>)
    BY <2>3, <2>4, StartableBounds
  <2>6. Startable(st) = {}
    BY <2>5 DEF Elements
  <2>7. Pump(st).active = {}
    BY <2>3, <2>4, <2>6, PumpFields
  <2> QED BY <1>1, <2>6, <2>7 DEF st
<1>4. inflight' = {}
  BY <1>1, <1>3 DEF Started
<1>5. Asked' = Asked /\ Running' = Running
  BY <1>1, <1>4 DEF Asked, Running, InFlight
<1>6. LineFacts /\ LineFacts' /\ Session \subseteq Lane
  BY LineHolds, LineHoldsNext, Places
<1>7. \A s \in Session : Line[s] = <<>>
  BY <1>2, <1>6 DEF LineFacts
<1>8. \A s \in Session : Line'[s] = <<>>
  BY <1>3, <1>6 DEF LineFacts
<1>9. Line' = Line
  BY <1>7, <1>8, LineDomain, LineDomainNext
<1> QED BY <1>5, <1>9

\* A step of a lane that is no session's advances the abstract runs.
LEMMA OuterLaneStep ==
  ASSUME HoldInv, HoldInv', ~interrupted, ~interrupted',
         NEW l \in Lane, l \notin Session, NEW new \in SUBSET Command,
         NEW gone \in SUBSET inflight, gone = {} \/ \E t \in inflight : gone = {t},
         Moves(l, new, gone), OutcomesMove(new),
         \A c \in new : c[2] # "session" /\ (c[2] = "global" => outcome'[c] = "pending"),
         \A t \in gone : outcome'[t.command] \in {"resolved", "rejected"},
         \A d \in Command : d \notin new /\ (\A t \in gone : t.command # d)
                              => outcome'[d] = outcome[d]
  PROVE  Runs1!AbsNext
<1>1. RunningFacts /\ RunningFacts'
  BY RunningHolds, LineHoldsNext
<1>2. \A s \in Session : lanes'[s] = lanes[s]
  BY Places DEF Moves
<1>3. \A r \in Run : r \in Running <=> InFlight(<<r, "global">>)
  BY DEF Running
<1>4. \A r \in Run : r \in Running' <=> InFlight(<<r, "global">>)'
  BY DEF Running
<1>5. Asked' = Asked
  <2>1. \A q \in Run : <<q, "session">> \in Command /\ <<q, "session">> \notin new
    <3>1. \A q \in Run : <<q, "session">>[2] = "session"
      OBVIOUS
    <3> QED BY <3>1, Places
  <2>2. \A q \in Run : \/ outcome'[<<q, "session">>] = outcome[<<q, "session">>]
                       \/ /\ outcome[<<q, "session">>] = "pending"
                          /\ outcome'[<<q, "session">>] \in {"resolved", "rejected", "cleared"}
    BY <2>1 DEF OutcomesMove
  <2> QED BY <2>2 DEF Asked
<1>6. ASSUME NEW r \in Running \ Running'
      PROVE  \E t \in gone : t.command = <<r, "global">>
  <2>1. r \in Run
    BY DEF Running
  <2>2. PICK t \in inflight : t.command = <<r, "global">>
    BY <1>3, <2>1 DEF InFlight
  <2>3. t \notin inflight'
    BY <1>4, <2>1, <2>2 DEF InFlight
  <2> QED BY <2>2, <2>3 DEF Moves
<1>7. Running \ Running' = {} \/ \E r \in Running : Running \ Running' = {r}
  <2>1. \A r, q \in Running \ Running' : r = q
    <3> SUFFICES ASSUME NEW r \in Running \ Running', NEW q \in Running \ Running'
                 PROVE  r = q
      OBVIOUS
    <3>1. PICK t \in gone : t.command = <<r, "global">>
      BY <1>6
    <3>2. PICK u \in gone : u.command = <<q, "global">>
      BY <1>6
    <3>3. t = u
      OBVIOUS
    <3>4. <<r, "global">> = <<q, "global">>
      BY <3>1, <3>2, <3>3
    <3> QED BY <3>4
  <2> QED BY <2>1
<1>8. \A r \in Run : r \in Running' => outcome'[<<r, "global">>] = "pending"
  BY <1>1 DEF RunningFacts
<1>9. ASSUME NEW r \in Run, r \in Running' \ Running
      PROVE  Waiting(r)
  <2>1. <<r, "global">> \in Command /\ outcome'[<<r, "global">>] = "pending"
    BY <1>8, <1>9, Places
  <2>2. outcome[<<r, "global">>] \in {"unsent", "pending"}
    BY <2>1 DEF OutcomesMove
  <2> QED BY <1>3, <1>9, <2>2 DEF Waiting
<1>10. ASSUME NEW r \in Run, r \notin Running' \ Running
       PROVE  Waiting(r)' <=> Waiting(r)
  <2> DEFINE g == <<r, "global">>
  <2>1. g \in Command /\ g[2] = "global"
    BY Places
  <2>2. Waiting(r) <=> outcome[g] \in {"unsent", "pending"} /\ r \notin Running
    BY <1>3 DEF Waiting
  <2>3. Waiting(r)' <=> outcome'[g] \in {"unsent", "pending"} /\ r \notin Running'
    BY <1>4 DEF Waiting
  <2>4. CASE r \in Running /\ r \in Running'
    BY <2>2, <2>3, <2>4
  <2>5. CASE r \in Running /\ r \notin Running'
    <3>1. PICK t \in gone : t.command = g
      BY <1>6, <2>5
    <3>2. outcome'[g] \in {"resolved", "rejected"}
      BY <3>1
    <3> QED BY <2>2, <2>3, <2>5, <3>2
  <2>6. CASE r \notin Running /\ r \notin Running'
    <3>1. CASE g \in new
      <4>1. outcome'[g] = "pending" /\ outcome[g] = "unsent"
        BY <2>1, <3>1 DEF OutcomesMove
      <4> QED BY <2>2, <2>3, <2>6, <4>1
    <3>2. CASE g \notin new
      <4>1. \A t \in gone : t.command # g
        BY <1>3, <2>6 DEF InFlight
      <4>2. outcome'[g] = outcome[g]
        BY <2>1, <3>2, <4>1
      <4> QED BY <2>2, <2>3, <2>6, <4>2
    <3> QED BY <3>1, <3>2
  <2> QED BY <1>10, <2>4, <2>5, <2>6
<1>11. \A r \in Running' \ Running : Waiting(r)
  <2>1. Running' \subseteq Run
    BY DEF Running
  <2> QED BY <1>9, <2>1
<1>12. \A r \in Run \ (Running' \ Running) : Waiting(r)' <=> Waiting(r)
  BY <1>10
<1> QED BY <1>2, <1>5, <1>7, <1>11, <1>12, AdvanceStep

\* A step that changes neither lanes nor tasks, nor the promise of a run.
LEMMA StutterStep ==
  ASSUME HoldInv, HoldInv', ~interrupted, ~interrupted', UNCHANGED <<lanes, inflight>>,
         Asked' = Asked,
         \A r \in Run : outcome'[<<r, "global">>] = outcome[<<r, "global">>]
  PROVE  Line' = Line /\ Running' = Running
<1>1. Running' = Running /\ \A r \in Run : InFlight(<<r, "global">>)' <=> InFlight(<<r, "global">>)
  BY DEF Running, InFlight
<1>2. \A r \in Run : Waiting(r)' <=> Waiting(r)
  BY <1>1 DEF Waiting
<1>3. \A s \in Session : Line'[s] = Line[s]
  BY <1>2, LineSame
<1> QED BY <1>1, <1>3, LineDomain, LineDomainNext

\* Enqueueing an entry of either kind around a run: a session entry is a run asked
\* for, a cron entry is none, and what a draining gateway refuses changes nothing.
LEMMA EnqueueRefines ==
  ASSUME HoldInv, HoldInv', ~interrupted, ~interrupted', NEW c \in Command,
         c[2] # "global", EnqueueCommandInLane(c, LaneOf(c))
  PROVE  Runs1!AbsNext \/ (Asked' = Asked /\ Line' = Line /\ Running' = Running)
<1>1. /\ IInv /\ LaneOf(c) \in Lane /\ outcome[c] = "unsent"
      /\ outcome \in [Command -> Settled \union {"unsent", "pending"}]
  BY Places DEF HoldInv, IInv, Core, CoreType, EnqueueCommandInLane
<1>2. CASE gatewayDraining
  <2>1. UNCHANGED <<lanes, inflight>> /\ outcome' = [outcome EXCEPT ![c] = "refused"]
    BY <1>2 DEF EnqueueCommandInLane
  <2>2. \A d \in Command : outcome'[d] = outcome[d] \/ (d = c /\ outcome'[d] = "refused")
    BY <1>1, <2>1
  <2>3. Asked' = Asked
    <3>1. \A q \in Run : <<q, "session">> \in Command
      BY Places
    <3>2. \A q \in Run : \/ outcome'[<<q, "session">>] = outcome[<<q, "session">>]
                         \/ /\ outcome[<<q, "session">>] = "unsent"
                            /\ outcome'[<<q, "session">>] = "refused"
      BY <1>1, <2>2, <3>1
    <3> QED BY <3>2 DEF Asked
  <2>4. \A r \in Run : outcome'[<<r, "global">>] = outcome[<<r, "global">>]
    <3>1. \A r \in Run : <<r, "global">> \in Command /\ <<r, "global">>[2] = "global"
      BY Places
    <3> QED BY <2>2, <3>1
  <2> QED BY <2>1, <2>3, <2>4, StutterStep
<1>3. CASE ~gatewayDraining /\ c[2] = "session"
  <2>1. PICK r \in Run : c = <<r, "session">>
    BY <1>3, Places
  <2>2. EnqueueCommandInLane(<<r, "session">>, SessionOf[r])
    BY <2>1, Places
  <2> QED BY <1>3, <2>2, AskStep DEF Runs1!AbsNext
<1>4. CASE ~gatewayDraining /\ c[2] = "cron"
  <2>1. outcome' = [outcome EXCEPT ![c] = "pending"]
    BY <1>4 DEF EnqueueCommandInLane
  <2>2. LaneOf(c) \notin Session
    BY <1>4, Places
  <2>3. Moves(LaneOf(c), {c}, {}) /\ OutcomesMove({c})
    BY <1>1, EnqueueMoves
  <2>4. \A d \in Command : d \notin {c} => outcome'[d] = outcome[d]
    BY <1>1, <2>1
  <2>5. {c} \in SUBSET Command /\ {} \in SUBSET inflight
    OBVIOUS
  <2>6. \A d \in {c} : d[2] # "session" /\ (d[2] = "global" => outcome'[d] = "pending")
    BY <1>4
  <2> QED BY <1>1, <2>2, <2>3, <2>4, <2>5, <2>6, OuterLaneStep
<1> QED BY <1>2, <1>3, <1>4, Places

\* The session entry of run r enqueues the run itself.
LEMMA EnqueueRunRefines ==
  ASSUME HoldInv, HoldInv', ~interrupted, ~interrupted', NEW r \in Run,
         InFlight(<<r, "session">>),
         EnqueueCommandInLane(<<r, "global">>, LaneOf(<<r, "global">>))
  PROVE  Runs1!AbsNext
<1> DEFINE g == <<r, "global">>
<1>1. /\ g \in Command /\ g[2] = "global" /\ IInv
      /\ LaneOf(g) \in Lane /\ LaneOf(g) \notin Session /\ outcome[g] = "unsent"
      /\ outcome \in [Command -> Settled \union {"unsent", "pending"}]
  BY Places DEF HoldInv, IInv, Core, CoreType, EnqueueCommandInLane
<1>2. CASE gatewayDraining
  <2>1. UNCHANGED <<lanes, inflight>> /\ outcome' = [outcome EXCEPT ![g] = "refused"]
    BY <1>2 DEF EnqueueCommandInLane
  <2>2. Runs1!Drop(SessionOf[r])
    BY <1>1, <2>1, RefuseStep
  <2> QED BY <2>2, Places DEF Runs1!AbsNext
<1>3. CASE ~gatewayDraining
  <2>1. outcome' = [outcome EXCEPT ![g] = "pending"]
    BY <1>3 DEF EnqueueCommandInLane
  <2>2. outcome'[g] = "pending" /\ \A d \in Command : d \notin {g} => outcome'[d] = outcome[d]
    BY <1>1, <2>1
  <2>3. Moves(LaneOf(g), {g}, {}) /\ OutcomesMove({g})
    BY <1>1, EnqueueMoves
  <2>4. {g} \in SUBSET Command /\ {} \in SUBSET inflight
    BY <1>1
  <2>5. \A d \in {g} : d[2] # "session" /\ (d[2] = "global" => outcome'[d] = "pending")
    BY <1>1, <2>2
  <2> HIDE DEF g
  <2> QED BY <1>1, <2>2, <2>3, <2>4, <2>5, OuterLaneStep
<1> QED BY <1>2, <1>3

\* A task of a lane that is no session's ends.
LEMMA FinishRefines ==
  ASSUME HoldInv, HoldInv', ~interrupted, ~interrupted', NEW t \in inflight,
         t.command[2] # "session", NEW result \in {"resolved", "rejected"},
         FinishTask(t, result)
  PROVE  Runs1!AbsNext
<1>1. /\ IInv /\ t.lane = LaneOf(t.command)
      /\ outcome \in [Command -> Settled \union {"unsent", "pending"}]
  BY DEF HoldInv, Placed, IInv, Core, CoreType
<1>2. /\ t.lane \in Lane /\ t.command \in Command
      /\ Moves(t.lane, {}, {t}) /\ OutcomesMove({})
      /\ outcome' = [outcome EXCEPT ![t.command] = result]
  BY <1>1, FinishMoves
<1>3. t.lane \notin Session
  BY <1>1, <1>2, Places
<1>4. \A u \in {t} : outcome'[u.command] \in {"resolved", "rejected"}
  BY <1>1, <1>2
<1>5. \A d \in Command : d \notin {} /\ (\A u \in {t} : u.command # d)
                            => outcome'[d] = outcome[d]
  BY <1>1, <1>2
<1>6. {} \in SUBSET Command /\ {t} \in SUBSET inflight /\ \E u \in inflight : {t} = {u}
  OBVIOUS
<1> QED BY <1>2, <1>3, <1>4, <1>5, <1>6, OuterLaneStep

\* Every step of the lanes is a step of the abstract runs or changes none of them,
\* until a restart interrupts something.
LEMMA RefineStep ==
  HoldInv /\ HoldInv' /\ [LanesNext]_laneVars
    => [(Runs1!AbsNext /\ ~interrupted') \/ interrupted']_(Runs1!absVars)
<1> DEFINE Same == Asked' = Asked /\ Line' = Line /\ Running' = Running
<1> SUFFICES ASSUME HoldInv, HoldInv', [LanesNext]_laneVars, ~interrupted'
             PROVE  Runs1!AbsNext \/ (Same /\ interrupted' = interrupted)
  BY DEF Runs1!absVars
<1>0. /\ IInv /\ interrupted \in BOOLEAN /\ interrupted' \in BOOLEAN
      /\ {} \in SUBSET Command /\ {} \in SUBSET inflight
  BY DEF HoldInv
<1>1. ~interrupted /\ interrupted' = interrupted
  <2>1. interrupted' = interrupted \/ interrupted' = (interrupted \/ inflight # {})
    BY DEF LanesNext, AskFor, SessionsSend, SendReturns, EnqueueInner, FinishOuter,
           JobGivesUp, FinishRun, ClearSession, SetConcurrency, Drain, Restart, laneVars
  <2> QED BY <1>0, <2>1
<1>2. ASSUME NEW r \in Run, AskFor(r) PROVE Runs1!AbsNext \/ Same
  <2>1. First(r) \in Command /\ First(r)[2] # "global"
    BY Places DEF First
  <2> QED BY <1>1, <1>2, <2>1, EnqueueRefines DEF AskFor
<1>3. ASSUME NEW r \in Run, SessionsSend(r) PROVE Runs1!AbsNext \/ Same
  <2>1. Callee[r] \in Run
    BY <1>3, Runs DEF SessionsSend, Runs
  <2> DEFINE c == <<Callee[r], "session">>
  <2>2. c \in Command /\ c[2] # "global" /\ LaneOf(c) = SessionOf[Callee[r]]
    BY <2>1, Places
  <2>3. EnqueueCommandInLane(c, LaneOf(c))
    BY <1>3, <2>2 DEF SessionsSend
  <2> HIDE DEF c
  <2> QED BY <1>1, <2>2, <2>3, EnqueueRefines
<1>4. ASSUME NEW c \in Command, EnqueueInner(c) PROVE Runs1!AbsNext \/ Same
  <2>1. PICK r \in Run : c = <<r, c[2]>>
    BY Places
  <2>2. CASE c[2] = "cron"
    <3>1. Inner(c) = <<r, "session">> /\ Inner(c) \in Command /\ Inner(c)[2] # "global"
      BY <2>1, <2>2, Places DEF Inner
    <3> QED BY <1>1, <1>4, <3>1, EnqueueRefines DEF EnqueueInner
  <2>3. CASE c[2] = "session"
    <3>1. Inner(c) = <<r, "global">> /\ InFlight(<<r, "session">>)
      BY <1>4, <2>1, <2>3 DEF Inner, EnqueueInner, MustEnqueue
    <3> QED BY <1>1, <1>4, <3>1, EnqueueRunRefines DEF EnqueueInner
  <2> QED BY <1>4, <2>2, <2>3 DEF EnqueueInner, MustEnqueue
<1>5. ASSUME NEW t \in inflight, FinishOuter(t) PROVE Runs1!AbsNext \/ Same
  <2> DEFINE result == IF t.command[2] = "cron" \/ outcome[Inner(t.command)] = "resolved"
                         THEN "resolved" ELSE "rejected"
  <2>1. result \in {"resolved", "rejected"} /\ FinishTask(t, result)
    BY <1>5 DEF FinishOuter
  <2>2. t.command \in Command /\ t.command[2] # "global"
        /\ outcome[Inner(t.command)] \in Settled
    BY <1>0, <1>5 DEF FinishOuter, IInv, Core, CoreType, Task
  <2>3. PICK k \in {"resolved", "rejected"} : FinishTask(t, k)
    BY <2>1
  <2> HIDE DEF result
  <2>4. CASE t.command[2] = "session"
    <3>1. PICK r \in Run : t.command = <<r, "session">>
      BY <2>2, <2>4, Places
    <3>2. Inner(t.command) = <<r, "global">>
      BY <3>1 DEF Inner
    <3> QED BY <1>1, <2>2, <2>3, <3>1, <3>2, HandOverStep
  <2>5. CASE t.command[2] # "session"
    BY <1>1, <2>3, <2>5, FinishRefines
  <2> QED BY <2>4, <2>5
<1>6. ASSUME NEW t \in inflight, JobGivesUp(t) PROVE Runs1!AbsNext \/ Same
  BY <1>1, <1>6, FinishRefines DEF JobGivesUp
<1>7. ASSUME NEW t \in inflight, NEW result \in {"resolved", "rejected"},
             FinishRun(t, result)
      PROVE  Runs1!AbsNext \/ Same
  BY <1>1, <1>7, FinishRefines DEF FinishRun
<1>8. ASSUME NEW s \in Session, ClearSession(s) PROVE Runs1!AbsNext \/ Same
  BY <1>1, <1>8, GiveUpStep DEF ClearSession, Runs1!AbsNext
<1>9. ASSUME NEW l \in {main, cron}, NEW n \in Limit, SetConcurrency(l, n)
      PROVE  Runs1!AbsNext \/ Same
  <2>1. l \in Lane /\ l \notin Session
    BY Lanes DEF Lanes
  <2>2. SetCommandLaneConcurrency(l, n)
    BY <1>9 DEF SetConcurrency
  <2>3. Moves(l, {}, {}) /\ OutcomesMove({}) /\ outcome' = outcome
    BY <1>0, <2>1, <2>2, ConcurrencyMoves
  <2> QED BY <1>0, <1>1, <2>1, <2>3, OuterLaneStep
<1>10. ASSUME UNCHANGED <<lanes, inflight, outcome>> PROVE Same
  <2>1. Asked' = Asked
    BY <1>10 DEF Asked
  <2> QED BY <1>1, <1>10, <2>1, StutterStep
<1>11. ASSUME NEW r \in Run, SendReturns(r) PROVE Same
  BY <1>10, <1>11 DEF SendReturns, vars
<1>12. CASE Drain
  BY <1>10, <1>12 DEF Drain, MarkGatewayDraining
<1>13. CASE Restart
  BY <1>1, <1>13, IdleRestartStep
<1>14. CASE UNCHANGED laneVars
  BY <1>10, <1>14 DEF laneVars, vars
<1> HIDE DEF Same
<1> QED BY <1>1, <1>2, <1>3, <1>4, <1>5, <1>6, <1>7, <1>8, <1>9, <1>11, <1>12, <1>13, <1>14
        DEF LanesNext

\* Nobody waits for a session, and none is in use, when the process starts.
LEMMA RefineInit == LanesInit => Runs1!AbsInit
<1> SUFFICES ASSUME LanesInit PROVE Runs1!AbsInit
  OBVIOUS
<1>1. /\ HoldInv /\ interrupted = FALSE /\ inflight = {}
      /\ \A l \in Lane : lanes[l].active = {}
      /\ \A c \in Command : outcome[c] = "unsent"
  BY LanesInitInv DEF LanesInit, Init, IdleLane
<1>2. Asked = {} /\ Running = {}
  BY <1>1, Places DEF Asked, Running, InFlight
<1>3. \A s \in Session : Line[s] = <<>>
  BY <1>1, LineHolds, Places DEF LineFacts
<1>4. Line = [s \in Session |-> <<>>]
  BY <1>3, LineDomain
<1> QED BY <1>1, <1>2, <1>4 DEF Runs1!AbsInit

\* The command queue under agent runs implements their abstract specification:
\* in each session one run at a time, in the order they were asked for.
THEOREM LanesImplementRuns == LanesSpec => ImplementsAgentRuns
<1>1. LanesSpec => []HoldInv
  BY LanesInitInv, LanesStep, PTL DEF LanesSpec
<1> QED BY <1>1, RefineInit, RefineStep, PTL DEF LanesSpec, ImplementsAgentRuns, Runs1!AbsSpec
=============================================================================
