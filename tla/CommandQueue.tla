---------------------------- MODULE CommandQueue ----------------------------
(***************************************************************************)
(* The lane-aware command queue of the gateway (process/command-queue.ts). *)
(* Callers enqueue commands in named lanes; a lane runs at most            *)
(* maxConcurrent of them at a time, oldest first.  JavaScript runs each    *)
(* callback to completion, so every action below is one callback: the call *)
(* of an exported function, or the continuation of the `await entry.task()`*)
(* of a started entry.                                                     *)
(***************************************************************************)
EXTENDS LaneOps

CONSTANTS
  Lane,           \* the lane names in use
  Command,        \* the commands callers may enqueue, each at most once
  Limit,          \* the concurrency limits configuration may ask for
  MaxGeneration   \* bound of the model: in-process restarts per lane

ASSUME LimitAssumption == Limit \subseteq Nat
ASSUME MaxGenerationAssumption == MaxGeneration \in Nat

VARIABLES
  lanes,            \* queueState.lanes
  gatewayDraining,  \* queueState.gatewayDraining
  inflight,         \* the async closures pump has started and not finished
  outcome           \* what became of the promise each caller holds

vars == <<lanes, gatewayDraining, inflight, outcome>>

Task == [command : Command, lane : Lane, generation : Nat]

Settled == {"resolved", "rejected", "cleared", "refused"}

TypeOK ==
  /\ lanes \in [Lane -> LaneState(Command)]
  /\ gatewayDraining \in BOOLEAN
  /\ inflight \subseteq Task
  /\ outcome \in [Command -> Settled \union {"unsent", "pending"}]

Init ==
  /\ lanes = [l \in Lane |-> IdleLane]
  /\ gatewayDraining = FALSE
  /\ inflight = {}
  /\ outcome = [c \in Command |-> "unsent"]

-----------------------------------------------------------------------------
\* The closures the pump starts when it runs on state s of lane l.
Started(l, s) ==
  {[command |-> c, lane |-> l, generation |-> s.generation] : c \in Startable(s)}

\* enqueueCommandInLane
EnqueueCommandInLane(c, l) ==
  /\ outcome[c] = "unsent"
  /\ \/ /\ gatewayDraining
        /\ outcome' = [outcome EXCEPT ![c] = "refused"]
        /\ UNCHANGED <<lanes, inflight>>
     \/ /\ ~gatewayDraining
        /\ outcome' = [outcome EXCEPT ![c] = "pending"]
        /\ LET pushed == Push(lanes[l], c)
           IN  /\ lanes' = [lanes EXCEPT ![l] = Pump(pushed)]
               /\ inflight' = inflight \union Started(l, pushed)
  /\ UNCHANGED gatewayDraining

\* The continuation of a started entry: its task resolved or threw.  A task of
\* an older generation settles its caller's promise and leaves the lane alone.
FinishTask(t, result) ==
  /\ t \in inflight
  /\ outcome' = [outcome EXCEPT ![t.command] = result]
  /\ \/ /\ t.generation = lanes[t.lane].generation
        /\ LET freed == Complete(lanes[t.lane], t.command)
           IN  /\ lanes' = [lanes EXCEPT ![t.lane] = Pump(freed)]
               /\ inflight' = (inflight \ {t}) \union Started(t.lane, freed)
     \/ /\ t.generation # lanes[t.lane].generation
        /\ inflight' = inflight \ {t}
        /\ UNCHANGED lanes
  /\ UNCHANGED gatewayDraining

\* setCommandLaneConcurrency
SetCommandLaneConcurrency(l, n) ==
  LET resized == [lanes[l] EXCEPT !.maxConcurrent = AtLeastOne(n)]
  IN  /\ lanes' = [lanes EXCEPT ![l] = Pump(resized)]
      /\ inflight' = inflight \union Started(l, resized)
      /\ UNCHANGED <<gatewayDraining, outcome>>

\* clearCommandLane: every queued entry's promise is rejected.
ClearCommandLane(l) ==
  /\ lanes' = [lanes EXCEPT ![l] = Clear(@)]
  /\ outcome' = [c \in Command |->
                   IF c \in Elements(lanes[l].queue) THEN "cleared" ELSE outcome[c]]
  /\ UNCHANGED <<gatewayDraining, inflight>>

\* markGatewayDraining
MarkGatewayDraining ==
  /\ gatewayDraining' = TRUE
  /\ UNCHANGED <<lanes, inflight, outcome>>

\* Mutant of ResetAllLanes: the drain after the reset pass is missing.
ResetAllLanes_NoDrain ==
  /\ gatewayDraining' = FALSE
  /\ lanes' = [l \in Lane |-> Reset(lanes[l])]
  /\ UNCHANGED <<inflight, outcome>>

\* Mutant of ResetAllLanes: gatewayDraining is not cleared.
ResetAllLanes_StaysDraining ==
  /\ lanes' = [l \in Lane |-> Pump(Reset(lanes[l]))]
  /\ inflight' = inflight \union UNION {Started(l, Reset(lanes[l])) : l \in Lane}
  /\ UNCHANGED <<gatewayDraining, outcome>>

\* resetAllLanes: bump every generation first, then pump what was kept queued.
ResetAllLanes ==
  /\ gatewayDraining' = FALSE
  /\ lanes' = [l \in Lane |-> Pump(Reset(lanes[l]))]
  /\ inflight' = inflight \union UNION {Started(l, Reset(lanes[l])) : l \in Lane}
  /\ UNCHANGED outcome

\* Bound of the model: how often the gateway restarts in process.
MayReset == \A l \in Lane : lanes[l].generation < MaxGeneration

Next ==
  \/ \E c \in Command, l \in Lane : EnqueueCommandInLane(c, l)
  \/ \E t \in inflight, result \in {"resolved", "rejected"} : FinishTask(t, result)
  \/ \E l \in Lane, n \in Limit : SetCommandLaneConcurrency(l, n)
  \/ \E l \in Lane : ClearCommandLane(l)
  \/ MarkGatewayDraining
  \/ MayReset /\ ResetAllLanes

Spec == Init /\ [][Next]_vars

\* A started command of the current lifecycle ends: agent turns and jobs run
\* under timeouts of their own.  One that a restart interrupted may hang forever
\* ("finally blocks may not run"), and nothing else is assumed to happen.
FinishCurrent(l, c) ==
  \E t \in inflight, result \in {"resolved", "rejected"} :
    /\ t.lane = l /\ t.command = c
    /\ t.generation = lanes[l].generation
    /\ FinishTask(t, result)

Fairness == \A l \in Lane, c \in Command : WF_vars(FinishCurrent(l, c))

FairSpec == Spec /\ Fairness

-----------------------------------------------------------------------------
\* activeTaskIds holds exactly the started tasks of the current generation: a
\* stale completion never frees a slot it does not own, and no id is leaked
\* (completeTask's generation test, and the clear in resetAllLanes).
ActiveIsCurrent ==
  \A l \in Lane :
    lanes[l].active = {t.command : t \in {u \in inflight :
                          u.lane = l /\ u.generation = lanes[l].generation}}

\* A lane never sits on queued work with a slot free: every path that frees a
\* slot or adds an entry pumps (what the drain at the end of resetAllLanes is for).
WorkConserving ==
  \A l \in Lane :
    lanes[l].queue # <<>> => Cardinality(lanes[l].active) >= lanes[l].maxConcurrent

\* Where command c is: the queue positions and the running closures that hold it.
QueuedAt(c) == {p \in UNION {{l} \X DOMAIN lanes[l].queue : l \in Lane} :
                  lanes[p[1]].queue[p[2]] = c}
RunningAs(c) == {t \in inflight : t.command = c}

\* Every promise a caller still awaits is backed by exactly one queue position
\* or one running closure, and a settled one by none: across completions,
\* clears and in-process restarts no command is lost or run twice.
PendingHasOnePlace ==
  \A c \in Command :
    Cardinality(QueuedAt(c)) + Cardinality(RunningAs(c))
      = IF outcome[c] = "pending" THEN 1 ELSE 0

\* A step that starts tasks in a lane leaves it within the limit then in force.
\* (Lowering the limit may leave more running; it never starts one too many.)
StartsWithinLimit ==
  [][\A l \in Lane :
       lanes'[l].active \ lanes[l].active # {}
         => Cardinality(lanes'[l].active) <= lanes'[l].maxConcurrent]_vars

\* First in, first out: when a queued command starts, no command that was ahead
\* of it in its lane is still queued.
StartsInOrder ==
  [][\A l \in Lane : \A i, j \in DOMAIN lanes[l].queue :
       LET ahead == lanes[l].queue[i]
           behind == lanes[l].queue[j]
       IN  i < j /\ (\E t \in inflight' : t.command = behind)
             => ahead \notin Elements(lanes'[l].queue)]_vars

\* Queued work is never stranded: a queued command starts or is cleared, even
\* when the tasks a restart interrupted never finish.
QueuedLeaves ==
  \A l \in Lane, c \in Command :
    c \in Elements(lanes[l].queue) ~> c \notin Elements(lanes[l].queue)

=============================================================================
