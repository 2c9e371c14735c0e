------------------------ MODULE GatewayRunLoopProofs ------------------------
(***************************************************************************)
(* Safety of the run loop and the restart scheduler, for all lanes,        *)
(* commands, restarts and pollers.                                         *)
(*                                                                         *)
(* The invariant has three parts: the command queue's own (IInv), the      *)
(* control state of the loop and of a shutdown under way (Control), and    *)
(* the tasks a restart waits for (TasksKnown).                             *)
(***************************************************************************)
EXTENDS GatewayRunLoop, CommandQueueProofs

\* The closure request() runs, as LoopTypeOK has it.
Request ==
  [pc : RequestState, action : {"stop", "restart"}, tasks : SUBSET (Lane \X Command),
   awaitRuns : BOOLEAN, timedOut : BOOLEAN]

LoopTypes ==
  /\ LoopTypeOK
  /\ restartPending => pollers < MaxPollers

\* A shutdown is under way exactly while its closure runs, and only a restart
\* takes the lock back.  As long as every start succeeded, only a restart that
\* has released the lock is without it.  As long as every restart found the loop
\* waiting, it stays so until the restart ends, and nothing else drains.
Control ==
  /\ shuttingDown <=> request.pc # "idle"
  /\ request.pc = "acquiring" => request.action = "restart"
  /\ mishaps = {} =>
       loop # "releasing" /\ (loop = "exited" \/ lock \/ request.pc = "acquiring")
  /\ "early" \notin mishaps =>
       /\ loop = "booting" => ~server
       /\ shuttingDown /\ request.action = "restart" =>
            /\ loop \in {"waiting", "exited"}
            /\ request.pc \in {"releasing", "acquiring"} => ~server
       /\ gatewayDraining =>
            loop = "exited" \/ (shuttingDown /\ request.action = "restart")

\* A task a restart waits for was started before, so it does not start again.
TasksKnown ==
  /\ \A p \in request.tasks :
       /\ outcome[p[2]] # "unsent"
       /\ \A l \in Lane : p[2] \notin Elements(lanes[l].queue)
  /\ ActiveTasksDrained

RunLoopInv == IInv /\ LoopTypes /\ Control /\ TasksKnown

-----------------------------------------------------------------------------
\* The steps that go through the queue for a caller, and leave the loop alone.
QueueStep ==
  /\ UNCHANGED loopVars
  /\ \/ \E c \in Command, l \in Lane : EnqueueCommandInLane(c, l)
     \/ \E t \in inflight, result \in {"resolved", "rejected"} : FinishTask(t, result)
     \/ \E l \in Lane, n \in Limit : SetCommandLaneConcurrency(l, n)

\* The steps of a shutdown and of a start.
ShutdownStep == RunsDrained \/ DrainEnds \/ ServerClosed \/ ForceExit \/ LockReleased \/ LockReacquired
StartStep == StartSucceeds \/ StartFails \/ StartFailureReleased

\* Whatever asks for a stop or a restart, and when, is one of these to the loop.
LEMMA LoopSteps ==
  ASSUME [LoopNext]_allVars
  PROVE  \/ RequestStop \/ RequestRestart
         \/ UNCHANGED <<queueVars, loopVars>>
         \/ ShutdownStep \/ StartStep \/ QueueStep
BY DEF LoopNext, allVars, Sigterm, RequestIgnored, EmitGatewayRestart,
       ScheduleGatewaySigusr1Restart, RestartTimerFires, ConfigRequestsRestart,
       PollerFires, Enqueue, Finish, SetActiveEmbeddedRun, ClearActiveEmbeddedRun,
       ResizeLane, ShutdownStep, StartStep, QueueStep

\* The steps of a shutdown either leave the queue alone or reset its lanes.
LEMMA ShutdownQueue ==
  ASSUME ShutdownStep \/ StartStep
  PROVE  UNCHANGED queueVars \/ (ResetAllLanes /\ request' = NoRequest)
BY DEF ShutdownStep, StartStep, RunsDrained, DrainEnds, ServerClosed, ForceExit,
       LockReleased, LockReacquired, AfterRelease, ResumeLoop, StartSucceeds,
       StartFails, StartFailureReleased

-----------------------------------------------------------------------------
\* The queue's own invariant holds: the loop only marks it, resets it, or not.
LEMMA QueuePart ==
  ASSUME IInv, [LoopNext]_allVars
  PROVE  IInv'
<1>1. ASSUME UNCHANGED <<lanes, inflight, outcome>>, gatewayDraining' \in BOOLEAN
      PROVE  IInv'
  BY <1>1 DEF IInv, WorkConserving
<1>2. CASE UNCHANGED queueVars
  BY <1>1, <1>2 DEF queueVars, IInv
<1>3. CASE RequestRestart
  BY <1>1, <1>3 DEF RequestRestart
<1>4. CASE QueueStep
  BY <1>4, EnqueueStep, FinishStep, SetConcurrencyStep DEF QueueStep
<1>5. CASE ResetAllLanes
  BY <1>5, ResetStep
<1> QED BY <1>2, <1>3, <1>4, <1>5, LoopSteps, ShutdownQueue DEF RequestStop

-----------------------------------------------------------------------------
\* What the type invariant says of the state, in the form the proofs use.
LEMMA LoopTypesUse ==
  ASSUME LoopTypes
  PROVE  /\ loop \in LoopState /\ request \in Request
         /\ request.pc \in RequestState /\ request.action \in {"stop", "restart"}
         /\ request.timedOut \in BOOLEAN /\ request.tasks \subseteq Lane \X Command
         /\ firstStart \in BOOLEAN /\ server \in BOOLEAN /\ lock \in BOOLEAN
         /\ shuttingDown \in BOOLEAN /\ restartTimer \in BOOLEAN
         /\ restartPending \in BOOLEAN
         /\ CloseNext \in {"closing", "settling"} /\ CloseNext \in RequestState
<1>1. request \in Request
  BY DEF LoopTypes, LoopTypeOK, Request
<1>2. /\ request.pc \in RequestState /\ request.action \in {"stop", "restart"}
      /\ request.timedOut \in BOOLEAN /\ request.tasks \subseteq Lane \X Command
  BY <1>1 DEF Request
<1>3. CloseNext \in {"closing", "settling"} /\ CloseNext \in RequestState
  BY DEF CloseNext, RequestState
<1> QED BY <1>1, <1>2, <1>3 DEF LoopTypes, LoopTypeOK

\* request("stop") begins a closure that waits for nothing.
LEMMA StopChanges ==
  ASSUME LoopTypes, RequestStop
  PROVE  /\ request' \in Request /\ request'.pc \in {"closing", "settling"}
         /\ request'.action = "stop" /\ request'.tasks = {}
<1>1. CloseNext \in {"closing", "settling"} /\ CloseNext \in RequestState
  BY LoopTypesUse
<1>2. request' = [NoRequest EXCEPT !.pc = CloseNext]
  BY DEF RequestStop
<1> QED BY <1>1, <1>2 DEF NoRequest, Request

\* request("restart") begins one that waits for the tasks active now.
LEMMA RestartChanges ==
  ASSUME LoopTypes, RequestRestart
  PROVE  /\ request' \in Request /\ request'.action = "restart"
         /\ request'.tasks = ActiveTasks
         /\ request'.pc \in {"draining", "closing", "settling"}
         /\ request'.pc # "draining" => ActiveTasks = {}
<1> DEFINE x == IF ActiveTasks # {} \/ runs # {} THEN "draining" ELSE CloseNext
           b == (runs # {})
<1>1. /\ x \in RequestState /\ x \in {"draining", "closing", "settling"}
      /\ x # "draining" => ActiveTasks = {}
  BY LoopTypesUse DEF RequestState
<1>2. ActiveTasks \in SUBSET (Lane \X Command)
  BY DEF ActiveTasks
<1>3. request' = [NoRequest EXCEPT !.pc = x, !.action = "restart",
                                  !.tasks = ActiveTasks, !.awaitRuns = b]
  BY DEF RequestRestart
<1>4. b \in BOOLEAN
  OBVIOUS
<1> HIDE DEF x, b
<1> QED BY <1>1, <1>2, <1>3, <1>4 DEF NoRequest, Request

\* The closure under way goes on to state x.
Moved(x) ==
  /\ request' \in Request /\ request'.pc = x
  /\ request'.action = request.action /\ request'.tasks = request.tasks

\* It does so at every step of a shutdown, until the process exits or the loop
\* takes over; only a drain that times out skips the wait.
LEMMA ShutdownChanges ==
  ASSUME LoopTypes
  PROVE  /\ RunsDrained => Moved(request.pc) /\ request'.timedOut = request.timedOut
         /\ DrainEnds =>
              /\ Moved(CloseNext)
              /\ \/ ~TasksStillActive /\ request'.timedOut = request.timedOut
                 \/ request'.timedOut
         /\ \A x \in RequestState :
              request' = [request EXCEPT !.pc = x] =>
                Moved(x) /\ request'.timedOut = request.timedOut
<1>1. request \in Request /\ CloseNext \in RequestState
  BY LoopTypesUse
<1>2. RunsDrained => Moved(request.pc) /\ request'.timedOut = request.timedOut
  BY <1>1 DEF RunsDrained, Moved, Request
<1>3. ASSUME DrainEnds
      PROVE  /\ Moved(CloseNext)
             /\ \/ ~TasksStillActive /\ request'.timedOut = request.timedOut
                \/ request'.timedOut
  <2>1. \/ ~TasksStillActive /\ request' = [request EXCEPT !.pc = CloseNext]
        \/ request' = [request EXCEPT !.pc = CloseNext, !.timedOut = TRUE]
    BY <1>3 DEF DrainEnds
  <2> HIDE DEF CloseNext
  <2> QED BY <1>1, <2>1 DEF Moved, Request
<1>4. ASSUME NEW x \in RequestState, request' = [request EXCEPT !.pc = x]
      PROVE  Moved(x) /\ request'.timedOut = request.timedOut
  BY <1>1, <1>4 DEF Moved, Request
<1> QED BY <1>2, <1>3, <1>4

-----------------------------------------------------------------------------
\* The types of the next state, from those of its parts.
LEMMA LoopTypesFrom ==
  ASSUME request' \in Request, loop' \in LoopState,
         {firstStart, server, lock, shuttingDown, restartTimer, restartPending}' \subseteq BOOLEAN,
         runs' \subseteq Command, restarts' \in 0..MaxRestarts,
         mishaps' \subseteq {"early", "failed"},
         pollers' \in 0..MaxPollers, restartPending' => pollers' < MaxPollers
  PROVE  LoopTypes'
BY DEF LoopTypes, LoopTypeOK, Request

\* When the loop takes over, its lifecycle's poller becomes one no one reads.
LEMMA ResumeTypes ==
  ASSUME LoopTypes, ResumeLoop
  PROVE  /\ request' = NoRequest /\ request' \in Request
         /\ loop' \in LoopState /\ shuttingDown' = FALSE
         /\ UNCHANGED <<firstStart, restarts, mishaps>>
         /\ restartPending' \in BOOLEAN /\ pollers' \in 0..MaxPollers
         /\ restartPending' => pollers' < MaxPollers
<1>1. NoRequest \in Request
  BY DEF NoRequest, Request, RequestState
<1>2. /\ pollers \in 0..MaxPollers /\ restartPending \in BOOLEAN /\ loop \in LoopState
      /\ restartPending => pollers < MaxPollers
  BY DEF LoopTypes, LoopTypeOK
<1>3. /\ restartPending' \in BOOLEAN /\ pollers' \in 0..MaxPollers
      /\ restartPending' => pollers' < MaxPollers
  <2>1. CASE restartPending' = FALSE /\ pollers' = IF restartPending THEN pollers + 1 ELSE pollers
    <3>1. CASE restartPending
      <4>1. pollers' = pollers + 1 /\ pollers < MaxPollers
        BY <1>2, <2>1, <3>1
      <4>2. pollers' \in 0..MaxPollers
        BY <1>2, <4>1, RestartBounds
      <4> QED BY <2>1, <4>2
    <3>2. CASE ~restartPending
      BY <1>2, <2>1, <3>2
    <3> QED BY <3>1, <3>2
  <2>2. CASE UNCHANGED <<restartPending, pollers>>
    BY <1>2, <2>2
  <2> QED BY <2>1, <2>2 DEF ResumeLoop
<1> QED BY <1>1, <1>2, <1>3 DEF ResumeLoop, LoopState

\* Whatever follows the lock's release keeps the types.
LEMMA ReleaseTypes ==
  ASSUME LoopTypes, NEW h, AfterRelease(h)
  PROVE  /\ request' \in Request /\ loop' \in LoopState /\ shuttingDown' \in BOOLEAN
         /\ UNCHANGED <<firstStart, restarts, mishaps>>
         /\ restartPending' \in BOOLEAN /\ pollers' \in 0..MaxPollers
         /\ restartPending' => pollers' < MaxPollers
<1>1. /\ request \in Request /\ loop \in LoopState /\ "acquiring" \in RequestState
      /\ pollers \in 0..MaxPollers /\ (restartPending => pollers < MaxPollers)
      /\ restartPending \in BOOLEAN /\ shuttingDown \in BOOLEAN
  BY LoopTypesUse DEF LoopTypes, LoopTypeOK, RequestState
<1>2. CASE ResumeLoop
  BY <1>2, ResumeTypes
<1>3. CASE Exit /\ UNCHANGED <<request, pollers, restartPending>>
  BY <1>1, <1>3 DEF Exit, LoopState
<1>4. CASE /\ request' = [request EXCEPT !.pc = "acquiring"]
           /\ UNCHANGED <<loop, firstStart, shuttingDown, restarts, mishaps, pollers, restartPending>>
  BY <1>1, <1>4, ShutdownChanges DEF Moved
<1> QED BY <1>2, <1>3, <1>4 DEF AfterRelease

\* Emitting a restart begins a shutdown or changes nothing but the timer.
LEMMA EmitTypes ==
  ASSUME LoopTypes, EmitGatewayRestart
  PROVE  /\ request' \in Request /\ shuttingDown' \in BOOLEAN
         /\ restarts' \in 0..MaxRestarts /\ mishaps' \subseteq {"early", "failed"}
         /\ restartTimer' = FALSE /\ UNCHANGED <<loop, firstStart, server, lock, runs>>
<1>1. request \in Request /\ shuttingDown \in BOOLEAN
  BY LoopTypesUse
<1>2. restarts \in 0..MaxRestarts /\ mishaps \subseteq {"early", "failed"}
  BY DEF LoopTypes, LoopTypeOK
<1>3. CASE RequestRestart
  <2>1. restarts' \in 0..MaxRestarts
    BY <1>2, <1>3, RestartBounds DEF RequestRestart
  <2>2. mishaps' \subseteq {"early", "failed"}
    BY <1>2, <1>3 DEF RequestRestart
  <2> QED BY <1>3, <2>1, <2>2, RestartChanges DEF RequestRestart, EmitGatewayRestart
<1>4. CASE RequestIgnored
  BY <1>1, <1>2, <1>4 DEF RequestIgnored, EmitGatewayRestart, loopVars
<1> QED BY <1>3, <1>4 DEF EmitGatewayRestart

\* The state stays well formed, and pollers within their bound.
LEMMA TypesPart ==
  ASSUME IInv, LoopTypes, [LoopNext]_allVars
  PROVE  LoopTypes'
<1>1. /\ request \in Request /\ loop \in LoopState
      /\ {firstStart, server, lock, shuttingDown, restartTimer, restartPending} \subseteq BOOLEAN
      /\ runs \subseteq Command /\ restarts \in 0..MaxRestarts
      /\ mishaps \subseteq {"early", "failed"} /\ pollers \in 0..MaxPollers
      /\ restartPending => pollers < MaxPollers
  BY LoopTypesUse DEF LoopTypes, LoopTypeOK
<1>2. \A t \in inflight : t.command \in Command
  BY DEF IInv, Core, CoreType, Task
<1>3. ASSUME UNCHANGED <<loop, firstStart, server, lock, shuttingDown, request,
                        restarts, mishaps>>,
             restartTimer' \in BOOLEAN, restartPending' \in BOOLEAN, runs' \subseteq Command,
             pollers' \in 0..MaxPollers, restartPending' => pollers' < MaxPollers
      PROVE  LoopTypes'
  BY <1>1, <1>3, LoopTypesFrom
<1>4. CASE UNCHANGED allVars
  BY <1>1, <1>3, <1>4 DEF allVars, loopVars, schedulerVars
<1>5. CASE Sigterm
  <2>1. CASE RequestStop
    BY <1>1, <1>5, <2>1, StopChanges, LoopTypesFrom DEF Sigterm, RequestStop, schedulerVars
  <2>2. CASE RequestIgnored
    BY <1>1, <1>3, <1>5, <2>2 DEF Sigterm, RequestIgnored, loopVars, schedulerVars
  <2> QED BY <1>5, <2>1, <2>2 DEF Sigterm
<1>6. CASE RunsDrained
  BY <1>1, <1>6, ShutdownChanges, LoopTypesFrom DEF RunsDrained, Moved, schedulerVars
<1>7. CASE DrainEnds
  BY <1>1, <1>7, ShutdownChanges, LoopTypesFrom DEF DrainEnds, Moved, schedulerVars
<1>8. CASE ServerClosed
  <2>1. CASE AfterRelease(FALSE)
    BY <1>1, <1>8, <2>1, ReleaseTypes, LoopTypesFrom DEF ServerClosed
  <2>2. CASE /\ request' = [request EXCEPT !.pc = "releasing"]
             /\ UNCHANGED <<loop, firstStart, shuttingDown, restarts, mishaps, pollers, restartPending>>
    <3>1. request' \in Request
      BY <2>2, ShutdownChanges DEF Moved, RequestState
    <3> QED BY <1>1, <1>8, <2>2, <3>1, LoopTypesFrom DEF ServerClosed
  <2> QED BY <1>8, <2>1, <2>2 DEF ServerClosed
<1>9. CASE ForceExit
  BY <1>1, <1>9, LoopTypesFrom DEF ForceExit, Exit, LoopState, schedulerVars
<1>10. CASE LockReleased
  BY <1>1, <1>10, ReleaseTypes, LoopTypesFrom DEF LockReleased
<1>11. CASE LockReacquired
  <2>1. CASE lock' = TRUE /\ ResumeLoop
    BY <1>1, <1>11, <2>1, ResumeTypes, LoopTypesFrom DEF LockReacquired
  <2>2. CASE Exit /\ UNCHANGED <<queueVars, lock, request, pollers, restartPending>>
    BY <1>1, <1>11, <2>2, LoopTypesFrom DEF LockReacquired, Exit, LoopState
  <2> QED BY <1>11, <2>1, <2>2 DEF LockReacquired
<1>12. CASE StartStep
  <2>1. CASE StartSucceeds
    BY <1>1, <2>1, LoopTypesFrom DEF StartSucceeds, LoopState, schedulerVars
  <2>2. CASE StartFails
    <3>1. /\ loop' \in LoopState /\ server' \in BOOLEAN /\ mishaps' \subseteq {"early", "failed"}
          /\ UNCHANGED <<firstStart, shuttingDown, restarts>>
      BY <1>1, <2>2 DEF StartFails, Exit, LoopState
    <3> QED BY <1>1, <2>2, <3>1, LoopTypesFrom DEF StartFails, schedulerVars
  <2>3. CASE StartFailureReleased
    BY <1>1, <2>3, LoopTypesFrom DEF StartFailureReleased, LoopState, schedulerVars
  <2> QED BY <1>12, <2>1, <2>2, <2>3 DEF StartStep
<1>13. CASE ScheduleGatewaySigusr1Restart
  BY <1>1, <1>3, <1>13 DEF ScheduleGatewaySigusr1Restart, loopVars
<1>14. CASE RestartTimerFires
  <2>1. CASE EmitGatewayRestart /\ UNCHANGED <<pollers, restartPending>>
    BY <1>1, <2>1, EmitTypes, LoopTypesFrom
  <2>2. CASE /\ MayPoll /\ restartTimer' = FALSE /\ pollers' = pollers + 1
             /\ UNCHANGED <<loopVars, runs, restartPending>>
    <3>1. pollers' \in 0..MaxPollers /\ (restartPending' => pollers' < MaxPollers)
      BY <1>1, <2>2, RestartBounds DEF MayPoll
    <3> QED BY <1>1, <1>3, <2>2, <3>1 DEF loopVars
  <2> QED BY <1>14, <2>1, <2>2 DEF RestartTimerFires
<1>15. CASE ConfigRequestsRestart
  <2>1. CASE EmitGatewayRestart /\ UNCHANGED <<pollers, restartPending>>
    BY <1>1, <2>1, EmitTypes, LoopTypesFrom
  <2>2. CASE /\ ~restartPending /\ MayPoll /\ restartPending' = TRUE
             /\ UNCHANGED <<loopVars, runs, restartTimer, pollers>>
    <3>1. pollers' \in 0..MaxPollers /\ (restartPending' => pollers' < MaxPollers)
      BY <1>1, <2>2, RestartBounds DEF MayPoll
    <3> QED BY <1>1, <1>3, <2>2, <3>1 DEF loopVars
  <2> QED BY <1>15, <2>1, <2>2 DEF ConfigRequestsRestart
<1>16. CASE PollerFires
  <2>1. /\ restartPending' \in BOOLEAN /\ pollers' \in 0..MaxPollers
        /\ restartPending' => pollers' < MaxPollers
    <3>1. CASE pollers > 0 /\ pollers' = pollers - 1 /\ UNCHANGED restartPending
      BY <1>1, <3>1, RestartBounds
    <3>2. CASE restartPending' = FALSE /\ UNCHANGED pollers
      BY <1>1, <3>2
    <3> QED BY <1>16, <3>1, <3>2 DEF PollerFires
  <2>2. EmitGatewayRestart
    BY <1>16 DEF PollerFires
  <2> QED BY <1>1, <2>1, <2>2, EmitTypes, LoopTypesFrom
<1>17. CASE \E c \in Command, l \in Lane : Enqueue(c, l)
  BY <1>1, <1>3, <1>17 DEF Enqueue, loopVars, schedulerVars
<1>18. CASE \E t \in inflight, result \in {"resolved", "rejected"} : Finish(t, result)
  BY <1>1, <1>3, <1>18 DEF Finish, loopVars, schedulerVars
<1>19. CASE \E t \in inflight : SetActiveEmbeddedRun(t) \/ ClearActiveEmbeddedRun(t)
  <2>1. runs' \subseteq Command
    BY <1>1, <1>2, <1>19 DEF SetActiveEmbeddedRun, ClearActiveEmbeddedRun
  <2> QED BY <1>1, <1>3, <1>19, <2>1
          DEF SetActiveEmbeddedRun, ClearActiveEmbeddedRun, loopVars, schedulerVars
<1>20. CASE \E l \in Lane, n \in Limit : ResizeLane(l, n)
  BY <1>1, <1>3, <1>20 DEF ResizeLane, loopVars, schedulerVars
<1> QED BY <1>4, <1>5, <1>6, <1>7, <1>8, <1>9, <1>10, <1>11, <1>12, <1>13, <1>14, <1>15,
           <1>16, <1>17, <1>18, <1>19, <1>20 DEF LoopNext, StartStep

-----------------------------------------------------------------------------
\* The process has exited, and the rest of the loop's state is as it was.
LEMMA ControlExit ==
  ASSUME Control, Exit, UNCHANGED request, server' => server
  PROVE  Control'
BY DEF Control, Exit

\* A restart takes over: with the server closed, and the lock held if nothing
\* went wrong before.
LEMMA ControlResume ==
  ASSUME LoopTypes, Control, ResumeLoop, loop # "exited", shuttingDown,
         request.action = "restart",
         mishaps = {} => lock',
         "early" \notin mishaps => ~server'
  PROVE  Control'
<1>1. request' = NoRequest /\ request'.pc = "idle" /\ shuttingDown' = FALSE /\ mishaps' = mishaps
  BY DEF ResumeLoop, NoRequest
<1>2. CASE /\ loop = "waiting" /\ loop' = "booting" /\ gatewayDraining' = FALSE
  BY <1>1, <1>2 DEF Control
<1>3. CASE loop # "waiting" /\ loop' = loop
  BY <1>1, <1>3, LoopTypesUse DEF Control, LoopState
<1> QED BY <1>2, <1>3 DEF ResumeLoop, ResetAllLanes

\* What follows the lock's release, with the server closed.
LEMMA ControlRelease ==
  ASSUME LoopTypes, Control, NEW h, AfterRelease(h), loop # "exited", shuttingDown,
         mishaps = {} /\ ~h => lock',
         server' => server, "early" \notin mishaps => ~server'
  PROVE  Control'
<1>1. CASE Exit /\ UNCHANGED request
  BY <1>1, ControlExit
<1>2. CASE /\ request.action = "restart" /\ h
           /\ request' = [request EXCEPT !.pc = "acquiring"]
           /\ UNCHANGED <<queueVars, loop, firstStart, shuttingDown, restarts, mishaps>>
  <2>1. Moved("acquiring")
    BY <1>2, ShutdownChanges DEF RequestState
  <2>2. request'.pc = "acquiring" /\ request'.action = "restart"
    BY <1>2, <2>1 DEF Moved
  <2> QED BY <1>2, <2>2 DEF Control, queueVars
<1>3. CASE request.action = "restart" /\ ~h /\ ResumeLoop
  BY <1>3, ControlResume
<1> QED BY <1>1, <1>2, <1>3 DEF AfterRelease

\* The loop's control state stays as the invariant has it.
LEMMA ControlPart ==
  ASSUME LoopTypes, Control, [LoopNext]_allVars
  PROVE  Control'
<1>1. /\ request.pc \in RequestState /\ loop \in LoopState
      /\ CloseNext \in {"closing", "settling"}
  BY LoopTypesUse
<1>2. CASE RequestStop
  BY <1>2, StopChanges DEF Control, RequestStop, queueVars
<1>3. CASE RequestRestart
  <2>1. "early" \notin mishaps' => loop = "waiting" /\ "early" \notin mishaps
    BY <1>3 DEF RequestRestart
  <2>2. mishaps' = {} => mishaps = {} /\ loop = "waiting"
    BY <1>3 DEF RequestRestart
  <2>3. /\ ~shuttingDown /\ shuttingDown' = TRUE /\ UNCHANGED <<loop, server, lock>>
        /\ request'.action = "restart" /\ request'.pc \in {"draining", "closing", "settling"}
    BY <1>3, RestartChanges DEF RequestRestart
  <2> QED BY <2>1, <2>2, <2>3 DEF Control
<1>4. CASE UNCHANGED <<queueVars, loopVars>>
  BY <1>4 DEF Control, queueVars, loopVars
<1>5. CASE RunsDrained
  BY <1>5, ShutdownChanges DEF Control, Moved, RunsDrained, queueVars
<1>6. CASE DrainEnds
  <2>1. /\ request.pc = "draining" /\ request'.pc \in {"closing", "settling"}
        /\ request'.action = request.action
        /\ UNCHANGED <<queueVars, loop, server, lock, shuttingDown, mishaps>>
    BY <1>1, <1>6, ShutdownChanges DEF DrainEnds, Moved
  <2> QED BY <2>1 DEF Control, queueVars
<1>7. CASE ServerClosed
  <2>1. /\ loop # "exited" /\ request.pc \in {"closing", "settling"} /\ shuttingDown
        /\ server' = FALSE /\ lock' = lock
    BY <1>7 DEF ServerClosed, Control
  <2>2. CASE /\ request' = [request EXCEPT !.pc = "releasing"]
             /\ UNCHANGED <<queueVars, loop, firstStart, shuttingDown, restarts, mishaps>>
    <3>1. request'.pc = "releasing" /\ request'.action = request.action
      BY <2>2, ShutdownChanges DEF Moved, RequestState
    <3> QED BY <2>1, <2>2, <3>1 DEF Control, queueVars
  <2>3. CASE ~lock /\ AfterRelease(FALSE)
    <3>1. mishaps # {}
      BY <2>1, <2>3 DEF Control
    <3> QED BY <2>1, <2>3, <3>1, ControlRelease
  <2> QED BY <1>7, <2>2, <2>3 DEF ServerClosed
<1>8. CASE ForceExit
  BY <1>8, ControlExit DEF ForceExit
<1>9. CASE LockReleased
  <2>1. /\ loop # "exited" /\ request.pc = "releasing" /\ shuttingDown /\ server' = server
    BY <1>9 DEF LockReleased, Ready, Control
  <2>2. AfterRelease(TRUE)
    BY <1>9 DEF LockReleased
  <2>3. CASE request.action = "stop"
    <3>1. Exit /\ UNCHANGED request
      BY <2>2, <2>3 DEF AfterRelease
    <3> QED BY <2>1, <3>1, ControlExit
  <2>4. CASE request.action = "restart"
    <3>1. "early" \notin mishaps => ~server'
      BY <2>1, <2>4 DEF Control
    <3> QED BY <2>1, <2>2, <3>1, ControlRelease
  <2> QED BY <2>3, <2>4, LoopTypesUse
<1>10. CASE LockReacquired
  <2>1. /\ loop # "exited" /\ request.pc = "acquiring" /\ shuttingDown /\ server' = server
        /\ request.action = "restart"
    BY <1>10 DEF LockReacquired, Ready, Control
  <2>2. CASE lock' = TRUE /\ ResumeLoop
    <3>1. "early" \notin mishaps => ~server'
      BY <2>1 DEF Control
    <3> QED BY <2>1, <2>2, <3>1, ControlResume
  <2>3. CASE Exit /\ UNCHANGED request
    BY <2>1, <2>3, ControlExit
  <2> QED BY <1>10, <2>2, <2>3 DEF LockReacquired
<1>11. CASE StartSucceeds
  <2>1. /\ loop = "booting" /\ loop' = "waiting"
        /\ UNCHANGED <<lock, shuttingDown, request, mishaps, gatewayDraining>>
    BY <1>11 DEF StartSucceeds, queueVars
  <2> QED BY <2>1 DEF Control
<1>12. CASE StartFails
  <2>1. CASE Exit
    BY <1>12, <2>1, ControlExit DEF StartFails
  <2>2. CASE /\ server' = FALSE /\ loop' \in {"releasing", "waiting"}
             /\ mishaps' = mishaps \union {"failed"} /\ UNCHANGED shuttingDown
    <3>1. loop = "booting" /\ UNCHANGED <<request, gatewayDraining>>
      BY <1>12 DEF StartFails, queueVars
    <3>2. mishaps' # {} /\ ("early" \notin mishaps' => "early" \notin mishaps)
      BY <2>2
    <3> QED BY <2>2, <3>1, <3>2 DEF Control
  <2> QED BY <1>12, <2>1, <2>2 DEF StartFails
<1>13. CASE StartFailureReleased
  <2>1. /\ loop = "releasing" /\ loop' = "waiting"
        /\ UNCHANGED <<server, shuttingDown, request, mishaps, gatewayDraining>>
    BY <1>13 DEF StartFailureReleased, queueVars
  <2> QED BY <2>1 DEF Control
<1>14. CASE QueueStep
  <2>1. UNCHANGED <<loopVars, gatewayDraining>>
    BY <1>14 DEF QueueStep, EnqueueCommandInLane, FinishTask, SetCommandLaneConcurrency
  <2> QED BY <2>1 DEF Control, loopVars
<1> QED BY <1>2, <1>3, <1>4, <1>5, <1>6, <1>7, <1>8, <1>9, <1>10, <1>11, <1>12, <1>13,
           <1>14, LoopSteps DEF ShutdownStep, StartStep

-----------------------------------------------------------------------------
\* A task that is active was started, and is not queued.
LEMMA ActiveKnown ==
  ASSUME IInv, NEW p \in ActiveTasks
  PROVE  /\ p[1] \in Lane /\ p[2] \in Command /\ outcome[p[2]] # "unsent"
         /\ \A l \in Lane : p[2] \notin Elements(lanes[l].queue)
<1>1. p[1] \in Lane /\ p[2] \in Command /\ p[2] \in lanes[p[1]].active
  BY DEF ActiveTasks
<1>2. PICK t \in inflight : t.command = p[2]
  BY <1>1 DEF IInv, Core, CoreActive
<1>3. outcome[p[2]] = "pending"
  BY <1>1, <1>2 DEF IInv, Core, CorePending
<1>4. \A l \in Lane : p[2] \notin Elements(lanes[l].queue)
  BY <1>2 DEF IInv, Core, CoreOnce
<1> QED BY <1>1, <1>3, <1>4

\* A current task is active.
LEMMA CurrentActive ==
  ASSUME IInv, NEW t \in inflight, t.generation = lanes[t.lane].generation
  PROVE  /\ t.lane \in Lane /\ t.command \in Command
         /\ <<t.lane, t.command>> \in ActiveTasks
<1>1. t.lane \in Lane /\ t.command \in Command
  BY DEF IInv, Core, CoreType, Task
<1>2. t.command \in lanes[t.lane].active
  BY <1>1 DEF IInv, Core, CoreActive
<1> QED BY <1>1, <1>2 DEF ActiveTasks

\* A step of the queue starts only commands that were queued or never sent, so
\* it starts none of the tasks a restart waits for.
LEMMA TasksQueueStep ==
  ASSUME IInv, LoopTypes, TasksKnown, QueueStep
  PROVE  TasksKnown'
<1>1. PICK k \in Lane, new \in SUBSET Command, gone \in SUBSET inflight :
        /\ Moves(k, new, gone) /\ OutcomesMove(new)
        /\ \A c \in new : outcome[c] = "unsent"
  <2> DEFINE Goal == \E k \in Lane, new \in SUBSET Command, gone \in SUBSET inflight :
                       /\ Moves(k, new, gone) /\ OutcomesMove(new)
                       /\ \A c \in new : outcome[c] = "unsent"
  <2>1. ASSUME NEW c \in Command, NEW l \in Lane, EnqueueCommandInLane(c, l)
        PROVE  Goal
    <3>1. Moves(l, {c}, {}) /\ OutcomesMove({c}) /\ outcome[c] = "unsent"
      BY <2>1, EnqueueMoves
    <3>2. {c} \in SUBSET Command /\ {} \in SUBSET inflight /\ \A d \in {c} : d = c
      OBVIOUS
    <3> QED BY <3>1, <3>2
  <2>2. ASSUME NEW t \in inflight, NEW result \in {"resolved", "rejected"},
               FinishTask(t, result)
        PROVE  Goal
    <3>1. t.lane \in Lane /\ Moves(t.lane, {}, {t}) /\ OutcomesMove({})
      BY <2>2, FinishMoves
    <3>2. {} \in SUBSET Command /\ {t} \in SUBSET inflight
      OBVIOUS
    <3> QED BY <3>1, <3>2
  <2>3. ASSUME NEW l \in Lane, NEW n \in Limit, SetCommandLaneConcurrency(l, n)
        PROVE  Goal
    <3>1. Moves(l, {}, {}) /\ OutcomesMove({})
      BY <2>3, ConcurrencyMoves
    <3>2. {} \in SUBSET Command /\ {} \in SUBSET inflight
      OBVIOUS
    <3> QED BY <3>1, <3>2
  <2> HIDE DEF Goal
  <2>4. Goal
    BY <2>1, <2>2, <2>3 DEF QueueStep
  <2> QED BY <2>4 DEF Goal
<1>2. UNCHANGED request /\ request.tasks \subseteq Lane \X Command
  BY LoopTypesUse DEF QueueStep, loopVars
<1>3. ASSUME NEW p \in request.tasks
      PROVE  /\ p[2] \in Command /\ outcome[p[2]] # "unsent" /\ p[2] \notin new
             /\ \A l \in Lane : p[2] \notin Elements(lanes[l].queue)
  BY <1>1, <1>2 DEF TasksKnown
<1>4. ASSUME NEW p \in request.tasks
      PROVE  /\ outcome'[p[2]] # "unsent"
             /\ \A l \in Lane : p[2] \notin Elements(lanes'[l].queue)
  BY <1>1, <1>3 DEF Moves, OutcomesMove
<1>5. ASSUME request.action = "restart", request.pc \notin {"idle", "draining"},
             ~request.timedOut, NEW t \in inflight',
             t.generation = lanes'[t.lane].generation
      PROVE  <<t.lane, t.command>> \notin request.tasks
  <2>1. CASE t \in inflight
    <3>1. t.lane \in Lane /\ lanes'[t.lane].generation = lanes[t.lane].generation
      BY <1>1, <2>1 DEF IInv, Core, CoreType, Task, Moves
    <3> QED BY <1>5, <2>1, <3>1 DEF TasksKnown, ActiveTasksDrained
  <2>2. CASE t \notin inflight
    <3>1. t.command \in Elements(lanes[k].queue) \union new
      BY <1>1, <2>2 DEF Moves
    <3>2. SUFFICES ASSUME <<t.lane, t.command>> \in request.tasks
                   PROVE  FALSE
      OBVIOUS
    <3>3. t.command \notin new /\ t.command \notin Elements(lanes[k].queue)
      BY <1>1, <1>3, <3>2
    <3> QED BY <3>1, <3>3
  <2> QED BY <2>1, <2>2
<1> QED BY <1>2, <1>4, <1>5 DEF TasksKnown, ActiveTasksDrained

\* A closure that goes on after its drain keeps the tasks it waits for.
LEMMA TasksMoved ==
  ASSUME TasksKnown, request'.tasks = request.tasks, request'.action = request.action,
         UNCHANGED <<lanes, inflight, outcome>>,
         \/ /\ request.pc \notin {"idle", "draining"} /\ request'.timedOut = request.timedOut
         \/ request'.pc \in {"idle", "draining"} \/ request'.timedOut
  PROVE  TasksKnown'
BY DEF TasksKnown, ActiveTasksDrained

\* One that has no tasks to wait for knows them all.
LEMMA NoTasks ==
  ASSUME request'.tasks = {}
  PROVE  TasksKnown'
BY DEF TasksKnown, ActiveTasksDrained

\* What follows the lock's release keeps them, or ends the shutdown.
LEMMA TasksRelease ==
  ASSUME LoopTypes, TasksKnown, NEW h, AfterRelease(h),
         request.pc \notin {"idle", "draining"}
  PROVE  TasksKnown'
<1>1. CASE UNCHANGED <<queueVars, request>>
  BY <1>1, TasksMoved DEF queueVars
<1>2. CASE request' = [request EXCEPT !.pc = "acquiring"] /\ UNCHANGED queueVars
  <2>1. Moved("acquiring") /\ request'.timedOut = request.timedOut
    BY <1>2, ShutdownChanges DEF RequestState
  <2> QED BY <1>2, <2>1, TasksMoved DEF Moved, queueVars
<1>3. CASE ResumeLoop
  BY <1>3, NoTasks DEF ResumeLoop, NoRequest
<1> QED BY <1>1, <1>2, <1>3 DEF AfterRelease

\* The tasks a restart waits for stay known, and it goes on without waiting for
\* them only when they have ended or its wait has timed out.
LEMMA TasksPart ==
  ASSUME IInv, LoopTypes, Control, TasksKnown, [LoopNext]_allVars
  PROVE  TasksKnown'
<1>1. CASE RequestStop
  BY <1>1, StopChanges, NoTasks
<1>2. CASE RequestRestart
  <2>1. UNCHANGED <<lanes, inflight, outcome>>
    BY <1>2 DEF RequestRestart
  <2>2. request'.tasks = ActiveTasks /\ (request'.pc # "draining" => ActiveTasks = {})
    BY <1>2, RestartChanges
  <2>3. CASE ActiveTasks = {}
    BY <2>2, <2>3, NoTasks
  <2>4. CASE request'.pc = "draining"
    BY <2>1, <2>2, <2>4, ActiveKnown DEF TasksKnown, ActiveTasksDrained
  <2> QED BY <2>2, <2>3, <2>4
<1>3. CASE UNCHANGED <<queueVars, loopVars>>
  BY <1>3 DEF TasksKnown, ActiveTasksDrained, queueVars, loopVars
<1>4. CASE RunsDrained
  <2>1. Moved("draining") /\ UNCHANGED queueVars
    BY <1>4, ShutdownChanges DEF RunsDrained
  <2> QED BY <2>1, TasksMoved DEF Moved, queueVars
<1>5. CASE DrainEnds
  <2>1. /\ Moved(CloseNext) /\ UNCHANGED <<lanes, inflight, outcome>>
        /\ ~TasksStillActive \/ request'.timedOut
    BY <1>5, ShutdownChanges DEF DrainEnds, queueVars
  <2>2. CASE request'.timedOut
    BY <2>1, <2>2, TasksMoved DEF Moved
  <2>3. CASE ~TasksStillActive
    <3>1. \A t \in inflight : t.generation = lanes[t.lane].generation
                                => <<t.lane, t.command>> \notin request.tasks
      BY <2>3, CurrentActive DEF TasksStillActive
    <3> QED BY <2>1, <3>1 DEF TasksKnown, ActiveTasksDrained, Moved
  <2> QED BY <2>1, <2>2, <2>3
<1>6. CASE ServerClosed
  <2>1. request.pc \notin {"idle", "draining"}
    BY <1>6 DEF ServerClosed
  <2>2. CASE request' = [request EXCEPT !.pc = "releasing"] /\ UNCHANGED queueVars
    <3>1. Moved("releasing") /\ request'.timedOut = request.timedOut
      BY <2>2, ShutdownChanges DEF RequestState
    <3> QED BY <2>1, <2>2, <3>1, TasksMoved DEF Moved, queueVars
  <2>3. CASE AfterRelease(FALSE)
    BY <2>1, <2>3, TasksRelease
  <2> QED BY <1>6, <2>2, <2>3 DEF ServerClosed
<1>7. CASE ForceExit
  BY <1>7, TasksMoved DEF ForceExit, queueVars
<1>8. CASE LockReleased
  BY <1>8, TasksRelease DEF LockReleased
<1>9. CASE LockReacquired
  <2>1. CASE ResumeLoop
    BY <2>1, NoTasks DEF ResumeLoop, NoRequest
  <2>2. CASE UNCHANGED <<queueVars, request>>
    BY <1>9, <2>2, TasksMoved DEF LockReacquired, queueVars
  <2> QED BY <1>9, <2>1, <2>2 DEF LockReacquired
<1>10. CASE StartStep
  <2>1. UNCHANGED <<queueVars, request>>
    BY <1>10 DEF StartStep, StartSucceeds, StartFails, StartFailureReleased
  <2> QED BY <2>1 DEF TasksKnown, ActiveTasksDrained, queueVars
<1>11. CASE QueueStep
  BY <1>11, TasksQueueStep
<1> QED BY <1>1, <1>2, <1>3, <1>4, <1>5, <1>6, <1>7, <1>8, <1>9, <1>10, <1>11,
           LoopSteps DEF ShutdownStep

-----------------------------------------------------------------------------
\* The gateway starts in such a state.
LEMMA LoopInitInv == LoopInit => RunLoopInv
<1> SUFFICES ASSUME LoopInit PROVE RunLoopInv
  OBVIOUS
<1>1. IInv
  BY InitInv DEF LoopInit
<1>2. LoopTypes
  <2>1. NoRequest \in [pc : RequestState, action : {"stop", "restart"},
                       tasks : SUBSET (Lane \X Command),
                       awaitRuns : BOOLEAN, timedOut : BOOLEAN]
    BY DEF NoRequest, RequestState
  <2>2. 0 \in 0..MaxPollers /\ 0 \in 0..MaxRestarts
    BY RestartBounds
  <2>3. "booting" \in LoopState
    BY DEF LoopState
  <2> QED BY <2>1, <2>2, <2>3 DEF LoopTypes, LoopTypeOK, LoopInit
<1>3. Control
  BY DEF Control, LoopInit, NoRequest, Init
<1>4. TasksKnown
  BY DEF TasksKnown, ActiveTasksDrained, LoopInit, NoRequest
<1> QED BY <1>1, <1>2, <1>3, <1>4 DEF RunLoopInv

\* And stays in one.
LEMMA RunLoopInvariant == LoopSpec => []RunLoopInv
<1>1. RunLoopInv /\ [LoopNext]_allVars => RunLoopInv'
  BY QueuePart, TypesPart, ControlPart, TasksPart DEF RunLoopInv
<1> QED BY <1>1, LoopInitInv, PTL DEF LoopSpec

\* The loop's state is well formed, and as long as every restart started its
\* server, a gateway that is up holds the lock.
THEOREM LoopCorrect == LoopSpec => []LoopInv
<1>1. RunLoopInv => LoopInv
  BY DEF RunLoopInv, LoopTypes, LoopInv, LockedUnlessStartFailed, Control, Up
<1> QED BY <1>1, RunLoopInvariant, PTL

\* Unless a restart is requested while the server is still starting, start()
\* never runs beside a server that is open.
THEOREM OneServer == LoopSpec => []StartsAlone
<1>1. RunLoopInv => StartsAlone
  BY DEF RunLoopInv, StartsAlone, Control
<1> QED BY <1>1, RunLoopInvariant, PTL

\* And a gateway that is up and not shutting down takes new work.
THEOREM UpTakesWork == LoopSpec => []TakesWorkWhenUp
<1>1. RunLoopInv => TakesWorkWhenUp
  BY DEF RunLoopInv, TakesWorkWhenUp, Control, Up
<1> QED BY <1>1, RunLoopInvariant, PTL

\* Unless the wait timed out, the tasks active when a restart was requested have
\* ended when the server is torn down, whatever was enqueued or resized since.
THEOREM DrainsBeforeTeardown == LoopSpec => []ActiveTasksDrained
<1>1. RunLoopInv => ActiveTasksDrained
  BY DEF RunLoopInv, TasksKnown
<1> QED BY <1>1, RunLoopInvariant, PTL
=============================================================================
