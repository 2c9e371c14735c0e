--------------------------- MODULE GatewayRunLoop ---------------------------
(***************************************************************************)
(* The gateway's run loop (cli/gateway-cli/run-loop.ts), the restart       *)
(* scheduler (infra/restart.ts) and the command queue they drain and       *)
(* reset, composed: signals, restart timers, deferral pollers and the      *)
(* shutdown sequence interleave with enqueues and completions.             *)
(*                                                                         *)
(* An emitted restart is handled in the same callback (process.emit calls  *)
(* onSigusr1), which authorises, consumes and marks it at once: the cycle  *)
(* tokens and the authorisation count are back where they were whenever    *)
(* another callback runs, and are not represented.                         *)
(***************************************************************************)
EXTENDS CommandQueue

CONSTANTS
  MaxRestarts,  \* bound of the model: restart requests that begin a shutdown
  MaxPollers    \* bound of the model: deferral pollers alive at once

ASSUME RestartBounds == MaxRestarts \in Nat /\ MaxPollers \in Nat

VARIABLES
  loop,            \* where runGatewayLoop's while loop is
  firstStart,      \* isFirstStart
  server,          \* whether `server` is set
  lock,            \* whether `lock` is set
  shuttingDown,    \* shuttingDown
  request,         \* the async closure that request() runs, at most one
  runs,            \* ACTIVE_EMBEDDED_RUNS: commands with an agent run registered
  restartTimer,    \* whether pendingRestartTimer is set
  pollers,         \* deferral pollers whose `restartPending` no one reads
  restartPending,  \* a poller of this lifecycle's config reload handlers exists
  restarts,        \* history: restart requests that began a shutdown
  mishaps          \* history: a restart requested while the loop was not waiting
                   \* for one ("early"), a restarted server that did not start ("failed")

loopVars == <<loop, firstStart, server, lock, shuttingDown, request, restarts, mishaps>>
schedulerVars == <<restartTimer, pollers, restartPending>>
queueVars == <<lanes, gatewayDraining, inflight, outcome>>
allVars == <<queueVars, loopVars, schedulerVars, runs>>

\* restartResolver resolves the promise the loop waits on iff loop = "waiting".
LoopState == {"booting", "waiting", "releasing", "exited"}

RequestState == {"idle", "draining", "closing", "settling", "releasing", "acquiring"}

NoRequest ==
  [pc |-> "idle", action |-> "stop", tasks |-> {}, awaitRuns |-> FALSE, timedOut |-> FALSE]

LoopTypeOK ==
  /\ loop \in LoopState
  /\ request \in [pc : RequestState, action : {"stop", "restart"},
                  tasks : SUBSET (Lane \X Command),
                  awaitRuns : BOOLEAN, timedOut : BOOLEAN]
  /\ {firstStart, server, lock, shuttingDown, restartTimer, restartPending} \subseteq BOOLEAN
  /\ runs \subseteq Command
  /\ pollers \in 0..MaxPollers
  /\ restarts \in 0..MaxRestarts
  /\ mishaps \subseteq {"early", "failed"}

\* runGatewayLoop holds the lock and has registered its signal handlers.
LoopInit ==
  /\ Init
  /\ loop = "booting" /\ firstStart = TRUE /\ server = FALSE /\ lock = TRUE
  /\ shuttingDown = FALSE /\ request = NoRequest /\ runs = {}
  /\ restartTimer = FALSE /\ pollers = 0 /\ restartPending = FALSE
  /\ restarts = 0 /\ mishaps = {}

-----------------------------------------------------------------------------
\* `await server?.close()` with no server, and `await releaseLockIfHeld()` with
\* no lock, continue before any other callback runs.
Settling == request.pc = "settling"
Ready == loop # "exited" /\ ~Settling

Exit ==
  /\ loop' = "exited"
  /\ UNCHANGED <<firstStart, shuttingDown, restarts, mishaps>>

\* request(), for a shutdown that is not already under way.  A restart first
\* marks the gateway as draining and waits for what is active right now.
ActiveTasks == {p \in Lane \X Command : p[2] \in lanes[p[1]].active}

CloseNext == IF server THEN "closing" ELSE "settling"

RequestStop ==
  /\ ~shuttingDown
  /\ shuttingDown' = TRUE
  /\ request' = [NoRequest EXCEPT !.pc = CloseNext]
  /\ UNCHANGED <<queueVars, loop, firstStart, server, lock, restarts, mishaps, runs>>

RequestRestart ==
  /\ ~shuttingDown /\ restarts < MaxRestarts
  /\ restarts' = restarts + 1
  /\ mishaps' = mishaps \union (IF loop = "waiting" THEN {} ELSE {"early"})
  /\ shuttingDown' = TRUE
  /\ gatewayDraining' = TRUE
  /\ request' =
       [NoRequest EXCEPT
          !.pc = IF ActiveTasks # {} \/ runs # {} THEN "draining" ELSE CloseNext,
          !.action = "restart", !.tasks = ActiveTasks, !.awaitRuns = (runs # {})]
  /\ UNCHANGED <<lanes, inflight, outcome, loop, firstStart, server, lock, runs>>

\* request() while a shutdown is under way: logged and ignored.
RequestIgnored ==
  /\ shuttingDown
  /\ UNCHANGED <<queueVars, loopVars, runs>>

\* onSigterm, onSigint
Sigterm ==
  /\ Ready
  /\ RequestStop \/ RequestIgnored
  /\ UNCHANGED schedulerVars

\* emitGatewayRestart, down to request("restart"); it clears a pending timer.
EmitGatewayRestart ==
  /\ RequestRestart \/ RequestIgnored
  /\ restartTimer' = FALSE

-----------------------------------------------------------------------------
\* waitForActiveEmbeddedRuns sees no active run at one of its polls.
RunsDrained ==
  /\ Ready
  /\ request.pc = "draining" /\ request.awaitRuns /\ runs = {}
  /\ request' = [request EXCEPT !.awaitRuns = FALSE]
  /\ UNCHANGED <<queueVars, loop, firstStart, server, lock, shuttingDown, restarts, mishaps>>
  /\ UNCHANGED <<schedulerVars, runs>>

\* Mutant of TasksStillActive: the poll never finds a task pending.
TasksStillActive_Never == FALSE

\* waitForActiveTasks: a task that was active when the wait began still is.
TasksStillActive == request.tasks \cap ActiveTasks # {}

\* Both waits are over, because the work ended or because they timed out.
DrainEnds ==
  /\ Ready
  /\ request.pc = "draining"
  /\ \/ /\ ~TasksStillActive /\ ~request.awaitRuns
        /\ request' = [request EXCEPT !.pc = CloseNext]
     \/ request' = [request EXCEPT !.pc = CloseNext, !.timedOut = TRUE]
  /\ UNCHANGED <<queueVars, loop, firstStart, server, lock, shuttingDown, restarts, mishaps>>
  /\ UNCHANGED <<schedulerVars, runs>>

\* handleRestartAfterServerClose resumes the loop: if it waits for a restart it
\* resets the lanes and starts again; if it does not, nobody hears of it.
ResumeLoop ==
  /\ shuttingDown' = FALSE
  /\ request' = NoRequest
  /\ \/ /\ loop = "waiting"
        /\ loop' = "booting"
        /\ ResetAllLanes
        /\ restartPending' = FALSE
        /\ pollers' = IF restartPending THEN pollers + 1 ELSE pollers
     \/ /\ loop # "waiting"
        /\ UNCHANGED <<loop, queueVars, restartPending, pollers>>
  /\ UNCHANGED <<firstStart, restarts, mishaps>>

\* Mutant of AfterRelease: the restart goes on without taking the lock back.
AfterRelease_NoReacquire(hadLock) ==
  \/ /\ Exit
     /\ UNCHANGED <<queueVars, request, pollers, restartPending>>
  \/ /\ request.action = "restart"
     /\ ResumeLoop

\* What follows the lock's release: a stop exits; a restart exits when a fresh
\* process takes over, otherwise it takes the lock back, if there was one.
AfterRelease(hadLock) ==
  \/ /\ Exit
     /\ UNCHANGED <<queueVars, request, pollers, restartPending>>
  \/ /\ request.action = "restart" /\ hadLock
     /\ request' = [request EXCEPT !.pc = "acquiring"]
     /\ UNCHANGED <<queueVars, loop, firstStart, shuttingDown, restarts, mishaps, pollers, restartPending>>
  \/ /\ request.action = "restart" /\ ~hadLock
     /\ ResumeLoop

\* Mutant of ServerClosed: `server` is not cleared.
ServerClosed_KeepsServer ==
  /\ loop # "exited"
  /\ request.pc \in {"closing", "settling"}
  /\ \/ /\ lock
        /\ request' = [request EXCEPT !.pc = "releasing"]
        /\ UNCHANGED <<queueVars, loop, firstStart, shuttingDown, restarts, mishaps, pollers, restartPending>>
     \/ /\ ~lock
        /\ AfterRelease(FALSE)
  /\ UNCHANGED <<server, lock, restartTimer, runs>>

\* The finally block of request(): the server is closed, failed to close, or
\* there was none.
ServerClosed ==
  /\ loop # "exited"
  /\ request.pc \in {"closing", "settling"}
  /\ server' = FALSE
  /\ \/ /\ lock
        /\ request' = [request EXCEPT !.pc = "releasing"]
        /\ UNCHANGED <<queueVars, loop, firstStart, shuttingDown, restarts, mishaps, pollers, restartPending>>
     \/ /\ ~lock
        /\ AfterRelease(FALSE)
  /\ UNCHANGED <<lock, restartTimer, runs>>

\* Mutant of ForceExit: only a stop arms the timer.
ForceExit_StopOnly ==
  /\ loop # "exited" /\ request.pc = "closing" /\ request.action = "stop"
  /\ Exit
  /\ UNCHANGED <<queueVars, schedulerVars, server, lock, request, runs>>

\* forceExitTimer fires while server.close() hangs.
ForceExit ==
  /\ loop # "exited" /\ request.pc = "closing"
  /\ Exit
  /\ UNCHANGED <<queueVars, schedulerVars, server, lock, request, runs>>

\* The shutdown's lock.release() is done.
LockReleased ==
  /\ Ready
  /\ request.pc = "releasing"
  /\ lock' = FALSE
  /\ AfterRelease(TRUE)
  /\ UNCHANGED <<server, restartTimer, runs>>

\* reacquireLockForInProcessRestart
LockReacquired ==
  /\ Ready
  /\ request.pc = "acquiring"
  /\ \/ /\ lock' = TRUE
        /\ ResumeLoop
     \/ /\ Exit
        /\ UNCHANGED <<queueVars, lock, request, pollers, restartPending>>
  /\ UNCHANGED <<server, restartTimer, runs>>
-----------------------------------------------------------------------------
\* `server = await params.start()` resolves.
StartSucceeds ==
  /\ Ready /\ loop = "booting"
  /\ loop' = "waiting" /\ server' = TRUE /\ firstStart' = FALSE
  /\ UNCHANGED <<queueVars, schedulerVars, runs, lock, shuttingDown, request, restarts, mishaps>>

\* params.start() throws: the first time the process gives up, later it stays
\* alive without a server and releases the lock, if it holds it.
StartFails ==
  /\ Ready /\ loop = "booting"
  /\ \/ /\ firstStart
        /\ Exit
        /\ UNCHANGED server
     \/ /\ ~firstStart
        /\ server' = FALSE
        /\ loop' = IF lock THEN "releasing" ELSE "waiting"
        /\ mishaps' = mishaps \union {"failed"}
        /\ UNCHANGED <<firstStart, shuttingDown, restarts>>
  /\ UNCHANGED <<queueVars, schedulerVars, runs, lock, request>>

\* The release after a failed start is done; the loop waits for a restart.
StartFailureReleased ==
  /\ Ready /\ loop = "releasing"
  /\ lock' = FALSE
  /\ loop' = "waiting"
  /\ UNCHANGED <<queueVars, schedulerVars, runs, firstStart, server, shuttingDown, request, restarts, mishaps>>

-----------------------------------------------------------------------------
\* getTotalQueueSize() + getActiveEmbeddedRunCount() is zero.  The third count, of
\* replies that are pending (getTotalPendingReplies), may be anything, so a gateway
\* that is idle in this sense may count as busy all the same.
Idle ==
  /\ \A l \in Lane : lanes[l].queue = <<>> /\ lanes[l].active = {}
  /\ runs = {}

MayPoll == pollers + (IF restartPending THEN 1 ELSE 0) < MaxPollers

\* scheduleGatewaySigusr1Restart, called by an RPC handler, a chat command, an
\* agent's tool or onSigusr1 for an external signal.  A pending timer stays, or
\* is replaced by an earlier one.
ScheduleGatewaySigusr1Restart ==
  /\ Ready
  /\ restartTimer' = TRUE
  /\ UNCHANGED <<queueVars, loopVars, runs, pollers, restartPending>>

\* The timer fires: emit now when idle (or no check is registered yet, early in
\* the first start), else poll until idle.
RestartTimerFires ==
  /\ Ready /\ restartTimer
  /\ \/ /\ Idle \/ firstStart
        /\ EmitGatewayRestart
        /\ UNCHANGED <<pollers, restartPending>>
     \/ /\ MayPoll
        /\ restartTimer' = FALSE
        /\ pollers' = pollers + 1
        /\ UNCHANGED <<queueVars, loopVars, runs, restartPending>>
  /\ UNCHANGED runs

\* requestGatewayRestart of the config reload handlers (server-reload-handlers).
ConfigRequestsRestart ==
  /\ Ready /\ server
  /\ \/ /\ Idle
        /\ EmitGatewayRestart
        /\ UNCHANGED <<pollers, restartPending>>
     \/ /\ ~restartPending /\ MayPoll
        /\ restartPending' = TRUE
        /\ UNCHANGED <<queueVars, loopVars, restartTimer, pollers>>
  /\ UNCHANGED runs

\* Mutant of PollerFires: there is no deadline, only idleness ends the wait.
PollerFires_NoDeadline ==
  /\ Ready /\ Idle
  /\ \/ /\ pollers > 0
        /\ pollers' = pollers - 1
        /\ UNCHANGED restartPending
     \/ /\ restartPending
        /\ restartPending' = FALSE
        /\ UNCHANGED pollers
  /\ EmitGatewayRestart
  /\ UNCHANGED runs

\* A poll of deferGatewayRestartUntilIdle that finds the gateway idle, or whose
\* deadline has passed.
PollerFires ==
  /\ Ready
  /\ \/ /\ pollers > 0
        /\ pollers' = pollers - 1
        /\ UNCHANGED restartPending
     \/ /\ restartPending
        /\ restartPending' = FALSE
        /\ UNCHANGED pollers
  /\ EmitGatewayRestart
  /\ UNCHANGED runs

-----------------------------------------------------------------------------
\* Callers of the command queue, and the agent runs its tasks register.
Enqueue(c, l) ==
  /\ Ready
  /\ EnqueueCommandInLane(c, l)
  /\ UNCHANGED <<loopVars, schedulerVars, runs>>

Finish(t, result) ==
  /\ Ready
  /\ FinishTask(t, result)
  /\ runs' = runs \ {t.command}
  /\ UNCHANGED <<loopVars, schedulerVars>>

\* setActiveEmbeddedRun: a task registers the run of its next attempt.
SetActiveEmbeddedRun(t) ==
  /\ Ready
  /\ runs' = runs \union {t.command}
  /\ UNCHANGED <<queueVars, loopVars, schedulerVars>>

\* clearActiveEmbeddedRun, at the end of an attempt
ClearActiveEmbeddedRun(t) ==
  /\ Ready
  /\ runs' = runs \ {t.command}
  /\ UNCHANGED <<queueVars, loopVars, schedulerVars>>

ResizeLane(l, n) ==
  /\ Ready
  /\ SetCommandLaneConcurrency(l, n)
  /\ UNCHANGED <<loopVars, schedulerVars, runs>>

LoopNext ==
  \/ Sigterm
  \/ RunsDrained \/ DrainEnds \/ ServerClosed \/ ForceExit \/ LockReleased \/ LockReacquired
  \/ StartSucceeds \/ StartFails \/ StartFailureReleased
  \/ ScheduleGatewaySigusr1Restart \/ RestartTimerFires
  \/ ConfigRequestsRestart \/ PollerFires
  \/ \E c \in Command, l \in Lane : Enqueue(c, l)
  \/ \E t \in inflight, result \in {"resolved", "rejected"} : Finish(t, result)
  \/ \E t \in inflight : SetActiveEmbeddedRun(t) \/ ClearActiveEmbeddedRun(t)
  \/ \E l \in Lane, n \in Limit : ResizeLane(l, n)

LoopSpec == LoopInit /\ [][LoopNext]_allVars

\* Timers fire, file operations and server starts end, and a task of the current
\* lifecycle ends.  server.close() and a task that a restart interrupted may
\* hang, no signal and no request has to come.
LoopFairness ==
  /\ WF_allVars(DrainEnds) /\ WF_allVars(ForceExit)
  /\ WF_allVars(Settling /\ ServerClosed)
  /\ WF_allVars(LockReleased) /\ WF_allVars(LockReacquired)
  /\ WF_allVars(StartSucceeds \/ StartFails) /\ WF_allVars(StartFailureReleased)
  /\ WF_allVars(RestartTimerFires) /\ WF_allVars(PollerFires)
  /\ \A l \in Lane, c \in Command :
       WF_allVars(\E t \in inflight, result \in {"resolved", "rejected"} :
                    /\ t.lane = l /\ t.command = c /\ t.generation = lanes[l].generation
                    /\ Finish(t, result))

LoopFairSpec == LoopSpec /\ LoopFairness

-----------------------------------------------------------------------------
Up == loop = "waiting" /\ server /\ ~shuttingDown

\* Unless a restart is requested while the server is still starting, start()
\* never runs beside a server that is open, and a gateway that is up and not
\* shutting down takes new work.
StartsAlone == "early" \notin mishaps => (loop = "booting" => ~server)

TakesWorkWhenUp == "early" \notin mishaps => (Up => ~gatewayDraining)

\* As long as every restart started its server, a gateway that is up holds the
\* lock.
LockedUnlessStartFailed == mishaps = {} => (Up => lock)

\* The state is well formed, and the lock is held as above.
LoopInv == LoopTypeOK /\ LockedUnlessStartFailed

\* Unless the wait timed out, the tasks that were active when a restart was
\* requested have ended when the server is torn down.
ActiveTasksDrained ==
  request.action = "restart" /\ request.pc \notin {"idle", "draining"} /\ ~request.timedOut
    => \A t \in inflight :
         t.generation = lanes[t.lane].generation => <<t.lane, t.command>> \notin request.tasks

\* A shutdown never hangs: the process exits or the loop takes over again.
ShutdownEnds == shuttingDown ~> ~shuttingDown \/ loop = "exited"

\* A scheduled or deferred restart is acted on (up to the bound of the model).
RestartNotForgotten ==
  restartTimer \/ pollers > 0 \/ restartPending
    ~> shuttingDown \/ loop = "exited" \/ restarts = MaxRestarts

\* Work queued before a restart runs after it, unless the process exits.
QueuedRunsOrExits ==
  \A l \in Lane, c \in Command :
    c \in Elements(lanes[l].queue)
      ~> c \notin Elements(lanes[l].queue) \/ loop = "exited"

\* run-loop.ts:225 "SIGUSR1 triggers an in-process restart": so a gateway that
\* is up, with no shutdown under way, is not left refusing work for a restart.
\* The code does not do so, see section 5 of the README.
RestartTakesPlace == Up => ~gatewayDraining

=============================================================================
