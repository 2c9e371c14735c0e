----------------------------- MODULE AgentLanes -----------------------------
(***************************************************************************)
(* Agent runs on the command queue (agents/pi-embedded-runner): the task   *)
(* of a run's session-lane entry enqueues the run itself in a global lane  *)
(* and waits for it there.  A cron job asked for by hand holds a slot of   *)
(* the cron lane around that, and a run may send to another session and    *)
(* wait for the run this starts.                                           *)
(***************************************************************************)
EXTENDS CommandQueue

CONSTANTS
  Run,        \* agent runs, each asked for at most once
  Session,    \* session keys; a session's lane is named by its key
  SessionOf,  \* the session of each run
  CronRun,    \* the runs of cron jobs
  Callee,     \* the run that each run starts by sessions_send, or NoRun
  NoRun,
  main, cron, nested

\* resolveSessionLane names every session's lane "session:<key>".
ASSUME Lanes ==
  /\ Lane = Session \union {main, cron, nested}
  /\ Session \intersect {main, cron, nested} = {}
ASSUME Commands == Command = Run \X {"cron", "session", "global"}
ASSUME Runs ==
  /\ SessionOf \in [Run -> Session] /\ CronRun \subseteq Run
  /\ Callee \in [Run -> Run \union {NoRun}] /\ NoRun \notin Run

VARIABLES
  waits,       \* runs whose sessions_send waits for its answer
  interrupted  \* history: a restart came while tasks were in flight

laneVars == <<vars, waits, interrupted>>

LanesTypeOK == TypeOK /\ waits \subseteq Run /\ interrupted \in BOOLEAN

LanesInit == Init /\ waits = {} /\ interrupted = FALSE

-----------------------------------------------------------------------------
Callees == {Callee[r] : r \in Run}

\* Mutant of GlobalLane: what the caller asked for, also inside the cron lane.
GlobalLane_AsAsked(r) ==
  CASE r \in CronRun -> cron
    [] r \in Callees -> nested
    [] OTHER -> main

\* resolveGlobalLane of the lane the caller asks for: cron jobs ask for the cron
\* lane, which they hold, and get the nested one; so does sessions_send.
GlobalLane(r) == IF r \in CronRun \union Callees THEN nested ELSE main

LaneOf(c) ==
  CASE c[2] = "cron" -> cron
    [] c[2] = "session" -> SessionOf[c[1]]
    [] c[2] = "global" -> GlobalLane(c[1])

First(r) == IF r \in CronRun THEN <<r, "cron">> ELSE <<r, "session">>
Inner(c) == IF c[2] = "cron" THEN <<c[1], "session">> ELSE <<c[1], "global">>

InFlight(c) == \E t \in inflight : t.command = c

\* The session entry's task enqueues its run in the callback that starts it.
MustEnqueue(c) == c[2] = "session" /\ InFlight(c) /\ outcome[Inner(c)] = "unsent"
Ready == \A c \in Command : ~MustEnqueue(c)

\* runEmbeddedPiAgent, compactEmbeddedPiSession; for a cron job enqueueRun.
AskFor(r) ==
  /\ Ready /\ r \notin Callees
  /\ EnqueueCommandInLane(First(r), LaneOf(First(r)))
  /\ UNCHANGED <<waits, interrupted>>

\* The task of an entry around the run enqueues the next one.
EnqueueInner(c) ==
  /\ MustEnqueue(c) \/ (Ready /\ c[2] = "cron" /\ InFlight(c))
  /\ EnqueueCommandInLane(Inner(c), LaneOf(Inner(c)))
  /\ UNCHANGED <<waits, interrupted>>

\* Mutant of FinishOuter: the session entry does not wait for the run.
FinishOuter_NoWait(t) ==
  /\ Ready /\ t.command[2] # "global"
  /\ FinishTask(t, "resolved")
  /\ UNCHANGED <<waits, interrupted>>

\* It ends as what it waits for ends; a cron job records the failure of its run.
FinishOuter(t) ==
  /\ Ready /\ t.command[2] # "global"
  /\ outcome[Inner(t.command)] \in Settled
  /\ FinishTask(t, IF t.command[2] = "cron" \/ outcome[Inner(t.command)] = "resolved"
                     THEN "resolved" ELSE "rejected")
  /\ UNCHANGED <<waits, interrupted>>

\* A cron job finds that it is not to run after all, or its time is over: the
\* entry ends and a run it has asked for goes on until it sees the abort.
JobGivesUp(t) ==
  /\ Ready /\ t.command[2] = "cron"
  /\ FinishTask(t, "resolved")
  /\ UNCHANGED <<waits, interrupted>>

\* The run itself ends.
FinishRun(t, result) ==
  /\ Ready /\ t.command[2] = "global" /\ t.command[1] \notin waits
  /\ FinishTask(t, result)
  /\ UNCHANGED <<waits, interrupted>>

\* sessions_send, with a timeout that is not zero: startAgentRun and the wait.
SessionsSend(r) ==
  /\ Ready /\ InFlight(<<r, "global">>) /\ r \notin waits
  /\ Callee[r] # NoRun
  /\ EnqueueCommandInLane(<<Callee[r], "session">>, SessionOf[Callee[r]])
  /\ waits' = waits \union {r}
  /\ UNCHANGED interrupted

\* agent.wait answers, or gives up.
SendReturns(r) ==
  /\ Ready /\ r \in waits
  /\ waits' = waits \ {r}
  /\ UNCHANGED <<vars, interrupted>>

-----------------------------------------------------------------------------
\* Mutant of ClearSession: the slot of the run under way is given up as well.
ClearSession_FreesSlot(s) ==
  /\ Ready
  /\ lanes' = [lanes EXCEPT ![s].queue = <<>>, ![s].active = {}]
  /\ outcome' = [c \in Command |->
                   IF c \in Elements(lanes[s].queue) THEN "cleared" ELSE outcome[c]]
  /\ UNCHANGED <<gatewayDraining, inflight, waits, interrupted>>

\* /stop and the reset of a session clear the session's lane.
ClearSession(s) ==
  /\ Ready
  /\ ClearCommandLane(s)
  /\ UNCHANGED <<waits, interrupted>>

\* Only the global lanes are given a limit, and the nested lane is not.
SetConcurrency(l, n) ==
  /\ Ready
  /\ SetCommandLaneConcurrency(l, n)
  /\ UNCHANGED <<waits, interrupted>>

Drain ==
  /\ Ready
  /\ MarkGatewayDraining
  /\ UNCHANGED <<waits, interrupted>>

Restart ==
  /\ Ready /\ MayReset
  /\ ResetAllLanes
  /\ interrupted' = (interrupted \/ inflight # {})
  /\ UNCHANGED waits

LanesNext ==
  \/ \E r \in Run : AskFor(r) \/ SessionsSend(r) \/ SendReturns(r)
  \/ \E c \in Command : EnqueueInner(c)
  \/ \E t \in inflight : FinishOuter(t) \/ JobGivesUp(t)
  \/ \E t \in inflight : \E result \in {"resolved", "rejected"} : FinishRun(t, result)
  \/ \E s \in Session : ClearSession(s)
  \/ \E l \in {main, cron}, n \in Limit : SetConcurrency(l, n)
  \/ Drain \/ Restart

LanesSpec == LanesInit /\ [][LanesNext]_laneVars

\* Runs end, by themselves or by their timeout, agent.wait too, and a task goes
\* on when what it awaits has ended.  Cron jobs need not have a timeout.
LanesFairness ==
  \A r \in Run :
    /\ WF_laneVars(SendReturns(r))
    /\ \A level \in {"cron", "session", "global"} :
         LET c == <<r, level>> IN
           /\ WF_laneVars(EnqueueInner(c))
           /\ WF_laneVars(\E t \in inflight : t.command = c /\ FinishOuter(t))
           /\ WF_laneVars(\E t \in inflight, result \in {"resolved", "rejected"} :
                            t.command = c /\ FinishRun(t, result))

LanesFairSpec == LanesSpec /\ LanesFairness

-----------------------------------------------------------------------------
\* As long as no restart interrupted anything, a run under way holds the slot of
\* its session's lane, and no other run can be given it.
SlotsHeld ==
  ~interrupted =>
    \A t \in inflight : t.command[2] = "global" =>
      lanes[SessionOf[t.command[1]]].active = {<<t.command[1], "session">>}

\* The state is well formed, and a run holds its session.
LanesInv == LanesTypeOK /\ SlotsHeld

\* Every run that was asked for settles: nested entries never wait for each
\* other for ever, in whatever lanes and under whatever limits.
RunsSettle ==
  \A r \in Run : outcome[First(r)] = "pending" ~> (outcome[First(r)] # "pending" \/ interrupted)

\* The abstract state: a run waits until its global entry has started.
Waiting(r) == outcome[<<r, "global">>] \in {"unsent", "pending"} /\ ~InFlight(<<r, "global">>)
Next1(s) == {r \in Run : SessionOf[r] = s /\ InFlight(<<r, "session">>) /\ Waiting(r)}

RunsOf(q) == [i \in DOMAIN q |-> q[i][1]]

Asked == {r \in Run : outcome[<<r, "session">>] \notin {"unsent", "refused"}}
Line ==
  [s \in Session |->
     (IF Next1(s) = {} THEN <<>> ELSE <<CHOOSE r \in Next1(s) : TRUE>>)
       \o RunsOf(lanes[s].queue)]
Running == {r \in Run : InFlight(<<r, "global">>)}

Runs1 == INSTANCE AgentRuns WITH asked <- Asked, line <- Line, running <- Running

\* In a session one run at a time, in the order they were asked for.
ImplementsAgentRuns == Runs1!AbsSpec

\* command-queue.ts:243 "Queued entries are intentionally preserved - they
\* represent pending user work that should still execute after restart": a run
\* that was accepted is not refused for a restart later.
\* The code does not do so, see section 5 of the README.
AcceptedNotRefused ==
  \A r \in Run : outcome[<<r, "session">>] # "refused" => outcome[<<r, "global">>] # "refused"

\* pi-embedded-runner/lanes.ts:10 "Cron jobs hold the cron lane slot; inner
\* operations must use nested to avoid deadlock": no run waits for one that is
\* queued in a lane whose slots are all held by runs that wait.
\* The code does not do so, see section 5 of the README.
NoLaneCycle ==
  \A r \in waits, l \in Lane :
    <<Callee[r], "global">> \in Elements(lanes[l].queue)
      => \E c \in lanes[l].active : c[1] \notin waits

=============================================================================
