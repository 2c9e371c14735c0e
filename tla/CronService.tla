---------------------------- MODULE CronService ----------------------------
(***************************************************************************)
(* The cron service (src/cron/service): a store of jobs on disk, a copy of *)
(* it in the memory of each service, a timer, the start with its catch-up  *)
(* of missed jobs, the edits and the manual runs of the gateway's clients. *)
(* locked() puts the sections that touch the store one after the other, so *)
(* each section is one action; the jobs run between them.  A change of the *)
(* cron configuration stops the service and starts a second one over the   *)
(* same file, while the clients keep the first.                            *)
(***************************************************************************)
EXTENDS CronJobs, Sequences, SequencesExt

CONSTANTS
  Jobs,         \* ids, numbered in the order in which they enter the store
  Kind,         \* their kinds
  MaxConcurrentRuns,
  MaxMissedJobsPerRestart,
  StaggerUnits, \* delay between the missed jobs that a start puts off
  MaxReloads,   \* bound of the model: changes of the cron configuration
  MaxOps        \* bound of the model: edits, manual runs, crashes and reloads

ASSUME CronInstance ==
  /\ Jobs \subseteq Nat \ {0} /\ IsFiniteSet(Jobs) /\ Kind \in [Jobs -> Kinds]
  /\ {MaxConcurrentRuns, StaggerUnits} \subseteq Nat \ {0}
  /\ {MaxMissedJobsPerRestart, MaxOps} \subseteq Nat /\ MaxReloads \in 0..1

VARIABLES
  now,     \* the clock
  disk,    \* the store on disk
  mem,     \* the store in the memory of each service
  timer,   \* the services with an armed timer
  tick,    \* what onTimer is doing, per service
  boot,    \* what start is doing, per service
  manual,  \* the manual run that a client has asked for
  current, \* how many services this process has built
  unborn,  \* the jobs that have not been added yet
  ops,     \* counts what MaxOps bounds
  loose,   \* history: jobs that were disabled, or marked for too long, while taken
  moved,   \* history: jobs whose time a client or a start that put them off has changed; all, after a reload
  done     \* history: one-shots that were deleted after a run that went well

cronVars == <<now, disk, mem, timer, tick, boot, manual, current, unborn, ops, loose, moved, done>>

Service == {1, 2}
Client == 1 \* the service that the request context holds
IsStore(f) == DOMAIN f \subseteq Jobs /\ \A j \in DOMAIN f : f[j] \in Job

\* The jobs of a tick or of a catch-up: those that wait, run and have ended.
NoBatch(stage) ==
  [stage |-> stage, queue |-> <<>>, cur |-> {}, results |-> {}, own |-> FALSE, skip |-> {}, late |-> <<>>]
NoManual == [stage |-> "none", job |-> 0, force |-> FALSE, at |-> 0, status |-> "ok", ended |-> 0]

CronInit ==
  /\ now = 1
  /\ unborn \in SUBSET Jobs /\ \A i \in unborn, j \in Jobs \ unborn : j < i
  /\ disk = [j \in Jobs \ unborn |-> NewJob(Kind[j], now)]
  /\ mem = [s \in Service |-> <<>>]
  /\ timer = {}
  /\ tick = [s \in Service |-> NoBatch("idle")]
  /\ boot = [s \in Service |-> NoBatch(IF s = Client THEN "clear" ELSE "off")]
  /\ manual = NoManual /\ current = 1 /\ ops = 0 /\ loose = {} /\ moved = {} /\ done = {}

-----------------------------------------------------------------------------
\* The runs under way, and those of a job.
Runs == (UNION {{<<"tick", s, r>> : r \in tick[s].cur} \cup {<<"boot", s, r>> : r \in boot[s].cur} : s \in Service})
          \cup {<<"manual", Client, [job |-> m.job, at |-> m.at]>> : m \in {x \in {manual} : x.stage = "run"}}
RunsOf(j) == {run \in Runs : run[3].job = j}

\* The job has been marked and its result is not applied yet.
Taken(j) ==
  \/ manual.stage \in {"run", "finish"} /\ manual.job = j
  \/ \E s \in Service : \E b \in {tick[s], boot[s]} :
       b.stage \in {"run", "apply"} /\ j \in Range(b.queue) \cup {r.job : r \in b.cur \cup b.results}

Persist(s, store) == disk' = store /\ mem' = [mem EXCEPT ![s] = store]

MarkAll(store, J) == [j \in DOMAIN store |-> IF j \in J THEN Mark(store[j], now) ELSE store[j]]

\* The jobs of J as a sequence in which each comes before the next.
InOrder(J, Before(_, _)) == {q \in SetToSeqs(J) : \A i, k \in DOMAIN q : i < k => Before(q[i], q[k])}

\* armTimer: the timer may fire at any moment, as its delay is at most a minute.
Arm(s, store) == timer' = IF Wakes(store) THEN timer \cup {s} ELSE timer \ {s}

\* The workers take the first jobs of a queue.
Begin(b, queue, workers) ==
  LET n == IF Len(queue) < workers THEN Len(queue) ELSE workers
  IN  [b EXCEPT !.cur = {[job |-> queue[i], at |-> now] : i \in 1..n},
                !.queue = SubSeq(queue, n + 1, Len(queue))]

\* A run ends and its worker takes the next job.
EndRun(b, r, status) ==
  LET first == IF b.queue = <<>> THEN {} ELSE {[job |-> Head(b.queue), at |-> now]}
      rest == (b.cur \ {r}) \cup first
  IN  [b EXCEPT !.cur = rest, !.queue = IF b.queue = <<>> THEN <<>> ELSE Tail(b.queue),
                !.results = @ \cup {[job |-> r.job, at |-> r.at, status |-> status, ended |-> now]},
                !.stage = IF rest = {} THEN "apply" ELSE @]

\* No error of a recurring job is final; a skipped run has the effect of one that
\* went well there, and of a final error for a one-shot.
Outcomes(j) == IF Kind[j] = "at" THEN {"ok", "error", "fatal"} ELSE {"ok", "error"}

-----------------------------------------------------------------------------
(* onTimer *)

\* A tick begins and keeps a watchdog armed; while a tick is running, the timer
\* is only armed again.
TimerFires(s) ==
  /\ s \in timer /\ tick[s].stage = "idle"
  /\ tick' = [tick EXCEPT ![s] = NoBatch("collect")]
  /\ UNCHANGED <<now, disk, mem, timer, boot, manual, current, unborn, ops>>

CollectRunnable(store) == InOrder({j \in DOMAIN store : Runnable(store[j], now)}, <)

TickCollect(s) ==
  /\ tick[s].stage = "collect"
  /\ \E due \in CollectRunnable(disk) :
       IF due = <<>>
       THEN /\ Persist(s, MaintenanceRecompute(disk, now, TRUE))
            /\ tick' = [tick EXCEPT ![s].stage = "end"]
       ELSE /\ Persist(s, MarkAll(disk, Range(due)))
            /\ tick' = [tick EXCEPT ![s] = Begin([@ EXCEPT !.stage = "run", !.own = TRUE], due, MaxConcurrentRuns)]
  /\ UNCHANGED <<now, timer, boot, manual, current, unborn, ops>>

\* runDueJob marks the job object it was given: while the service has not loaded
\* the store again, that is the one in its memory.
TickRunEnd(s, r, status) ==
  LET b == EndRun(tick[s], r, status)
      began == {run.job : run \in b.cur \ tick[s].cur}
  IN  /\ tick[s].stage = "run" /\ r \in tick[s].cur
      /\ tick' = [tick EXCEPT ![s] = b]
      /\ mem' = IF tick[s].own THEN [mem EXCEPT ![s] = MarkAll(@, began)] ELSE mem
      /\ UNCHANGED <<now, disk, timer, boot, manual, current, unborn, ops>>

\* The results are applied when all the jobs of the tick have ended.
TickApply(s) ==
  /\ tick[s].stage = "apply"
  /\ Persist(s, MaintenanceRecompute(ApplyAll(disk, tick[s].results), now, FALSE))
  /\ tick' = [tick EXCEPT ![s] = NoBatch("end")]
  /\ UNCHANGED <<now, timer, boot, manual, current, unborn, ops>>

\* The finally block; it arms the timer of a stopped service as well.
TickEnd_FutureOnly(s) ==
  /\ tick[s].stage = "end"
  /\ tick' = [tick EXCEPT ![s] = NoBatch("idle")]
  /\ timer' = IF \E j \in DOMAIN mem[s] : mem[s][j].enabled /\ mem[s][j].next > now
              THEN timer \cup {s} ELSE timer \ {s}
  /\ UNCHANGED <<now, disk, mem, boot, manual, current, unborn, ops>>

TickEnd(s) ==
  /\ tick[s].stage = "end"
  /\ tick' = [tick EXCEPT ![s] = NoBatch("idle")]
  /\ Arm(s, mem[s])
  /\ UNCHANGED <<now, disk, mem, boot, manual, current, unborn, ops>>

-----------------------------------------------------------------------------
(* start *)

\* Markers are left over from an earlier process; their jobs are not caught up.
BootClear(s) ==
  LET marked == {j \in DOMAIN disk : disk[j].running # None}
  IN  /\ boot[s].stage = "clear"
      /\ Persist(s, [j \in DOMAIN disk |-> Mark(disk[j], None)])
      /\ boot' = [boot EXCEPT ![s] = [NoBatch("plan") EXCEPT !.skip = marked]]
      /\ UNCHANGED <<now, timer, tick, manual, current, unborn, ops>>

\* planStartupCatchup: the jobs that are overdue for longest run at once.
PlanMissed(s, missed) ==
  LET n == IF Len(missed) < MaxMissedJobsPerRestart THEN Len(missed) ELSE MaxMissedJobsPerRestart
      chosen == SubSeq(missed, 1, n)
      b == [boot[s] EXCEPT !.late = SubSeq(missed, n + 1, Len(missed))]
  IN  IF missed = <<>>
      THEN boot' = [boot EXCEPT ![s].stage = "final"] /\ UNCHANGED <<disk, mem>>
      ELSE /\ Persist(s, MarkAll(mem[s], Range(chosen)))
           /\ boot' = [boot EXCEPT ![s] =
                         IF n = 0 THEN [b EXCEPT !.stage = "apply"] ELSE Begin([b EXCEPT !.stage = "run"], chosen, 1)]

BootPlan(s) ==
  LET store == mem[s]
      Before(i, j) == store[i].next < store[j].next \/ (store[i].next = store[j].next /\ i < j)
  IN  /\ boot[s].stage = "plan"
      /\ \E missed \in InOrder({j \in DOMAIN store \ boot[s].skip : Missed(store[j], now)}, Before) :
           PlanMissed(s, missed)
      /\ UNCHANGED <<now, timer, tick, manual, current, unborn, ops>>

BootRunEnd(s, r, status) ==
  /\ boot[s].stage = "run" /\ r \in boot[s].cur
  /\ boot' = [boot EXCEPT ![s] = EndRun(@, r, status)]
  /\ UNCHANGED <<now, disk, mem, timer, tick, manual, current, unborn, ops>>

\* The jobs put off, one after the other; those that are gone or disabled are left out.
Staggered(store, late) ==
  LET there == {j \in DOMAIN store : j \in Range(late) /\ store[j].enabled}
      UpTo(j) == {i \in DOMAIN late : late[i] \in there /\ \E k \in DOMAIN late : i <= k /\ late[k] = j}
  IN  [j \in DOMAIN store |->
         IF j \in there
         THEN [store[j] EXCEPT !.next = Capped(now + StaggerUnits * Cardinality(UpTo(j)))]
         ELSE store[j]]

\* The store is read again, and a job object held by a tick is no longer in it.
Reread(s) == tick' = [tick EXCEPT ![s].own = FALSE]

BootApply(s) ==
  /\ boot[s].stage = "apply"
  /\ Persist(s, MaintenanceRecompute(Staggered(ApplyAll(disk, boot[s].results), boot[s].late), now, FALSE))
  /\ boot' = [boot EXCEPT ![s].stage = "final"]
  /\ Reread(s)
  /\ UNCHANGED <<now, timer, manual, current, unborn, ops>>

BootFinal(s) ==
  /\ boot[s].stage = "final"
  /\ LET store == RecomputeNextRuns(disk, now) IN Persist(s, store) /\ Arm(s, store)
  /\ boot' = [boot EXCEPT ![s] = NoBatch("up")]
  /\ Reread(s)
  /\ UNCHANGED <<now, manual, current, unborn, ops>>

-----------------------------------------------------------------------------
(* The requests of the clients *)

\* start has put its first section into the queue of the lock before any request.
Serving == boot[Client].stage \notin {"off", "clear"}

Spend == ops < MaxOps /\ ops' = ops + 1

\* add recomputes every job whose time has come.
WithJob(store, j, r) == [i \in DOMAIN store \cup {j} |-> IF i = j THEN r ELSE store[i]]

AddJob(j) ==
  LET store == RecomputeNextRuns(WithJob(mem[Client], j, NewJob(Kind[j], now)), now)
  IN  /\ Serving /\ j \in unborn /\ \A i \in unborn : j <= i
      /\ unborn' = unborn \ {j}
      /\ Persist(Client, store) /\ Arm(Client, store)
      /\ UNCHANGED <<now, tick, boot, manual, current, ops>>

\* update: a patch that enables or reschedules a job, one that disables it, or
\* another one, which only repairs a missing time.
Patched(r, patch) ==
  LET on == [r EXCEPT !.enabled = TRUE]
  IN  IF patch = "disable" THEN [r EXCEPT !.enabled = FALSE, !.next = None, !.running = None]
      ELSE IF patch = "enable" THEN [on EXCEPT !.next = NextRun(on, now)]
      ELSE IF r.enabled /\ r.next = None THEN [r EXCEPT !.next = NextRun(r, now)] ELSE r

UpdateJob(j, patch) ==
  /\ Serving /\ Spend /\ j \in DOMAIN mem[Client]
  /\ LET store == [mem[Client] EXCEPT ![j] = Patched(@, patch)] IN Persist(Client, store) /\ Arm(Client, store)
  /\ UNCHANGED <<now, tick, boot, manual, current, unborn>>

RemoveJob(j) ==
  /\ Serving /\ Spend /\ j \in DOMAIN mem[Client]
  /\ LET store == Restrict(mem[Client], DOMAIN mem[Client] \ {j}) IN Persist(Client, store) /\ Arm(Client, store)
  /\ UNCHANGED <<now, tick, boot, manual, current, unborn>>

\* The maintenance of the clients' store, which does not run what is due.
Maintained == MaintenanceRecompute(mem[Client], now, FALSE)

\* list and status write the store when the maintenance changes something.
Read ==
  /\ Serving /\ Maintained # mem[Client]
  /\ Persist(Client, Maintained)
  /\ UNCHANGED <<now, timer, tick, boot, manual, current, unborn, ops>>

-----------------------------------------------------------------------------
(* A manual run: it is checked when it is asked for, again when the cron lane *)
(* has a slot, and reserved in a section of its own.  The model has one at a  *)
(* time.                                                                      *)

\* inspectManualRunPreflight, which maintains the store in memory only.
Preflight(j, force) == j \in DOMAIN Maintained /\ MayRunManually(Maintained[j], now, force)

EnqueueRun(j, force) ==
  /\ Serving /\ Spend /\ manual.stage = "none" /\ j \in DOMAIN mem[Client]
  /\ manual' = IF Preflight(j, force)
               THEN [NoManual EXCEPT !.stage = "queued", !.job = j, !.force = force] ELSE NoManual
  /\ mem' = [mem EXCEPT ![Client] = Maintained]
  /\ UNCHANGED <<now, disk, timer, tick, boot, current, unborn>>

\* The lane has a slot; the job may be gone, running or no longer due.
RunCheck ==
  /\ manual.stage = "queued"
  /\ manual' = IF Preflight(manual.job, manual.force)
               THEN [manual EXCEPT !.stage = "checked", !.at = now] ELSE NoManual
  /\ mem' = [mem EXCEPT ![Client] = Maintained]
  /\ UNCHANGED <<now, disk, timer, tick, boot, current, unborn, ops>>

RunReserve_Unchecked ==
  /\ manual.stage = "checked"
  /\ IF manual.job \in DOMAIN mem[Client]
     THEN /\ Persist(Client, [mem[Client] EXCEPT ![manual.job] = Mark(@, manual.at)])
          /\ manual' = [manual EXCEPT !.stage = "run"]
     ELSE manual' = NoManual /\ UNCHANGED <<disk, mem>>
  /\ UNCHANGED <<now, timer, tick, boot, current, unborn, ops>>

RunReserve ==
  /\ manual.stage = "checked"
  /\ IF manual.job \in DOMAIN mem[Client] /\ mem[Client][manual.job].running = None
     THEN /\ Persist(Client, [mem[Client] EXCEPT ![manual.job] = Mark(@, manual.at)])
          /\ manual' = [manual EXCEPT !.stage = "run"]
     ELSE manual' = NoManual /\ UNCHANGED <<disk, mem>>
  /\ UNCHANGED <<now, timer, tick, boot, current, unborn, ops>>

ManualRunEnd(status) ==
  /\ manual' = [manual EXCEPT !.stage = "finish", !.status = status, !.ended = now]
  /\ UNCHANGED <<now, disk, mem, timer, tick, boot, current, unborn, ops>>

\* mergeManualRunSnapshotAfterReload: the job as the run has left it, over the
\* store as it is on disk by now.
Merged(store, j, r, removed) ==
  IF removed THEN Restrict(store, DOMAIN store \ {j}) ELSE [i \in DOMAIN store |-> IF i = j THEN r ELSE store[i]]

RunFinish ==
  LET j == manual.job
      r == mem[Client][j]
      merged == Merged(disk, j, ApplyResult(r, manual, manual.force), Deletes(r, manual))
      store == MaintenanceRecompute(merged, now, TRUE)
  IN  /\ manual.stage = "finish" /\ manual' = NoManual
      /\ IF j \in DOMAIN mem[Client]
         THEN Persist(Client, store) /\ Arm(Client, store) /\ Reread(Client)
         ELSE UNCHANGED <<disk, mem, timer, tick>>
      /\ UNCHANGED <<now, boot, current, unborn, ops>>

-----------------------------------------------------------------------------
(* The process *)

\* A change of the cron configuration: the timer of the old service is stopped,
\* what it is doing goes on, and the clients keep it.
ReloadConfig ==
  /\ Serving /\ Spend /\ current <= MaxReloads
  /\ timer' = timer \ {Client}
  /\ current' = 2
  /\ boot' = [boot EXCEPT ![2] = NoBatch("clear")]
  /\ UNCHANGED <<now, disk, mem, tick, manual, unborn>>

\* The process ends at any moment, and another one starts.
Crash ==
  /\ Spend
  /\ mem' = [s \in Service |-> <<>>] /\ timer' = {}
  /\ tick' = [s \in Service |-> NoBatch("idle")]
  /\ boot' = [s \in Service |-> NoBatch(IF s = Client THEN "clear" ELSE "off")]
  /\ manual' = NoManual /\ current' = 1
  /\ UNCHANGED <<now, disk, unborn>>

TimePasses ==
  /\ now < MaxNow /\ now' = now + 1
  /\ UNCHANGED <<disk, mem, timer, tick, boot, manual, current, unborn, ops>>

TickStep(s) ==
  \/ TimerFires(s) \/ TickCollect(s) \/ TickApply(s) \/ TickEnd(s)
  \/ \E r \in tick[s].cur : \E status \in Outcomes(r.job) : TickRunEnd(s, r, status)

BootStep(s) ==
  \/ BootClear(s) \/ BootPlan(s) \/ BootApply(s) \/ BootFinal(s)
  \/ \E r \in boot[s].cur : \E status \in Outcomes(r.job) : BootRunEnd(s, r, status)

ManualStep ==
  \/ RunCheck \/ RunReserve \/ RunFinish
  \/ manual.stage = "run" /\ \E status \in Outcomes(manual.job) : ManualRunEnd(status)

Request ==
  \/ \E j \in Jobs : AddJob(j) \/ RemoveJob(j)
  \/ \E j \in Jobs, patch \in {"enable", "disable", "other"} : UpdateJob(j, patch)
  \/ \E j \in Jobs, force \in BOOLEAN : EnqueueRun(j, force)
  \/ Read

\* A job whose marker may be removed before its result is applied: it is disabled, or the
\* marker is as old as one that a crash has left.
MarkerAtRisk(j) ==
  \E store \in {disk} \cup {mem[s] : s \in Service} :
    j \in DOMAIN store /\ (~store[j].enabled \/ StuckMark(store[j], now))

EndedWell(j) ==
  \/ manual.stage = "finish" /\ manual.job = j /\ manual.status = "ok"
  \/ \E s \in Service : \E b \in {tick[s], boot[s]} :
       b.stage = "apply" /\ \E r \in b.results : r.job = j /\ r.status = "ok"

\* A start gives a missed job that it has no room for another time.
PutsOff(j) == \E s \in Service : boot'[s] # boot[s] /\ boot[s].stage = "apply" /\ j \in Range(boot[s].late)

Tracked ==
  /\ loose' = {j \in Jobs : Taken(j)' /\ (j \in loose \/ MarkerAtRisk(j)')}
  /\ moved' = IF current' = 2 THEN Jobs
              ELSE moved \cup {j \in DOMAIN disk \cap DOMAIN disk' :
                                 disk'[j].next # disk[j].next /\ (ops' # ops \/ PutsOff(j))}
  /\ done' = done \cup {j \in DOMAIN disk \ DOMAIN disk' : Kind[j] = "at" /\ EndedWell(j)}

CronNext ==
  /\ \/ \E s \in Service : TickStep(s) \/ BootStep(s)
     \/ ManualStep \/ Request
     \/ ReloadConfig \/ Crash \/ TimePasses
  /\ Tracked

\* An armed timer fires, a section gets its turn, and a run ends: every job has
\* a timeout unless it is configured to have none.
CronFairness ==
  /\ \A s \in Service : WF_cronVars(TickStep(s) /\ Tracked) /\ WF_cronVars(BootStep(s) /\ Tracked)
  /\ WF_cronVars(ManualStep /\ Tracked)

CronSpec == CronInit /\ [][CronNext]_cronVars /\ CronFairness

-----------------------------------------------------------------------------
CronTypeOK ==
  /\ now \in 1..MaxNow /\ IsStore(disk) /\ (\A s \in Service : IsStore(mem[s])) /\ timer \subseteq Service
  /\ unborn \subseteq Jobs \ DOMAIN disk
  /\ \A s \in Service :
       /\ tick[s].stage \in {"idle", "collect", "run", "apply", "end"}
       /\ boot[s].stage \in {"off", "clear", "plan", "run", "apply", "final", "up"}
       /\ Cardinality(tick[s].cur) <= MaxConcurrentRuns /\ Cardinality(boot[s].cur) <= 1

\* While a process has one service, two runs of a job are under way only when the
\* job was disabled since it was taken, or its marker reached the age of a left-over.
OneRunAtATime == current = 1 => \A j \in Jobs \ loose : Cardinality(RunsOf(j)) <= 1

\* The variables have their types, and a job runs once at a time: the ticks, the
\* catch-up and the manual runs keep out of each other's way by the markers.
CronInv == CronTypeOK /\ OneRunAtATime

\* A client edits or adds a job, or a start puts off the jobs it has no room for
\* and recomputes the times of all.
Reschedules(j) ==
  \/ unborn' # unborn
  \/ ops' # ops
  \/ PutsOff(j)
  \/ \E s \in Service : boot'[s] # boot[s] /\ boot[s].stage = "final"

\* A slot of an idle job whose time has come and that has not been run is not passed over by a
\* tick, by the results of a tick or a catch-up, by a read or by a manual run.
DueNotSkipped ==
  [][\A j \in DOMAIN disk \cap DOMAIN disk' :
       Due(disk[j], now) /\ ~SlotExecuted(disk[j]) /\ disk'[j].enabled
         /\ ~Taken(j) /\ disk'[j].next # disk[j].next
       => Reschedules(j) \/ current = 2]_cronVars

\* After an error, neither a tick nor a catch-up starts a job before its backoff has
\* passed, also when the process starts again in the meantime.
BackoffKept ==
  [][\A s \in Service : \A r \in (tick'[s].cur \cup boot'[s].cur) \ (tick[s].cur \cup boot[s].cur) :
       r.job \in DOMAIN disk \ (moved \cup loose) /\ disk[r.job].status = "error"
         => now >= disk[r.job].last + ErrorBackoff(disk[r.job].errors)]_cronVars

\* A job whose time has come is dealt with: it runs to its end, or is edited.
DueDealtWith ==
  \A j \in Jobs :
    (j \in DOMAIN disk /\ Due(disk[j], now) /\ current = 1)
      ~> (j \notin DOMAIN disk \/ ~Due(disk[j], now) \/ current = 2)

\* timer.ts, applyStartupCatchupOutcomes: a time that has come while the catch-up
\* was running should execute on a future tick instead of being silently advanced.
\* The code does not do so, see section 5 of the README.
CatchupDueKept ==
  [][\A s \in Service : \A j \in DOMAIN disk \cap DOMAIN disk' :
       boot[s].stage = "final" /\ boot'[s].stage = "up" /\ boot[s].results # {} /\ j \notin boot[s].skip
         /\ Due(disk[j], now) /\ ~SlotExecuted(disk[j])
       => disk'[j].next = disk[j].next]_cronVars

\* docs/automation/cron-jobs.md: one-shot jobs delete after success; a job that was
\* deleted for that is not started again.
\* The code does not do so, see section 5 of the README.
OneShotOnce ==
  [][\A j \in done : RunsOf(j)' \subseteq RunsOf(j)]_cronVars
=============================================================================
