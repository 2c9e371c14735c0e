------------------------------ MODULE CronJobs ------------------------------
(***************************************************************************)
(* What the cron service computes about its stored jobs: the next time of  *)
(* a job, which jobs may run, what the result of a run does to a job, and  *)
(* the recomputations of a whole store (src/cron/service/jobs.ts and the   *)
(* job parts of timer.ts).  A store is a function from the ids of the jobs *)
(* it holds.  Time is counted in units, from 1; None stands for undefined. *)
(***************************************************************************)
EXTENDS Naturals, Sequences, FiniteSets, Functions

CONSTANTS
  Period,      \* of the recurring jobs, "every" and "cron" alike
  AtTime,      \* the time of the one-shot jobs
  Backoff,     \* the delay after 1, 2, ... consecutive errors
  MaxAttempts, \* retries of a one-shot after transient errors
  Stuck,       \* age at which a running marker is taken for a left-over
  MaxNow       \* bound of the model: the last moment of the clock

ASSUME CronTimes == {Period, AtTime, Stuck, MaxNow} \subseteq Nat \ {0} /\ MaxAttempts \in Nat
ASSUME BackoffAfterErrors == Backoff \in Seq(Nat \ {0}) /\ Backoff # <<>>

None == 0
Kinds == {"every", "cron", "at"}
Statuses == {"none", "ok", "error"}

\* Times after the last moment are one: never.
Capped(t) == IF t > MaxNow THEN MaxNow + 1 ELSE t
Time == 0..(MaxNow + 1)

Job == [kind : Kinds, enabled : BOOLEAN, next : Time, running : Time, last : Time,
        status : Statuses, errors : Nat]

ErrorBackoff(n) ==
  Backoff[IF n > Len(Backoff) THEN Len(Backoff) ELSE IF n = 0 THEN 1 ELSE n]

SlotAfter(t) == (t \div Period + 1) * Period
SlotBefore(t) == ((t - 1) \div Period) * Period

\* A one-shot that ended well is deleted (the default of deleteAfterRun).
NextRun(r, t) ==
  IF ~r.enabled THEN None
  ELSE IF r.kind = "at" THEN Capped(AtTime)
  ELSE IF r.kind = "every" /\ r.last # None /\ r.last + Period > t THEN Capped(r.last + Period)
  ELSE Capped(SlotAfter(t))

NewJob(kind, t) ==
  LET r == [kind |-> kind, enabled |-> TRUE, next |-> None, running |-> None, last |-> None,
            status |-> "none", errors |-> 0]
  IN  [r EXCEPT !.next = NextRun(r, t)]

-----------------------------------------------------------------------------
Due(r, t) == r.enabled /\ r.next # None /\ t >= r.next

Runnable(r, t) == Due(r, t) /\ r.running = None

\* The backoff of a recurring job that failed has not passed.
BackoffPending(r, t) ==
  r.kind # "at" /\ r.status = "error" /\ r.last # None /\ t < r.last + ErrorBackoff(r.errors)

Missed_NoBackoff(r, t) ==
  /\ r.enabled /\ r.running = None
  /\ IF r.kind = "at" /\ r.status # "none"
     THEN r.status = "error" /\ r.next # None /\ r.next > r.last /\ t >= r.next
     ELSE Due(r, t) \/ (r.kind = "cron" /\ r.last # None /\ SlotBefore(t) > r.last)

\* What the start of a service takes for missed: a one-shot has not run, or
\* waits for a retry; a "cron" job also when a slot has passed since its last run.
Missed(r, t) ==
  /\ r.enabled /\ r.running = None
  /\ IF r.kind = "at" /\ r.status # "none"
     THEN r.status = "error" /\ r.next # None /\ r.next > r.last /\ t >= r.next
     ELSE \/ Due(r, t)
          \/ /\ r.kind = "cron" /\ r.last # None /\ SlotBefore(t) > r.last
             /\ ~(r.next > t /\ BackoffPending(r, t))

Mark(r, t) == [r EXCEPT !.running = t]

-----------------------------------------------------------------------------
(* The result of a run: [job, at, status, ended], where the status of an   *)
(* error says whether a retry may help ("error") or not ("fatal").         *)

IsError(status) == status \in {"error", "fatal"}

Deletes(r, res) == r.kind = "at" /\ res.status = "ok"

\* applyJobResult; preserve is set for a manual run that was forced.
\* MIN_REFIRE_GAP_MS does not show: the next slot of a "cron" job is a later moment than the
\* end of the run, and two moments of this clock are further apart than its two seconds.
ApplyResult(r, res, preserve) ==
  LET errors == IF IsError(res.status) THEN r.errors + 1 ELSE 0
      ran == [r EXCEPT !.running = None, !.last = res.at, !.errors = errors,
                       !.status = IF IsError(res.status) THEN "error" ELSE res.status]
      natural == NextRun(IF preserve THEN [ran EXCEPT !.last = r.last] ELSE ran, res.ended)
      delayed == Capped(res.ended + ErrorBackoff(errors))
      retries == res.status = "error" /\ errors <= MaxAttempts
  IN  IF r.kind = "at"
      THEN IF retries THEN [ran EXCEPT !.next = delayed] ELSE [ran EXCEPT !.enabled = FALSE, !.next = None]
      ELSE [ran EXCEPT !.next = IF r.enabled /\ IsError(res.status) /\ delayed > natural
                                THEN delayed ELSE natural]

\* applyOutcomeToStoredJob, for each result of a batch; that of a job which is
\* no longer in the store is discarded.
ApplyAll(store, results) ==
  LET resultOf(j) == {res \in results : res.job = j}
      kept == {j \in DOMAIN store : \A res \in resultOf(j) : ~Deletes(store[j], res)}
  IN  [j \in kept |-> IF resultOf(j) = {} THEN store[j]
                      ELSE ApplyResult(store[j], CHOOSE res \in resultOf(j) : TRUE, FALSE)]

-----------------------------------------------------------------------------
\* normalizeJobTickState: a disabled job has neither a time nor a marker, and a
\* marker of a certain age is taken for a left-over.
StuckMark(r, t) == r.running # None /\ t > r.running + Stuck

Normalized(r, t) ==
  [r EXCEPT !.next = IF r.enabled THEN r.next ELSE None,
            !.running = IF r.enabled /\ ~StuckMark(r, t) THEN r.running ELSE None]

\* The slot at which the job is due has been run.
SlotExecuted(r) == r.last # None /\ r.last >= r.next

RecomputeNextRuns(store, t) ==
  [j \in DOMAIN store |->
     LET r == Normalized(store[j], t)
     IN  IF r.enabled /\ (r.next = None \/ t >= r.next) THEN [r EXCEPT !.next = NextRun(r, t)] ELSE r]

MaintenanceRecompute_Advances(store, t, expired) == RecomputeNextRuns(store, t)

\* recomputeNextRunsForMaintenance
MaintenanceRecompute(store, t, expired) ==
  [j \in DOMAIN store |->
     LET r == Normalized(store[j], t)
         advance == expired /\ t >= r.next /\ r.running = None /\ SlotExecuted(r)
     IN  IF r.enabled /\ (r.next = None \/ advance) THEN [r EXCEPT !.next = NextRun(r, t)] ELSE r]

\* nextWakeAtMs: there is a job to wake up for.
Wakes(store) == \E j \in DOMAIN store : store[j].enabled /\ store[j].next # None

\* isJobDue
MayRunManually(r, t, forced) == r.running = None /\ (forced \/ Due(r, t))
=============================================================================
