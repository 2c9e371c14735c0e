-------------------------- MODULE CronServiceProofs --------------------------
(***************************************************************************)
(* Safety of the cron service, for any finite set of jobs of any kinds,    *)
(* any numbers of workers, of catch-up runs per start, of retries and of   *)
(* operations, and any list of backoffs.                                   *)
(*                                                                         *)
(* A job that a tick, a catch-up or a manual run of the only service has   *)
(* taken carries a marker on disk and in memory, and no other of the three *)
(* has it (Markers), unless it is loose.  Every action either keeps the    *)
(* holders and the markers of a job (Remains) or takes a job that one of   *)
(* the stores shows to be free (Taking); CronCorrect follows.              *)
(*                                                                         *)
(* For the two action properties, the copy in memory agrees with the disk: *)
(* in the times (SameTimes), so that a section that writes the copy does   *)
(* not bring back an older time; and, up to the first change of the cron   *)
(* configuration, in all that a backoff depends on (BackoffInv).           *)
(***************************************************************************)
EXTENDS CronService, FunctionTheorems, FiniteSetTheorems, SequenceTheorems, TLAPS

\* The records of the variables.
Moment == 1..MaxNow
RunSet == [job : Jobs, at : Moment]
ResultStatus == {"ok", "error", "fatal"}
ResultSet == [job : Jobs, at : Moment, status : ResultStatus, ended : Moment]
BatchSet(stages) ==
  [stage : stages, queue : Seq(Jobs), cur : SUBSET RunSet, results : SUBSET ResultSet, own : BOOLEAN,
   skip : SUBSET Jobs, late : Seq(Jobs)]
TickStages == {"idle", "collect", "run", "apply", "end"}
BootStages == {"off", "clear", "plan", "run", "apply", "final", "up"}
Stores == UNION {[D -> Job] : D \in SUBSET Jobs}
ManualSet ==
  [stage : {"none", "queued", "checked", "run", "finish"}, job : Jobs \cup {0}, force : BOOLEAN,
   at : Moment \cup {0}, status : ResultStatus, ended : Moment \cup {0}]

ManualOK ==
  /\ manual.stage # "none" => manual.job \in Jobs
  /\ manual.stage \in {"checked", "run", "finish"} => manual.at \in Moment
  /\ manual.stage = "finish" => manual.ended \in Moment

Types ==
  /\ now \in Moment /\ disk \in Stores /\ mem \in [Service -> Stores] /\ timer \subseteq Service
  /\ tick \in [Service -> BatchSet(TickStages)] /\ boot \in [Service -> BatchSet(BootStages)]
  /\ manual \in ManualSet /\ ManualOK
  /\ current \in {1, 2} /\ unborn \subseteq Jobs /\ ops \in Nat /\ loose \subseteq Jobs

NoRepeats(q) == \A i, k \in DOMAIN q : q[i] = q[k] => i = k

\* A batch: only while its jobs run do some of them wait, and a job is in one place.
BatchOK(b, workers) ==
  /\ IsFiniteSet(b.cur) /\ Cardinality(b.cur) <= workers
  /\ b.stage # "run" => b.cur = {} /\ b.queue = <<>>
  /\ b.stage \in {"collect", "plan"} => b.results = {}
  /\ NoRepeats(b.queue)
  /\ \A r \in b.cur : \A i \in DOMAIN b.queue : b.queue[i] # r.job
  /\ \A r1, r2 \in b.cur : r1.job = r2.job => r1 = r2

BatchesOK == \A s \in Service : BatchOK(tick[s], MaxConcurrentRuns) /\ BatchOK(boot[s], 1)

\* The jobs that a batch has marked and whose results it has not applied yet.
Waits(b, j) == \E i \in DOMAIN b.queue : b.queue[i] = j
RunsNow(b, j) == \E r \in b.cur : r.job = j
HasResult(b, j) == \E r \in b.results : r.job = j
Holds(b, j) == b.stage \in {"run", "apply"} /\ (Waits(b, j) \/ RunsNow(b, j) \/ HasResult(b, j))
ManualHolds(j) == manual.stage \in {"run", "finish"} /\ manual.job = j

\* A process with one service, and one that has just been started.
Alone ==
  current = 1 => 2 \notin timer /\ tick[2].stage = "idle" /\ boot[2].stage = "off" /\ DOMAIN mem[2] = {}
Fresh == boot[1].stage = "clear" => 1 \notin timer /\ tick[1].stage = "idle" /\ manual.stage = "none"

\* Jobs that have not been added are nowhere.
Unborn ==
  \A j \in unborn :
    /\ j \notin DOMAIN disk /\ ~ManualHolds(j)
    /\ \A s \in Service : j \notin DOMAIN mem[s] /\ ~Holds(tick[s], j) /\ ~Holds(boot[s], j)

\* What keeps the ticks, the catch-up and the manual runs out of each other's way: the job
\* that one of them has taken carries a marker, on disk and in memory, and no other has it.
HasMarker(store, j) == j \in DOMAIN store => store[j].running # None
OneHolder(j) ==
  /\ ~(ManualHolds(j) /\ Holds(tick[1], j))
  /\ ~(ManualHolds(j) /\ Holds(boot[1], j))
  /\ ~(Holds(tick[1], j) /\ Holds(boot[1], j))
Markers ==
  \A j \in Jobs \ loose :
    Taken(j) => /\ ~MarkerAtRisk(j)
                /\ current = 1 => HasMarker(disk, j) /\ HasMarker(mem[1], j) /\ OneHolder(j)

Basics == Types /\ BatchesOK /\ Alone /\ Fresh /\ Unborn
IInv == Basics /\ Markers

\* The copy in memory has the times that are on disk.
SameTimes ==
  current = 1 =>
    \A j \in DOMAIN disk \cap DOMAIN mem[1] :
      disk[j].enabled /\ disk[j].next # None => mem[1][j].enabled /\ mem[1][j].next = disk[j].next

\* What every step that writes a store does to the marker and to the time of a job.
MarkerKept(f, g, j, t) ==
  /\ j \in DOMAIN f
  /\ f[j].enabled /\ ~StuckMark(f[j], t) /\ f[j].running # None /\ g[j].enabled => g[j].running # None
TimeKept(f, g, j) == j \in DOMAIN f /\ (g[j].enabled => g[j].next = f[j].next)

\* The same for the jobs that are taken: a step keeps their markers, or sets them.
Carried(g, j) ==
  j \in DOMAIN g => \/ MarkerKept(disk, g, j, now) \/ MarkerKept(mem[1], g, j, now) \/ g[j].running # None
Remains(j) ==
  /\ ManualHolds(j)' => ManualHolds(j)
  /\ Holds(tick'[1], j) => Holds(tick[1], j)
  /\ Holds(boot'[1], j) => Holds(boot[1], j)
  /\ OneHolder(j) /\ (ManualHolds(j)' \/ Holds(tick'[1], j) \/ Holds(boot'[1], j))
     => Carried(disk', j) /\ Carried(mem'[1], j)
Taking(j) ==
  /\ \/ j \in DOMAIN disk /\ disk[j].running = None
     \/ j \in DOMAIN mem[1] /\ mem[1][j].running = None
  /\ HasMarker(disk', j) /\ HasMarker(mem'[1], j)
  /\ ~(ManualHolds(j) \/ Holds(tick[1], j) \/ Holds(boot[1], j)) => OneHolder(j)'
MarkerStep(j) == Remains(j) \/ Taking(j)

-----------------------------------------------------------------------------
(* What the operators of CronJobs return. *)

LEMMA CappedTime == ASSUME NEW t \in Nat PROVE Capped(t) \in Time
  BY CronTimes DEF Capped, Time

LEMMA MomentTime == ASSUME NEW t \in Moment PROVE t \in Time /\ t \in Nat /\ t # None
  BY CronTimes DEF Moment, Time, None

LEMMA TimeNat == ASSUME NEW t \in Time PROVE t \in Nat
  BY CronTimes DEF Time

LEMMA BackoffNat == ASSUME NEW n \in Nat PROVE ErrorBackoff(n) \in Nat
  BY BackoffAfterErrors DEF ErrorBackoff

LEMMA SlotNat == ASSUME NEW t \in Nat PROVE SlotAfter(t) \in Nat
<1>1. Period \in Nat \ {0}
  BY CronTimes
<1>2. t \div Period \in Nat
  BY <1>1
<1>3. ASSUME NEW a \in Nat PROVE (a + 1) * Period \in Nat
  BY <1>1
<1> QED
  BY <1>2, <1>3 DEF SlotAfter

LEMMA NextRunTime == ASSUME NEW r \in Job, NEW t \in Nat PROVE NextRun(r, t) \in Time
<1>1. r.last \in Nat /\ Period \in Nat /\ AtTime \in Nat
  BY CronTimes, TimeNat DEF Job
<1>2. Capped(AtTime) \in Time /\ Capped(r.last + Period) \in Time /\ Capped(SlotAfter(t)) \in Time
  BY <1>1, CappedTime, SlotNat
<1>3. None \in Time
  BY CronTimes DEF None, Time
<1> QED
  BY <1>2, <1>3 DEF NextRun

LEMMA NoneTime == None \in Time
  BY CronTimes DEF None, Time

\* A new job is a job, without a marker.
LEMMA NewJobTyped ==
  ASSUME NEW k \in Kinds, NEW t \in Nat PROVE NewJob(k, t) \in Job /\ NewJob(k, t).running = None
<1> DEFINE r == [kind |-> k, enabled |-> TRUE, next |-> None, running |-> None, last |-> None,
                 status |-> "none", errors |-> 0]
<1>1. r \in Job
  BY NoneTime DEF Job, Statuses
<1>2. NewJob(k, t) = [r EXCEPT !.next = NextRun(r, t)]
  BY DEF NewJob
<1>3. NextRun(r, t) \in Time
  BY <1>1, NextRunTime
<1>4. r.running = None
  OBVIOUS
<1> HIDE DEF r
<1> QED
  BY <1>1, <1>2, <1>3, <1>4 DEF Job

\* Every change of a time leaves the rest of a job as it is.
LEMMA WithNext ==
  ASSUME NEW r \in Job, NEW x \in Time
  PROVE  LET r2 == [r EXCEPT !.next = x]
         IN  r2 \in Job /\ r2.enabled = r.enabled /\ r2.running = r.running /\ r2.next = x
  BY DEF Job

LEMMA MarkTyped ==
  ASSUME NEW r \in Job, NEW x \in Time
  PROVE  /\ Mark(r, x) \in Job /\ Mark(r, x).running = x /\ Mark(r, x).enabled = r.enabled
         /\ Mark(r, x).next = r.next
  BY DEF Job, Mark

LEMMA NormalizedTyped ==
  ASSUME NEW r \in Job, NEW t \in Nat
  PROVE  LET n == Normalized(r, t)
         IN  /\ n \in Job /\ n.enabled = r.enabled /\ n.last = r.last
             /\ r.enabled => n.next = r.next
             /\ r.enabled /\ ~StuckMark(r, t) => n.running = r.running
  BY NoneTime DEF Job, Normalized

LEMMA ApplyResultTyped ==
  ASSUME NEW r \in Job, NEW res, res.at \in Time, res.ended \in Nat, res.status \in ResultStatus,
         NEW p \in BOOLEAN
  PROVE  ApplyResult(r, res, p) \in Job
<1> DEFINE errors == IF IsError(res.status) THEN r.errors + 1 ELSE 0
           status == IF IsError(res.status) THEN "error" ELSE res.status
           ran == [r EXCEPT !.running = None, !.last = res.at, !.errors = errors, !.status = status]
           back == [ran EXCEPT !.last = r.last]
           natural == NextRun(IF p THEN back ELSE ran, res.ended)
           delayed == Capped(res.ended + ErrorBackoff(errors))
           retries == res.status = "error" /\ errors <= MaxAttempts
<1>1. errors \in Nat /\ status \in Statuses
  BY DEF Job, IsError, Statuses, ResultStatus
<1>2. ran \in Job
  <2> HIDE DEF errors, status
  <2> QED
    BY <1>1, NoneTime DEF Job
<1>3. back \in Job
  <2> HIDE DEF ran
  <2> QED
    BY <1>2 DEF Job
<1>4. natural \in Time
  <2> HIDE DEF ran, back
  <2>1. (IF p THEN back ELSE ran) \in Job
    BY <1>2, <1>3
  <2> QED
    BY <2>1, NextRunTime
<1>5. delayed \in Time
  <2>1. ErrorBackoff(errors) \in Nat
    BY <1>1, BackoffNat
  <2> QED
    BY <2>1, CappedTime
<1>6. ApplyResult(r, res, p) =
        IF r.kind = "at"
        THEN IF retries THEN [ran EXCEPT !.next = delayed] ELSE [ran EXCEPT !.enabled = FALSE, !.next = None]
        ELSE [ran EXCEPT !.next = IF r.enabled /\ IsError(res.status) /\ delayed > natural
                                  THEN delayed ELSE natural]
  BY DEF ApplyResult
<1> HIDE DEF errors, status, ran, back, natural, delayed, retries
<1>7. [ran EXCEPT !.next = delayed] \in Job /\ [ran EXCEPT !.enabled = FALSE, !.next = None] \in Job
  BY <1>2, <1>5, NoneTime DEF Job
<1>8. ASSUME NEW x \in Time PROVE [ran EXCEPT !.next = x] \in Job
  BY <1>2 DEF Job
<1> QED
  BY <1>4, <1>5, <1>6, <1>7, <1>8

-----------------------------------------------------------------------------
(* What the operations on a whole store return, keep and change. *)

LEMMA StoreJob == ASSUME NEW f \in Stores, NEW j \in DOMAIN f PROVE j \in Jobs /\ f[j] \in Job
  BY DEF Stores

LEMMA StoreMade == ASSUME NEW D \in SUBSET Jobs, NEW f \in [D -> Job] PROVE f \in Stores /\ DOMAIN f = D
  BY DEF Stores

LEMMA StoreDomain == ASSUME NEW f \in Stores PROVE DOMAIN f \subseteq Jobs
  BY DEF Stores

LEMMA MaintenanceTyped ==
  ASSUME NEW f \in Stores, NEW t \in Nat, NEW e \in BOOLEAN
  PROVE  LET g == MaintenanceRecompute(f, t, e)
         IN  /\ g \in Stores /\ DOMAIN g = DOMAIN f
             /\ \A j \in DOMAIN f :
                  /\ g[j].enabled = f[j].enabled /\ MarkerKept(f, g, j, t)
                  /\ f[j].next # None /\ ~(e /\ SlotExecuted(f[j])) => TimeKept(f, g, j)
<1> DEFINE r(j) == Normalized(f[j], t)
           changes(j) == r(j).enabled /\ (r(j).next = None \/ (e /\ t >= r(j).next /\ r(j).running = None /\ SlotExecuted(r(j))))
           new(j) == IF changes(j) THEN [r(j) EXCEPT !.next = NextRun(r(j), t)] ELSE r(j)
           g == MaintenanceRecompute(f, t, e)
<1>1. g = [j \in DOMAIN f |-> new(j)]
  BY DEF MaintenanceRecompute
<1>2. ASSUME NEW j \in DOMAIN f
      PROVE  /\ new(j) \in Job /\ new(j).enabled = f[j].enabled
             /\ f[j].enabled /\ ~StuckMark(f[j], t) => new(j).running = f[j].running
             /\ f[j].enabled /\ f[j].next # None /\ ~(e /\ SlotExecuted(f[j])) => new(j).next = f[j].next
  <2>1. f[j] \in Job
    BY StoreJob
  <2>2. /\ r(j) \in Job /\ r(j).enabled = f[j].enabled /\ r(j).last = f[j].last
        /\ f[j].enabled => r(j).next = f[j].next
        /\ f[j].enabled /\ ~StuckMark(f[j], t) => r(j).running = f[j].running
    BY <2>1, NormalizedTyped
  <2>3. NextRun(r(j), t) \in Time
    BY <2>2, NextRunTime
  <2>4. /\ [r(j) EXCEPT !.next = NextRun(r(j), t)] \in Job
        /\ [r(j) EXCEPT !.next = NextRun(r(j), t)].enabled = r(j).enabled
        /\ [r(j) EXCEPT !.next = NextRun(r(j), t)].running = r(j).running
    <3> HIDE DEF r
    <3> QED
      BY <2>2, <2>3, WithNext
  <2>5. f[j].enabled /\ f[j].next # None /\ ~(e /\ SlotExecuted(f[j])) => ~changes(j)
    <3> HIDE DEF r
    <3> QED
      BY <2>2 DEF SlotExecuted
  <2> HIDE DEF r, changes
  <2> QED
    BY <2>2, <2>4, <2>5
<1>3. g \in [DOMAIN f -> Job]
  <2> HIDE DEF new, g
  <2> QED
    BY <1>1, <1>2
<1>4. g \in Stores /\ DOMAIN g = DOMAIN f
  <2> HIDE DEF g
  <2> QED
    BY <1>3, StoreMade, StoreDomain
<1>5. ASSUME NEW j \in DOMAIN f
      PROVE  /\ g[j].enabled = f[j].enabled /\ MarkerKept(f, g, j, t)
             /\ f[j].next # None /\ ~(e /\ SlotExecuted(f[j])) => TimeKept(f, g, j)
  <2>1. g[j] = new(j)
    <3> HIDE DEF new, g
    <3> QED
      BY <1>1
  <2> HIDE DEF new, g
  <2> QED
    BY <2>1, <1>2 DEF MarkerKept, TimeKept
<1> HIDE DEF g
<1>6. /\ g \in Stores /\ DOMAIN g = DOMAIN f
      /\ \A j \in DOMAIN f :
           /\ g[j].enabled = f[j].enabled /\ MarkerKept(f, g, j, t)
           /\ f[j].next # None /\ ~(e /\ SlotExecuted(f[j])) => TimeKept(f, g, j)
  BY <1>4, <1>5
<1> QED
  BY <1>6 DEF g

LEMMA RecomputeTyped ==
  ASSUME NEW f \in Stores, NEW t \in Nat
  PROVE  LET g == RecomputeNextRuns(f, t)
         IN  g \in Stores /\ DOMAIN g = DOMAIN f /\ \A j \in DOMAIN f : MarkerKept(f, g, j, t)
<1> DEFINE r(j) == Normalized(f[j], t)
           new(j) == IF r(j).enabled /\ (r(j).next = None \/ t >= r(j).next)
                     THEN [r(j) EXCEPT !.next = NextRun(r(j), t)] ELSE r(j)
           g == RecomputeNextRuns(f, t)
<1>1. g = [j \in DOMAIN f |-> new(j)]
  BY DEF RecomputeNextRuns
<1>2. ASSUME NEW j \in DOMAIN f
      PROVE  new(j) \in Job /\ (f[j].enabled /\ ~StuckMark(f[j], t) => new(j).running = f[j].running)
  <2>1. f[j] \in Job
    BY StoreJob
  <2>2. r(j) \in Job /\ (f[j].enabled /\ ~StuckMark(f[j], t) => r(j).running = f[j].running)
    BY <2>1, NormalizedTyped
  <2>3. NextRun(r(j), t) \in Time
    BY <2>2, NextRunTime
  <2>4. /\ [r(j) EXCEPT !.next = NextRun(r(j), t)] \in Job
        /\ [r(j) EXCEPT !.next = NextRun(r(j), t)].running = r(j).running
    <3> HIDE DEF r
    <3> QED
      BY <2>2, <2>3, WithNext
  <2> HIDE DEF r
  <2> QED
    BY <2>2, <2>4
<1>3. g \in [DOMAIN f -> Job]
  <2> HIDE DEF new, g
  <2> QED
    BY <1>1, <1>2
<1>4. g \in Stores /\ DOMAIN g = DOMAIN f
  <2> HIDE DEF g
  <2> QED
    BY <1>3, StoreMade, StoreDomain
<1>5. ASSUME NEW j \in DOMAIN f PROVE MarkerKept(f, g, j, t)
  <2>1. g[j] = new(j)
    <3> HIDE DEF new, g
    <3> QED
      BY <1>1
  <2> HIDE DEF new, g
  <2> QED
    BY <2>1, <1>2 DEF MarkerKept
<1> HIDE DEF g
<1>6. g \in Stores /\ DOMAIN g = DOMAIN f /\ \A j \in DOMAIN f : MarkerKept(f, g, j, t)
  BY <1>4, <1>5
<1> QED
  BY <1>6 DEF g

LEMMA MarkAllTyped ==
  ASSUME NEW f \in Stores, NEW J, now \in Moment
  PROVE  LET g == MarkAll(f, J)
         IN  /\ g \in Stores /\ DOMAIN g = DOMAIN f
             /\ \A j \in DOMAIN f : MarkerKept(f, g, j, now) /\ TimeKept(f, g, j)
             /\ \A j \in DOMAIN f : g[j].enabled = f[j].enabled
             /\ \A j \in DOMAIN f : j \in J => g[j].running # None
             /\ \A j \in DOMAIN f : j \notin J => g[j] = f[j]
<1> DEFINE g == MarkAll(f, J)
<1>0. now \in Time /\ now # None
  BY MomentTime
<1>1. g = [j \in DOMAIN f |-> IF j \in J THEN Mark(f[j], now) ELSE f[j]]
  BY DEF MarkAll
<1>2. \A j \in DOMAIN f :
        /\ Mark(f[j], now) \in Job /\ Mark(f[j], now).running = now
        /\ Mark(f[j], now).enabled = f[j].enabled /\ Mark(f[j], now).next = f[j].next
  BY <1>0, StoreJob, MarkTyped
<1> HIDE DEF g
<1>3. g \in [DOMAIN f -> Job]
  BY <1>1, <1>2, StoreJob
<1>4. g \in Stores /\ DOMAIN g = DOMAIN f
  BY <1>3, StoreMade, StoreDomain
<1>5. \A j \in DOMAIN f : MarkerKept(f, g, j, now) /\ TimeKept(f, g, j)
  BY <1>0, <1>1, <1>2 DEF MarkerKept, TimeKept
<1>6. \A j \in DOMAIN f :
        g[j].enabled = f[j].enabled /\ (j \in J => g[j].running # None) /\ (j \notin J => g[j] = f[j])
  BY <1>0, <1>1, <1>2
<1> QED
  BY <1>4, <1>5, <1>6 DEF g

\* The results that are applied change only the jobs of the batch.
LEMMA ApplyAllTyped ==
  ASSUME NEW f \in Stores, NEW results \in SUBSET ResultSet
  PROVE  LET g == ApplyAll(f, results)
         IN  /\ g \in Stores /\ DOMAIN g \subseteq DOMAIN f
             /\ \A j \in DOMAIN g : (\A res \in results : res.job # j) => g[j] = f[j]
<1> DEFINE g == ApplyAll(f, results)
           resultOf(j) == {res \in results : res.job = j}
           kept == {j \in DOMAIN f : \A res \in resultOf(j) : ~Deletes(f[j], res)}
           the(j) == CHOOSE res \in resultOf(j) : TRUE
<1>1. g = [j \in kept |-> IF resultOf(j) = {} THEN f[j] ELSE ApplyResult(f[j], the(j), FALSE)]
  BY DEF ApplyAll
<1>2. kept \subseteq DOMAIN f /\ DOMAIN f \subseteq Jobs
  BY StoreDomain
<1>3. ASSUME NEW j \in kept, resultOf(j) # {} PROVE ApplyResult(f[j], the(j), FALSE) \in Job
  <2>1. the(j) \in results
    BY <1>3
  <2>2. the(j).at \in Moment /\ the(j).ended \in Moment /\ the(j).status \in ResultStatus
    <3> HIDE DEF the
    <3> QED
      BY <2>1 DEF ResultSet
  <2> HIDE DEF the, resultOf
  <2>3. the(j).at \in Time /\ the(j).ended \in Nat
    BY <2>2, MomentTime
  <2>4. f[j] \in Job
    BY StoreJob
  <2> QED
    BY <2>2, <2>3, <2>4, ApplyResultTyped
<1>4. g \in [kept -> Job]
  <2>1. \A j \in kept : f[j] \in Job
    BY <1>2, StoreJob
  <2> HIDE DEF g, kept, resultOf, the
  <2> QED
    BY <1>1, <1>3, <2>1
<1>5. g \in Stores /\ DOMAIN g = kept
  <2> HIDE DEF g, kept
  <2> QED
    BY <1>2, <1>4, StoreMade
<1>6. ASSUME NEW j \in DOMAIN g, \A res \in results : res.job # j PROVE g[j] = f[j]
  <2>1. resultOf(j) = {}
    BY <1>6
  <2> HIDE DEF g, kept, resultOf
  <2> QED
    BY <1>1, <1>5, <2>1
<1>7. g \in Stores /\ DOMAIN g \subseteq DOMAIN f
  <2> HIDE DEF g, kept
  <2> QED
    BY <1>2, <1>5
<1> QED
  BY <1>6, <1>7

\* The jobs put off get another time and nothing else.
LEMMA StaggeredTyped ==
  ASSUME NEW f \in Stores, NEW late \in Seq(Jobs), now \in Moment
  PROVE  LET g == Staggered(f, late)
         IN  /\ g \in Stores /\ DOMAIN g = DOMAIN f
             /\ \A j \in DOMAIN f : g[j].enabled = f[j].enabled /\ g[j].running = f[j].running
             /\ \A j \in DOMAIN f : j \notin Range(late) => g[j] = f[j]
<1> DEFINE g == Staggered(f, late)
           there == {j \in DOMAIN f : j \in Range(late) /\ f[j].enabled}
           UpTo(j) == {i \in DOMAIN late : late[i] \in there /\ \E k \in DOMAIN late : i <= k /\ late[k] = j}
           at(j) == Capped(now + StaggerUnits * Cardinality(UpTo(j)))
<1>1. g = [j \in DOMAIN f |-> IF j \in there THEN [f[j] EXCEPT !.next = at(j)] ELSE f[j]]
  BY DEF Staggered
<1>2. ASSUME NEW j PROVE at(j) \in Time
  <2>1. UpTo(j) \subseteq 1..Len(late) /\ Len(late) \in Nat
    OBVIOUS
  <2>2. IsFiniteSet(1..Len(late))
    BY <2>1, FS_Interval
  <2>3. Cardinality(UpTo(j)) \in Nat
    <3> HIDE DEF UpTo
    <3> QED
      BY <2>1, <2>2, FS_Subset, FS_CardinalityType
  <2>4. now \in Nat /\ StaggerUnits \in Nat
    BY CronInstance, MomentTime
  <2> HIDE DEF UpTo
  <2>5. now + StaggerUnits * Cardinality(UpTo(j)) \in Nat
    BY <2>3, <2>4
  <2> QED
    BY <2>5, CappedTime
<1> HIDE DEF at
<1>3. ASSUME NEW j \in DOMAIN f
      PROVE  LET r == [f[j] EXCEPT !.next = at(j)]
             IN  r \in Job /\ r.enabled = f[j].enabled /\ r.running = f[j].running
  BY <1>2, StoreJob, WithNext
<1> HIDE DEF there, g
<1>4. g \in [DOMAIN f -> Job]
  BY <1>1, <1>3, StoreJob
<1>5. g \in Stores /\ DOMAIN g = DOMAIN f
  BY <1>4, StoreMade, StoreDomain
<1>6. \A j \in DOMAIN f : g[j].enabled = f[j].enabled /\ g[j].running = f[j].running
  BY <1>1, <1>3
<1>7. \A j \in DOMAIN f : j \notin Range(late) => g[j] = f[j]
  <2>1. \A j \in DOMAIN f : j \notin Range(late) => j \notin there
    BY DEF there
  <2> QED
    BY <1>1, <2>1
<1> QED
  BY <1>5, <1>6, <1>7 DEF g

LEMMA WithJobTyped ==
  ASSUME NEW f \in Stores, NEW j \in Jobs, NEW r \in Job
  PROVE  LET g == WithJob(f, j, r)
         IN  g \in Stores /\ DOMAIN g = DOMAIN f \cup {j} /\ \A i \in DOMAIN f : i # j => g[i] = f[i]
<1> DEFINE g == WithJob(f, j, r)
<1>1. g \in [DOMAIN f \cup {j} -> Job] /\ \A i \in DOMAIN f : i # j => g[i] = f[i]
  BY StoreJob DEF WithJob
<1>2. DOMAIN f \cup {j} \subseteq Jobs
  BY StoreDomain
<1> HIDE DEF g
<1>3. g \in Stores /\ DOMAIN g = DOMAIN f \cup {j}
  BY <1>1, <1>2, StoreMade
<1> QED
  BY <1>1, <1>3 DEF g

LEMMA PatchedTyped ==
  ASSUME NEW r \in Job, now \in Moment, NEW patch
  PROVE  /\ Patched(r, patch) \in Job
         /\ Patched(r, patch).enabled => patch = "enable" \/ Patched(r, patch).running = r.running
         /\ patch = "enable" => Patched(r, patch).running = r.running
<1> DEFINE on == [r EXCEPT !.enabled = TRUE]
           off == [r EXCEPT !.enabled = FALSE, !.next = None, !.running = None]
<1>1. on \in Job /\ on.running = r.running /\ off \in Job /\ ~off.enabled
  BY NoneTime DEF Job
<1>2. NextRun(on, now) \in Time /\ NextRun(r, now) \in Time
  <2> HIDE DEF on
  <2> QED
    BY <1>1, MomentTime, NextRunTime
<1> HIDE DEF on, off
<1>3. /\ [on EXCEPT !.next = NextRun(on, now)] \in Job
      /\ [on EXCEPT !.next = NextRun(on, now)].running = on.running
      /\ [r EXCEPT !.next = NextRun(r, now)] \in Job
      /\ [r EXCEPT !.next = NextRun(r, now)].running = r.running
  BY <1>1, <1>2, WithNext
<1>4. Patched(r, patch) =
        IF patch = "disable" THEN off
        ELSE IF patch = "enable" THEN [on EXCEPT !.next = NextRun(on, now)]
        ELSE IF r.enabled /\ r.next = None THEN [r EXCEPT !.next = NextRun(r, now)] ELSE r
  BY DEF Patched, on, off
<1> QED
  BY <1>1, <1>3, <1>4

LEMMA RestrictTyped ==
  ASSUME NEW f \in Stores, NEW j
  PROVE  LET g == Restrict(f, DOMAIN f \ {j})
         IN  g \in Stores /\ DOMAIN g = DOMAIN f \ {j} /\ \A i \in DOMAIN g : g[i] = f[i]
<1> DEFINE g == Restrict(f, DOMAIN f \ {j})
<1>1. g \in [DOMAIN f \ {j} -> Job] /\ \A i \in DOMAIN f \ {j} : g[i] = f[i]
  BY StoreJob DEF Restrict
<1>2. DOMAIN f \ {j} \subseteq Jobs
  BY StoreDomain
<1> HIDE DEF g
<1>3. g \in Stores /\ DOMAIN g = DOMAIN f \ {j}
  BY <1>1, <1>2, StoreMade
<1> QED
  BY <1>1, <1>3 DEF g

LEMMA MergedTyped ==
  ASSUME NEW f \in Stores, NEW j, NEW r \in Job, NEW removed \in BOOLEAN
  PROVE  LET g == Merged(f, j, r, removed)
         IN  g \in Stores /\ DOMAIN g \subseteq DOMAIN f /\ \A i \in DOMAIN g : i # j => g[i] = f[i]
<1>1. CASE removed
  BY <1>1, RestrictTyped DEF Merged
<1>2. CASE ~removed
  <2> DEFINE g == [i \in DOMAIN f |-> IF i = j THEN r ELSE f[i]]
  <2>1. Merged(f, j, r, removed) = g
    BY <1>2 DEF Merged
  <2>2. g \in [DOMAIN f -> Job] /\ \A i \in DOMAIN f : i # j => g[i] = f[i]
    BY StoreJob
  <2> HIDE DEF g
  <2>3. g \in Stores /\ DOMAIN g = DOMAIN f
    BY <2>2, StoreMade, StoreDomain
  <2> QED
    BY <2>1, <2>2, <2>3
<1> QED
  BY <1>1, <1>2

-----------------------------------------------------------------------------
(* The batches. *)

LEMMA SeqsOf ==
  ASSUME NEW J \in SUBSET Jobs, NEW q \in SetToSeqs(J)
  PROVE  q \in Seq(Jobs) /\ NoRepeats(q) /\ \A i \in DOMAIN q : q[i] \in J
<1> DEFINE n == Cardinality(J)
<1>1. n \in Nat
  BY CronInstance, FS_Subset, FS_CardinalityType
<1>2. q \in [1..n -> J] /\ \A i, k \in 1..n : i # k => q[i] # q[k]
  BY DEF SetToSeqs
<1> HIDE DEF n
<1>3. q \in Seq(J)
  BY <1>1, <1>2, IsASeq
<1>4. q \in Seq(Jobs)
  BY <1>3, SeqMonotonic
<1> QED
  BY <1>2, <1>4 DEF NoRepeats

\* A batch begins: its queue has the jobs it was given, and the first of them run.
LEMMA BeginTyped ==
  ASSUME NEW stages, NEW b \in BatchSet(stages), NEW q \in Seq(Jobs), NoRepeats(q), NEW w \in Nat,
         now \in Moment, b.stage = "run"
  PROVE  LET c == Begin(b, q, w)
         IN  /\ c \in BatchSet(stages) /\ BatchOK(c, w) /\ c.stage = "run"
             /\ c.results = b.results /\ c.late = b.late
             /\ \A j : Waits(c, j) \/ RunsNow(c, j) => \E i \in DOMAIN q : q[i] = j
<1> DEFINE n == IF Len(q) < w THEN Len(q) ELSE w
           run == [i \in 1..n |-> [job |-> q[i], at |-> now]]
           cur == {[job |-> q[i], at |-> now] : i \in 1..n}
           rest == SubSeq(q, n + 1, Len(q))
           c == Begin(b, q, w)
<1>1. c = [b EXCEPT !.cur = cur, !.queue = rest]
  BY DEF Begin
<1>2. Len(q) \in Nat /\ DOMAIN q = 1..Len(q) /\ \A i \in 1..Len(q) : q[i] \in Jobs
  BY LenProperties, ElementOfSeq
<1>3. n \in Nat /\ n <= w /\ n <= Len(q) /\ 1..n \subseteq DOMAIN q
  BY <1>2
<1>4. /\ rest \in Seq(Jobs) /\ Len(rest) = Len(q) - n /\ DOMAIN rest = 1..(Len(q) - n)
      /\ \A i \in 1..(Len(q) - n) : rest[i] = q[n + i]
  <2> HIDE DEF n
  <2>1. \A i \in (n + 1)..Len(q) : q[i] \in Jobs
    BY <1>2, <1>3
  <2>2. n + 1 \in Int /\ Len(q) \in Int /\ Len(q) - (n + 1) + 1 = Len(q) - n
    BY <1>2, <1>3
  <2>3. /\ rest \in Seq(Jobs) /\ Len(rest) = IF n + 1 <= Len(q) THEN Len(q) - (n + 1) + 1 ELSE 0
        /\ \A i \in 1..(Len(q) - (n + 1) + 1) : rest[i] = q[(n + 1) + i - 1]
    BY <2>1, <2>2, SubSeqProperties
  <2>4. DOMAIN rest = 1..Len(rest)
    BY <2>3, LenProperties
  <2>5. Len(rest) = Len(q) - n
    <3> HIDE DEF rest
    <3>1. Len(rest) = IF n + 1 <= Len(q) THEN Len(q) - (n + 1) + 1 ELSE 0
      BY <2>3
    <3>2. n \in Nat /\ Len(q) \in Nat /\ n <= Len(q)
      BY <1>2, <1>3
    <3>3. CASE n + 1 <= Len(q)
      BY <3>1, <3>2, <3>3
    <3>4. CASE ~(n + 1 <= Len(q))
      BY <3>1, <3>2, <3>4
    <3> QED
      BY <3>3, <3>4
  <2>6. \A i \in 1..(Len(q) - n) : (n + 1) + i - 1 = n + i
    BY <1>2, <1>3
  <2> HIDE DEF rest
  <2> QED
    BY <2>2, <2>3, <2>4, <2>5, <2>6
<1>5. IsFiniteSet(cur) /\ Cardinality(cur) <= w
  <2>1. run \in Surjection(1..n, cur)
    <3>1. run \in [1..n -> cur] /\ \A y \in cur : \E i \in 1..n : run[i] = y
      OBVIOUS
    <3> HIDE DEF run, cur
    <3> QED
      BY <3>1, Fun_IsSurj
  <2>2. IsFiniteSet(1..n) /\ Cardinality(1..n) = n
    <3> HIDE DEF n
    <3> QED
      BY <1>3, FS_Interval
  <2>3. IsFiniteSet(cur) /\ Cardinality(cur) <= n
    <3> HIDE DEF run, cur, n
    <3> QED
      BY <2>1, <2>2, FS_Surjection
  <2>4. Cardinality(cur) \in Nat
    <3> HIDE DEF cur
    <3> QED
      BY <2>3, FS_CardinalityType
  <2> HIDE DEF cur, n
  <2> QED
    BY <1>3, <2>3, <2>4
<1>6. cur \subseteq RunSet
  BY <1>2, <1>3 DEF RunSet
<1> HIDE DEF n, rest, run, c
<1>7. c \in BatchSet(stages)
  <2> HIDE DEF cur
  <2> QED
    BY <1>1, <1>4, <1>6 DEF BatchSet
<1>8. /\ c.cur = cur /\ c.queue = rest /\ c.stage = "run" /\ c.results = b.results /\ c.late = b.late
  <2> HIDE DEF cur
  <2> QED
    BY <1>1 DEF BatchSet
<1>9. NoRepeats(rest)
  <2> SUFFICES ASSUME NEW i \in DOMAIN rest, NEW k \in DOMAIN rest, rest[i] = rest[k] PROVE i = k
    BY DEF NoRepeats
  <2>1. n + i \in DOMAIN q /\ n + k \in DOMAIN q
    BY <1>2, <1>3, <1>4
  <2>2. q[n + i] = q[n + k]
    BY <1>4
  <2>3. n + i = n + k
    BY <2>1, <2>2 DEF NoRepeats
  <2> QED
    BY <1>2, <1>3, <1>4, <2>3
<1>10. \A r \in cur : \A i \in DOMAIN rest : rest[i] # r.job
  <2> SUFFICES ASSUME NEW k \in 1..n, NEW i \in DOMAIN rest PROVE rest[i] # q[k]
    OBVIOUS
  <2>1. n + i \in DOMAIN q /\ k \in DOMAIN q /\ n + i # k
    BY <1>2, <1>3, <1>4
  <2>2. rest[i] = q[n + i]
    BY <1>4
  <2> QED
    BY <2>1, <2>2 DEF NoRepeats
<1>11. \A r1, r2 \in cur : r1.job = r2.job => r1 = r2
  OBVIOUS
<1>12. BatchOK(c, w)
  <2> HIDE DEF cur
  <2> QED
    BY <1>5, <1>8, <1>9, <1>10, <1>11 DEF BatchOK
<1>13. ASSUME NEW j, Waits(c, j) \/ RunsNow(c, j) PROVE \E i \in DOMAIN q : q[i] = j
  <2>1. CASE Waits(c, j)
    <3>1. PICK i \in DOMAIN rest : rest[i] = j
      BY <1>8, <2>1 DEF Waits
    <3>2. n + i \in DOMAIN q /\ q[n + i] = j
      BY <1>2, <1>3, <1>4, <3>1
    <3> QED
      BY <3>2
  <2>2. CASE RunsNow(c, j)
    <3>1. PICK r \in cur : r.job = j
      BY <1>8, <2>2 DEF RunsNow
    <3> QED
      BY <1>3, <3>1
  <2> QED
    BY <1>13, <2>1, <2>2
<1> QED
  BY <1>7, <1>8, <1>12, <1>13 DEF c

\* A run ends: no job enters the batch or leaves it.
LEMMA EndRunTyped ==
  ASSUME NEW stages, {"run", "apply"} \subseteq stages, NEW b \in BatchSet(stages), NEW w \in Nat,
         BatchOK(b, w), b.stage = "run", NEW r \in b.cur, NEW status \in ResultStatus, now \in Moment
  PROVE  LET c == EndRun(b, r, status)
         IN  /\ c \in BatchSet(stages) /\ BatchOK(c, w) /\ c.stage \in {"run", "apply"}
             /\ \A j : Holds(c, j) => Holds(b, j)
             /\ \A x \in c.cur : Holds(b, x.job)
<1> DEFINE first == IF b.queue = <<>> THEN {} ELSE {[job |-> Head(b.queue), at |-> now]}
           rest == (b.cur \ {r}) \cup first
           queue == IF b.queue = <<>> THEN <<>> ELSE Tail(b.queue)
           res == [job |-> r.job, at |-> r.at, status |-> status, ended |-> now]
           c == EndRun(b, r, status)
<1>1. c = [b EXCEPT !.cur = rest, !.queue = queue, !.results = @ \cup {res},
                    !.stage = IF rest = {} THEN "apply" ELSE @]
  BY DEF EndRun
<1>2. b.queue \in Seq(Jobs) /\ b.cur \subseteq RunSet /\ b.results \subseteq ResultSet
  BY DEF BatchSet
<1>3. Len(b.queue) \in Nat /\ DOMAIN b.queue = 1..Len(b.queue) /\ \A i \in DOMAIN b.queue : b.queue[i] \in Jobs
  BY <1>2, LenProperties, ElementOfSeq
<1>4. /\ queue \in Seq(Jobs) /\ \A i \in DOMAIN queue : i \in Nat /\ i + 1 \in DOMAIN b.queue /\ queue[i] = b.queue[i + 1]
  <2>1. CASE b.queue = <<>>
    <3>1. queue = <<>>
      BY <2>1
    <3>2. <<>> \in Seq(Jobs) /\ DOMAIN <<>> = {}
      OBVIOUS
    <3> HIDE DEF queue
    <3> QED
      BY <3>1, <3>2
  <2>2. CASE b.queue # <<>>
    <3>1. /\ Tail(b.queue) \in Seq(Jobs) /\ Len(Tail(b.queue)) = Len(b.queue) - 1
          /\ \A i \in 1..Len(Tail(b.queue)) : Tail(b.queue)[i] = b.queue[i + 1]
      BY <1>2, <2>2, HeadTailProperties
    <3>2. DOMAIN Tail(b.queue) = 1..Len(Tail(b.queue))
      BY <3>1, LenProperties
    <3>3. \A i \in 1..Len(Tail(b.queue)) : i \in Nat /\ i + 1 \in DOMAIN b.queue
      BY <1>3, <3>1
    <3>4. queue = Tail(b.queue)
      BY <2>2
    <3> HIDE DEF queue
    <3> QED
      BY <3>1, <3>2, <3>3, <3>4
  <2> QED
    BY <2>1, <2>2
<1>5. \A x \in first : b.queue # <<>> /\ 1 \in DOMAIN b.queue /\ x = [job |-> b.queue[1], at |-> now]
  <2> SUFFICES ASSUME b.queue # <<>>
               PROVE  1 \in DOMAIN b.queue /\ Head(b.queue) = b.queue[1]
    OBVIOUS
  <2>1. Len(b.queue) # 0
    BY <1>2, EmptySeq
  <2> QED
    BY <1>2, <1>3, <2>1
<1>6. first \subseteq RunSet
  BY <1>3, <1>5 DEF RunSet
<1>7. r \in RunSet /\ r.job \in Jobs /\ r.at \in Moment
  BY <1>2 DEF RunSet
<1>8. res \in ResultSet
  BY <1>7 DEF ResultSet
<1>9. IsFiniteSet(rest) /\ Cardinality(rest) <= w
  <2>1. IsFiniteSet(b.cur) /\ Cardinality(b.cur) \in Nat /\ Cardinality(b.cur) <= w
    BY FS_CardinalityType DEF BatchOK
  <2>2. IsFiniteSet(b.cur \ {r}) /\ Cardinality(b.cur \ {r}) = Cardinality(b.cur) - 1
    BY <2>1, FS_RemoveElement
  <2>3. CASE b.queue = <<>>
    <3>1. rest = b.cur \ {r}
      BY <2>3
    <3> HIDE DEF rest
    <3> QED
      BY <2>1, <2>2, <3>1
  <2>4. CASE b.queue # <<>>
    <3> DEFINE x == [job |-> Head(b.queue), at |-> now]
    <3>1. rest = (b.cur \ {r}) \cup {x}
      BY <2>4
    <3> HIDE DEF rest, x
    <3>2. /\ IsFiniteSet(rest)
          /\ Cardinality(rest) = IF x \in b.cur \ {r} THEN Cardinality(b.cur \ {r}) ELSE Cardinality(b.cur \ {r}) + 1
      BY <2>2, <3>1, FS_AddElement
    <3> QED
      BY <2>1, <2>2, <3>2
  <2> QED
    BY <2>3, <2>4
<1>10. rest = {} => queue = <<>>
  OBVIOUS
<1>11. \A x \in rest : (x \in b.cur /\ x # r) \/ x \in first
  OBVIOUS
<1> HIDE DEF first, rest, queue, res, c
<1>12. c \in BatchSet(stages)
  <2>1. rest \subseteq RunSet
    BY <1>2, <1>6, <1>11
  <2>2. b.results \cup {res} \subseteq ResultSet
    BY <1>2, <1>8
  <2> QED
    BY <1>1, <1>4, <2>1, <2>2 DEF BatchSet
<1>13. /\ c.cur = rest /\ c.queue = queue /\ c.results = b.results \cup {res}
       /\ c.stage = IF rest = {} THEN "apply" ELSE "run"
  BY <1>1 DEF BatchSet
<1>14. NoRepeats(queue)
  <2> SUFFICES ASSUME NEW i \in DOMAIN queue, NEW k \in DOMAIN queue, queue[i] = queue[k] PROVE i = k
    BY DEF NoRepeats
  <2>1. i + 1 = k + 1
    BY <1>4 DEF BatchOK, NoRepeats
  <2> QED
    BY <1>4, <2>1
<1>15. \A x \in rest : \A i \in DOMAIN queue : queue[i] # x.job
  <2> SUFFICES ASSUME NEW x \in rest, NEW i \in DOMAIN queue PROVE queue[i] # x.job
    OBVIOUS
  <2>1. i \in Nat /\ i + 1 \in DOMAIN b.queue /\ queue[i] = b.queue[i + 1]
    BY <1>4
  <2>2. CASE x \in b.cur
    BY <2>1, <2>2 DEF BatchOK
  <2>3. CASE x \in first
    <3>1. 1 \in DOMAIN b.queue /\ x.job = b.queue[1]
      BY <1>5, <2>3
    <3>2. i + 1 # 1
      BY <2>1, <1>4, LenProperties
    <3> QED
      BY <2>1, <3>1, <3>2 DEF BatchOK, NoRepeats
  <2> QED
    BY <1>11, <2>2, <2>3
<1>16. \A r1, r2 \in rest : r1.job = r2.job => r1 = r2
  <2> SUFFICES ASSUME NEW r1 \in rest, NEW r2 \in rest, r1.job = r2.job PROVE r1 = r2
    OBVIOUS
  <2>1. \A x \in first, y \in b.cur : x.job # y.job
    <3> SUFFICES ASSUME NEW x \in first, NEW y \in b.cur PROVE x.job # y.job
      OBVIOUS
    <3>1. 1 \in DOMAIN b.queue /\ x.job = b.queue[1]
      BY <1>5
    <3> QED
      BY <3>1 DEF BatchOK
  <2>2. \A x, y \in first : x = y
    BY <1>5
  <2>3. \A x, y \in b.cur : x.job = y.job => x = y
    BY DEF BatchOK
  <2> QED
    BY <1>11, <2>1, <2>2, <2>3
<1>17. BatchOK(c, w)
  BY <1>9, <1>10, <1>13, <1>14, <1>15, <1>16 DEF BatchOK
<1>18. \A x \in rest : Waits(b, x.job) \/ RunsNow(b, x.job)
  <2> SUFFICES ASSUME NEW x \in rest PROVE Waits(b, x.job) \/ RunsNow(b, x.job)
    OBVIOUS
  <2>1. CASE x \in b.cur
    BY <2>1 DEF RunsNow
  <2>2. CASE x \in first
    <3>1. 1 \in DOMAIN b.queue /\ x.job = b.queue[1]
      BY <1>5, <2>2
    <3> QED
      BY <3>1 DEF Waits
  <2> QED
    BY <1>11, <2>1, <2>2
<1>19. ASSUME NEW j, Holds(c, j) PROVE Holds(b, j)
  <2>1. CASE Waits(c, j)
    BY <1>4, <1>13, <2>1 DEF Waits, Holds
  <2>2. CASE RunsNow(c, j)
    BY <1>13, <1>18, <2>2 DEF RunsNow, Holds
  <2>3. CASE HasResult(c, j)
    <3>1. PICK x \in b.results \cup {res} : x.job = j
      BY <1>13, <2>3 DEF HasResult
    <3>2. res.job = r.job
      BY DEF res
    <3> QED
      BY <3>1, <3>2 DEF HasResult, RunsNow, Holds
  <2> QED
    BY <1>19, <2>1, <2>2, <2>3 DEF Holds
<1>20. \A x \in c.cur : Holds(b, x.job)
  BY <1>13, <1>18 DEF Holds
<1>21. c.stage \in {"run", "apply"}
  BY <1>13
<1> QED
  BY <1>12, <1>17, <1>19, <1>20, <1>21 DEF c

-----------------------------------------------------------------------------
(* The stores that the steps write. *)

LEMMA AppliedTyped ==
  ASSUME NEW f \in Stores, NEW results \in SUBSET ResultSet, now \in Moment
  PROVE  LET g == MaintenanceRecompute(ApplyAll(f, results), now, FALSE)
         IN  /\ g \in Stores /\ DOMAIN g \subseteq DOMAIN f
             /\ \A j \in DOMAIN g :
                  (\A res \in results : res.job # j)
                  => MarkerKept(f, g, j, now) /\ (f[j].next # None => TimeKept(f, g, j))
<1> DEFINE h == ApplyAll(f, results)
           g == MaintenanceRecompute(h, now, FALSE)
<1>0. now \in Nat
  BY MomentTime
<1>1. /\ h \in Stores /\ DOMAIN h \subseteq DOMAIN f
      /\ \A j \in DOMAIN h : (\A res \in results : res.job # j) => h[j] = f[j]
  BY ApplyAllTyped
<1> HIDE DEF h
<1>2. /\ g \in Stores /\ DOMAIN g = DOMAIN h
      /\ \A j \in DOMAIN h : /\ MarkerKept(h, g, j, now)
                             /\ h[j].next # None => TimeKept(h, g, j)
  BY <1>0, <1>1, MaintenanceTyped
<1> HIDE DEF g
<1>3. ASSUME NEW j \in DOMAIN g, \A res \in results : res.job # j
      PROVE  MarkerKept(f, g, j, now) /\ (f[j].next # None => TimeKept(f, g, j))
  <2>1. h[j] = f[j] /\ j \in DOMAIN f
    BY <1>1, <1>2, <1>3
  <2> QED
    BY <1>2, <2>1 DEF MarkerKept, TimeKept
<1> QED
  BY <1>1, <1>2, <1>3 DEF g, h

LEMMA CaughtUpTyped ==
  ASSUME NEW f \in Stores, NEW results \in SUBSET ResultSet, NEW late \in Seq(Jobs), now \in Moment
  PROVE  LET g == MaintenanceRecompute(Staggered(ApplyAll(f, results), late), now, FALSE)
         IN  /\ g \in Stores /\ DOMAIN g \subseteq DOMAIN f
             /\ \A j \in DOMAIN g :
                  (\A res \in results : res.job # j)
                  => /\ MarkerKept(f, g, j, now)
                     /\ f[j].next # None /\ j \notin Range(late) => TimeKept(f, g, j)
<1> DEFINE h == ApplyAll(f, results)
           k == Staggered(h, late)
           g == MaintenanceRecompute(k, now, FALSE)
<1>0. now \in Nat
  BY MomentTime
<1>1. /\ h \in Stores /\ DOMAIN h \subseteq DOMAIN f
      /\ \A j \in DOMAIN h : (\A res \in results : res.job # j) => h[j] = f[j]
  BY ApplyAllTyped
<1> HIDE DEF h
<1>2. /\ k \in Stores /\ DOMAIN k = DOMAIN h
      /\ \A j \in DOMAIN h : k[j].enabled = h[j].enabled /\ k[j].running = h[j].running
      /\ \A j \in DOMAIN h : j \notin Range(late) => k[j] = h[j]
  BY <1>1, StaggeredTyped
<1> HIDE DEF k
<1>3. /\ g \in Stores /\ DOMAIN g = DOMAIN k
      /\ \A j \in DOMAIN k : /\ MarkerKept(k, g, j, now)
                             /\ k[j].next # None => TimeKept(k, g, j)
  BY <1>0, <1>2, MaintenanceTyped
<1> HIDE DEF g
<1>4. ASSUME NEW j \in DOMAIN g, \A res \in results : res.job # j
      PROVE  MarkerKept(f, g, j, now) /\ (f[j].next # None /\ j \notin Range(late) => TimeKept(f, g, j))
  <2>1. h[j] = f[j] /\ j \in DOMAIN f /\ j \in DOMAIN h /\ j \in DOMAIN k
    BY <1>1, <1>2, <1>3, <1>4
  <2>2. k[j].enabled = f[j].enabled /\ k[j].running = f[j].running
    BY <1>2, <2>1
  <2>3. MarkerKept(f, g, j, now)
    BY <1>3, <2>1, <2>2 DEF MarkerKept, StuckMark
  <2>4. ASSUME f[j].next # None, j \notin Range(late) PROVE TimeKept(f, g, j)
    <3>1. k[j] = f[j]
      BY <1>2, <2>1, <2>4
    <3> QED
      BY <1>3, <2>1, <2>4, <3>1 DEF TimeKept
  <2> QED
    BY <2>3, <2>4
<1> QED
  BY <1>1, <1>2, <1>3, <1>4 DEF g, h, k

LEMMA ClearedTyped ==
  ASSUME NEW f \in Stores
  PROVE  LET g == [j \in DOMAIN f |-> Mark(f[j], None)]
         IN  g \in Stores /\ DOMAIN g = DOMAIN f /\ \A j \in DOMAIN f : TimeKept(f, g, j) /\ g[j].enabled = f[j].enabled
<1> DEFINE g == [j \in DOMAIN f |-> Mark(f[j], None)]
<1>1. \A j \in DOMAIN f :
        Mark(f[j], None) \in Job /\ Mark(f[j], None).enabled = f[j].enabled /\ Mark(f[j], None).next = f[j].next
  BY NoneTime, StoreJob, MarkTyped
<1>2. g \in [DOMAIN f -> Job] /\ \A j \in DOMAIN f : g[j].enabled = f[j].enabled /\ g[j].next = f[j].next
  BY <1>1
<1> HIDE DEF g
<1>3. g \in Stores /\ DOMAIN g = DOMAIN f
  BY <1>2, StoreMade, StoreDomain
<1> QED
  BY <1>2, <1>3 DEF g, TimeKept

LEMMA AddedTyped ==
  ASSUME NEW f \in Stores, NEW j \in Jobs, now \in Moment
  PROVE  LET g == RecomputeNextRuns(WithJob(f, j, NewJob(Kind[j], now)), now)
         IN  /\ g \in Stores /\ DOMAIN g = DOMAIN f \cup {j}
             /\ \A i \in DOMAIN f : i # j => MarkerKept(f, g, i, now)
<1> DEFINE h == WithJob(f, j, NewJob(Kind[j], now))
           g == RecomputeNextRuns(h, now)
<1>0. now \in Nat
  BY MomentTime
<1>1. NewJob(Kind[j], now) \in Job
  BY <1>0, CronInstance, NewJobTyped
<1>2. h \in Stores /\ DOMAIN h = DOMAIN f \cup {j} /\ \A i \in DOMAIN f : i # j => h[i] = f[i]
  BY <1>1, WithJobTyped
<1> HIDE DEF h
<1>3. g \in Stores /\ DOMAIN g = DOMAIN h /\ \A i \in DOMAIN h : MarkerKept(h, g, i, now)
  BY <1>0, <1>2, RecomputeTyped
<1> HIDE DEF g
<1>4. \A i \in DOMAIN f : i # j => MarkerKept(f, g, i, now)
  BY <1>2, <1>3 DEF MarkerKept
<1> QED
  BY <1>2, <1>3, <1>4 DEF g, h

LEMMA UpdatedTyped ==
  ASSUME NEW f \in Stores, NEW j \in DOMAIN f, NEW patch, now \in Moment
  PROVE  LET g == [f EXCEPT ![j] = Patched(@, patch)]
         IN  /\ g \in Stores /\ DOMAIN g = DOMAIN f
             /\ \A i \in DOMAIN f : MarkerKept(f, g, i, now)
<1> DEFINE r == Patched(f[j], patch)
           g == [f EXCEPT ![j] = r]
<1>1. f[j] \in Job
  BY StoreJob
<1>2. r \in Job /\ (r.enabled => r.running = f[j].running)
  BY <1>1, PatchedTyped
<1> HIDE DEF r
<1>3. g \in [DOMAIN f -> Job] /\ g[j] = r /\ \A i \in DOMAIN f : i # j => g[i] = f[i]
  BY <1>2, StoreJob DEF Stores
<1> HIDE DEF g
<1>4. g \in Stores /\ DOMAIN g = DOMAIN f
  BY <1>3, StoreMade, StoreDomain
<1>5. \A i \in DOMAIN f : MarkerKept(f, g, i, now)
  BY <1>2, <1>3 DEF MarkerKept
<1>6. [f EXCEPT ![j] = Patched(@, patch)] = g
  BY DEF g, r
<1> QED
  BY <1>4, <1>5, <1>6

LEMMA ReservedTyped ==
  ASSUME NEW f \in Stores, NEW j \in DOMAIN f, NEW at \in Moment
  PROVE  LET g == [f EXCEPT ![j] = Mark(@, at)]
         IN  /\ g \in Stores /\ DOMAIN g = DOMAIN f
             /\ g[j].running # None /\ TimeKept(f, g, j)
             /\ \A i \in DOMAIN f : i # j => g[i] = f[i]
<1> DEFINE r == Mark(f[j], at)
           g == [f EXCEPT ![j] = r]
<1>1. f[j] \in Job
  BY StoreJob
<1>2. r \in Job /\ r.running # None /\ r.next = f[j].next
  BY <1>1, MomentTime, MarkTyped
<1> HIDE DEF r
<1>3. g \in [DOMAIN f -> Job] /\ g[j] = r /\ \A i \in DOMAIN f : i # j => g[i] = f[i]
  BY <1>2, StoreJob DEF Stores
<1> HIDE DEF g
<1>4. g \in Stores /\ DOMAIN g = DOMAIN f
  BY <1>3, StoreMade, StoreDomain
<1>6. [f EXCEPT ![j] = Mark(@, at)] = g
  BY DEF g, r
<1> QED
  BY <1>2, <1>3, <1>4, <1>6 DEF TimeKept

LEMMA FinishedTyped ==
  ASSUME NEW f \in Stores, NEW j, NEW r \in Job, NEW removed \in BOOLEAN, now \in Moment
  PROVE  LET g == MaintenanceRecompute(Merged(f, j, r, removed), now, TRUE)
         IN  /\ g \in Stores /\ DOMAIN g \subseteq DOMAIN f
             /\ \A i \in DOMAIN g :
                  i # j => /\ MarkerKept(f, g, i, now)
                           /\ f[i].next # None /\ ~SlotExecuted(f[i]) => TimeKept(f, g, i)
<1> DEFINE h == Merged(f, j, r, removed)
           g == MaintenanceRecompute(h, now, TRUE)
<1>0. now \in Nat
  BY MomentTime
<1>1. h \in Stores /\ DOMAIN h \subseteq DOMAIN f /\ \A i \in DOMAIN h : i # j => h[i] = f[i]
  BY MergedTyped
<1> HIDE DEF h
<1>2. /\ g \in Stores /\ DOMAIN g = DOMAIN h
      /\ \A i \in DOMAIN h : /\ MarkerKept(h, g, i, now)
                             /\ h[i].next # None /\ ~SlotExecuted(h[i]) => TimeKept(h, g, i)
  BY <1>0, <1>1, MaintenanceTyped
<1> HIDE DEF g
<1>3. ASSUME NEW i \in DOMAIN g, i # j
      PROVE  MarkerKept(f, g, i, now) /\ (f[i].next # None /\ ~SlotExecuted(f[i]) => TimeKept(f, g, i))
  <2>1. h[i] = f[i] /\ i \in DOMAIN f
    BY <1>1, <1>2, <1>3
  <2> QED
    BY <1>2, <2>1 DEF MarkerKept, TimeKept
<1> QED
  BY <1>1, <1>2, <1>3 DEF g, h

\* Changes of a batch that leave its jobs alone.
LEMMA NoBatchTyped ==
  ASSUME NEW stages, NEW stage \in stages, NEW w \in Nat
  PROVE  /\ NoBatch(stage) \in BatchSet(stages) /\ NoBatch(stage).stage = stage
         /\ BatchOK(NoBatch(stage), w) /\ \A j : ~Holds(NoBatch(stage), j)
<1> DEFINE b == NoBatch(stage)
<1>1. b = [stage |-> stage, queue |-> <<>>, cur |-> {}, results |-> {}, own |-> FALSE, skip |-> {}, late |-> <<>>]
  BY DEF NoBatch
<1>2. <<>> \in Seq(Jobs) /\ DOMAIN <<>> = {}
  OBVIOUS
<1>3. b \in BatchSet(stages) /\ b.stage = stage
  BY <1>1, <1>2 DEF BatchSet
<1>4. b.queue = <<>> /\ b.cur = {} /\ b.results = {}
  BY <1>1
<1> HIDE DEF b
<1>5. IsFiniteSet(b.cur) /\ Cardinality(b.cur) <= w
  BY <1>4, FS_EmptySet
<1>6. DOMAIN b.queue = {}
  BY <1>2, <1>4
<1>7. BatchOK(b, w)
  BY <1>4, <1>5, <1>6 DEF BatchOK, NoRepeats
<1>8. \A j : ~Holds(b, j)
  BY <1>4, <1>6 DEF Holds, Waits, RunsNow, HasResult
<1> QED
  BY <1>3, <1>7, <1>8 DEF b

LEMMA RereadTyped ==
  ASSUME NEW stages, NEW b \in BatchSet(stages), NEW w, BatchOK(b, w)
  PROVE  LET c == [b EXCEPT !.own = FALSE]
         IN  c \in BatchSet(stages) /\ BatchOK(c, w) /\ c.stage = b.stage /\ \A j : Holds(c, j) <=> Holds(b, j)
<1> DEFINE c == [b EXCEPT !.own = FALSE]
<1>1. /\ c \in BatchSet(stages) /\ c.stage = b.stage /\ c.cur = b.cur /\ c.queue = b.queue
      /\ c.results = b.results
  BY DEF BatchSet
<1> HIDE DEF c
<1>2. BatchOK(c, w) /\ \A j : Holds(c, j) <=> Holds(b, j)
  BY <1>1 DEF BatchOK, Holds, Waits, RunsNow, HasResult
<1> QED
  BY <1>1, <1>2 DEF c

\* A batch moves on: its jobs are no longer held, or nothing was.
LEMMA StageTyped ==
  ASSUME NEW stages, NEW b \in BatchSet(stages), NEW stage \in stages, NEW w, BatchOK(b, w),
         b.stage # "run", stage \notin {"run", "collect", "plan"}
  PROVE  LET c == [b EXCEPT !.stage = stage]
         IN  /\ c \in BatchSet(stages) /\ BatchOK(c, w) /\ c.stage = stage
             /\ c.results = b.results /\ c.late = b.late
             /\ stage # "apply" \/ b.results = {} => \A j : ~Holds(c, j)
<1> DEFINE c == [b EXCEPT !.stage = stage]
<1>1. /\ c \in BatchSet(stages) /\ c.stage = stage /\ c.cur = b.cur /\ c.queue = b.queue
      /\ c.results = b.results /\ c.late = b.late
  BY DEF BatchSet
<1> HIDE DEF c
<1>2. BatchOK(c, w)
  BY <1>1 DEF BatchOK
<1>3. stage # "apply" \/ b.results = {} => \A j : ~Holds(c, j)
  <2>1. c.cur = {} /\ DOMAIN c.queue = {}
    BY <1>1 DEF BatchOK
  <2> QED
    BY <1>1, <2>1 DEF Holds, Waits, RunsNow, HasResult
<1> QED
  BY <1>1, <1>2, <1>3 DEF c

-----------------------------------------------------------------------------
(* What the steps have in common. *)

LEMMA ServiceFacts == Service = {1, 2} /\ Client = 1 /\ Client \in Service /\ MaxConcurrentRuns \in Nat
  BY CronInstance DEF Service, Client

LEMMA PersistTyped ==
  ASSUME Types, NEW s \in Service, NEW g \in Stores, Persist(s, g)
  PROVE  /\ disk' = g /\ disk' \in Stores /\ mem' \in [Service -> Stores] /\ mem'[s] = g
         /\ \A x \in Service : x # s => mem'[x] = mem[x]
  BY DEF Types, Persist

LEMMA TickSet ==
  ASSUME Types, BatchesOK, NEW s \in Service, NEW c \in BatchSet(TickStages), BatchOK(c, MaxConcurrentRuns),
         tick' = [tick EXCEPT ![s] = c]
  PROVE  /\ tick' \in [Service -> BatchSet(TickStages)] /\ tick'[s] = c
         /\ \A x \in Service : BatchOK(tick'[x], MaxConcurrentRuns)
         /\ \A x \in Service : x # s => tick'[x] = tick[x]
  BY DEF Types, BatchesOK

LEMMA BootSet ==
  ASSUME Types, BatchesOK, NEW s \in Service, NEW c \in BatchSet(BootStages), BatchOK(c, 1),
         boot' = [boot EXCEPT ![s] = c]
  PROVE  /\ boot' \in [Service -> BatchSet(BootStages)] /\ boot'[s] = c
         /\ \A x \in Service : BatchOK(boot'[x], 1)
         /\ \A x \in Service : x # s => boot'[x] = boot[x]
  BY DEF Types, BatchesOK

\* The ticks go on, whether or not the store is read again.
TicksGoOn ==
  /\ tick' \in [Service -> BatchSet(TickStages)]
  /\ \A x \in Service : /\ BatchOK(tick'[x], MaxConcurrentRuns) /\ tick'[x].stage = tick[x].stage
                        /\ \A j : Holds(tick'[x], j) <=> Holds(tick[x], j)

LEMMA TickUnchanged == ASSUME Types, BatchesOK, tick' = tick PROVE TicksGoOn
  BY DEF Types, BatchesOK, TicksGoOn

LEMMA TickReread == ASSUME Types, BatchesOK, NEW s \in Service, Reread(s) PROVE TicksGoOn
<1> DEFINE c == [tick[s] EXCEPT !.own = FALSE]
<1>1. tick[s] \in BatchSet(TickStages) /\ BatchOK(tick[s], MaxConcurrentRuns)
  BY DEF Types, BatchesOK
<1>2. /\ c \in BatchSet(TickStages) /\ BatchOK(c, MaxConcurrentRuns) /\ c.stage = tick[s].stage
      /\ \A j : Holds(c, j) <=> Holds(tick[s], j)
  BY <1>1, RereadTyped
<1>3. tick' = [tick EXCEPT ![s] = c]
  BY DEF Reread
<1> HIDE DEF c
<1>4. /\ tick' \in [Service -> BatchSet(TickStages)] /\ tick'[s] = c
      /\ \A x \in Service : BatchOK(tick'[x], MaxConcurrentRuns)
      /\ \A x \in Service : x # s => tick'[x] = tick[x]
  BY <1>2, <1>3, TickSet
<1> QED
  BY <1>2, <1>4 DEF TicksGoOn

LEMMA ArmTyped ==
  ASSUME Types, NEW s \in Service, NEW g, Arm(s, g) PROVE timer' \subseteq timer \cup {s}
  BY DEF Types, Arm

\* A step of a tick: it may take jobs that are on disk.
LEMMA TickBasics ==
  ASSUME Basics, loose' \subseteq Jobs, NEW s \in Service, NEW c \in BatchSet(TickStages),
         BatchOK(c, MaxConcurrentRuns), tick' = [tick EXCEPT ![s] = c],
         s \in timer \/ tick[s].stage # "idle", timer' \subseteq timer \cup {s},
         UNCHANGED <<now, boot, manual, current, unborn, ops>>,
         disk' \in Stores, mem' \in [Service -> Stores], DOMAIN disk' \subseteq DOMAIN disk,
         DOMAIN mem'[s] \subseteq DOMAIN disk \cup DOMAIN mem[s],
         \A x \in Service : x # s => mem'[x] = mem[x],
         \A j : Holds(c, j) => Holds(tick[s], j) \/ j \in DOMAIN disk
  PROVE  Basics'
<1>0. Types /\ BatchesOK /\ Alone /\ Fresh /\ Unborn
  BY DEF Basics
<1>1. /\ tick' \in [Service -> BatchSet(TickStages)] /\ tick'[s] = c
      /\ \A x \in Service : BatchOK(tick'[x], MaxConcurrentRuns)
      /\ \A x \in Service : x # s => tick'[x] = tick[x]
  BY <1>0, TickSet
<1>2. Types'
  BY <1>0, <1>1 DEF Types, ManualOK
<1>3. BatchesOK'
  BY <1>0, <1>1 DEF BatchesOK
<1>4. Alone'
  BY <1>0, <1>1, ServiceFacts DEF Alone
<1>5. Fresh'
  BY <1>0, <1>1, ServiceFacts DEF Fresh
<1>6. Unborn'
  <2> SUFFICES ASSUME NEW j \in unborn'
               PROVE  /\ j \notin DOMAIN disk' /\ ~ManualHolds(j)'
                      /\ \A x \in Service : j \notin DOMAIN mem'[x] /\ ~Holds(tick'[x], j) /\ ~Holds(boot'[x], j)
    BY DEF Unborn
  <2>1. /\ j \notin DOMAIN disk /\ ~ManualHolds(j)
        /\ \A x \in Service : j \notin DOMAIN mem[x] /\ ~Holds(tick[x], j) /\ ~Holds(boot[x], j)
    BY <1>0 DEF Unborn
  <2>2. ~ManualHolds(j)'
    BY <2>1 DEF ManualHolds
  <2> QED
    BY <1>1, <2>1, <2>2
<1> QED
  BY <1>2, <1>3, <1>4, <1>5, <1>6 DEF Basics

\* A step of a start: it may take jobs of a store.
LEMMA BootBasics ==
  ASSUME Basics, loose' \subseteq Jobs, NEW s \in Service, NEW c \in BatchSet(BootStages),
         BatchOK(c, 1), boot' = [boot EXCEPT ![s] = c], c.stage # "clear", boot[s].stage # "off",
         TicksGoOn, timer' \subseteq timer \cup {s},
         UNCHANGED <<now, manual, current, unborn, ops>>,
         disk' \in Stores, mem' \in [Service -> Stores],
         DOMAIN disk' \subseteq DOMAIN disk \cup DOMAIN mem[s],
         DOMAIN mem'[s] \subseteq DOMAIN disk \cup DOMAIN mem[s],
         \A x \in Service : x # s => mem'[x] = mem[x],
         \A j : Holds(c, j) => Holds(boot[s], j) \/ j \in DOMAIN disk \cup DOMAIN mem[s]
  PROVE  Basics'
<1>0. Types /\ BatchesOK /\ Alone /\ Fresh /\ Unborn
  BY DEF Basics
<1>1. /\ boot' \in [Service -> BatchSet(BootStages)] /\ boot'[s] = c
      /\ \A x \in Service : BatchOK(boot'[x], 1)
      /\ \A x \in Service : x # s => boot'[x] = boot[x]
  BY <1>0, BootSet
<1>2. Types'
  BY <1>0, <1>1 DEF Types, ManualOK, TicksGoOn
<1>3. BatchesOK'
  BY <1>0, <1>1 DEF BatchesOK, TicksGoOn
<1>4. Alone'
  BY <1>0, <1>1, ServiceFacts DEF Alone, TicksGoOn
<1>5. Fresh'
  BY <1>0, <1>1, ServiceFacts DEF Fresh, TicksGoOn
<1>6. Unborn'
  <2> SUFFICES ASSUME NEW j \in unborn'
               PROVE  /\ j \notin DOMAIN disk' /\ ~ManualHolds(j)'
                      /\ \A x \in Service : j \notin DOMAIN mem'[x] /\ ~Holds(tick'[x], j) /\ ~Holds(boot'[x], j)
    BY DEF Unborn
  <2>1. /\ j \notin DOMAIN disk /\ ~ManualHolds(j)
        /\ \A x \in Service : j \notin DOMAIN mem[x] /\ ~Holds(tick[x], j) /\ ~Holds(boot[x], j)
    BY <1>0 DEF Unborn
  <2>2. ~ManualHolds(j)'
    BY <2>1 DEF ManualHolds
  <2>3. \A x \in Service : ~Holds(tick'[x], j)
    BY <2>1 DEF TicksGoOn
  <2> QED
    BY <1>1, <2>1, <2>2, <2>3
<1> QED
  BY <1>2, <1>3, <1>4, <1>5, <1>6 DEF Basics

\* A step of the clients or of a manual run, while the first service is serving.
LEMMA ClientBasics ==
  ASSUME Basics, loose' \subseteq Jobs, boot[Client].stage # "clear", ops' \in Nat,
         TicksGoOn, timer' \subseteq timer \cup {Client}, manual' \in ManualSet, ManualOK',
         UNCHANGED <<now, boot, current>>, unborn' \subseteq unborn,
         disk' \in Stores, mem' \in [Service -> Stores],
         \A j \in DOMAIN disk' \cup DOMAIN mem'[Client] :
           j \in DOMAIN disk \cup DOMAIN mem[Client] \/ j \notin unborn',
         \A x \in Service : x # Client => mem'[x] = mem[x],
         \A j : ManualHolds(j)' => ManualHolds(j) \/ j \in DOMAIN mem[Client]
  PROVE  Basics'
<1>0. Types /\ BatchesOK /\ Alone /\ Fresh /\ Unborn
  BY DEF Basics
<1>2. Types'
  BY <1>0 DEF Types, ManualOK, TicksGoOn, Service, Client
<1>3. BatchesOK'
  BY <1>0 DEF BatchesOK, TicksGoOn
<1>4. Alone'
  BY <1>0, ServiceFacts DEF Alone, TicksGoOn
<1>5. Fresh'
  BY <1>0, ServiceFacts DEF Fresh, TicksGoOn
<1>6. Unborn'
  <2> SUFFICES ASSUME NEW j \in unborn'
               PROVE  /\ j \notin DOMAIN disk' /\ ~ManualHolds(j)'
                      /\ \A x \in Service : j \notin DOMAIN mem'[x] /\ ~Holds(tick'[x], j) /\ ~Holds(boot'[x], j)
    BY DEF Unborn
  <2>1. /\ j \notin DOMAIN disk /\ ~ManualHolds(j)
        /\ \A x \in Service : j \notin DOMAIN mem[x] /\ ~Holds(tick[x], j) /\ ~Holds(boot[x], j)
    BY <1>0 DEF Unborn
  <2>2. ~ManualHolds(j)'
    BY <2>1, ServiceFacts
  <2>3. \A x \in Service : ~Holds(tick'[x], j)
    BY <2>1 DEF TicksGoOn
  <2>4. j \notin DOMAIN disk' /\ \A x \in Service : j \notin DOMAIN mem'[x]
    BY <2>1, ServiceFacts
  <2> QED
    BY <2>1, <2>2, <2>3, <2>4
<1> QED
  BY <1>2, <1>3, <1>4, <1>5, <1>6 DEF Basics

-----------------------------------------------------------------------------
(* The steps of a tick. *)

\* What is proved of every step.
Effect == Basics' /\ (current = 1 /\ current' = 1 => \A j \in Jobs : MarkerStep(j))

LEMMA QuietMarkers ==
  ASSUME NEW j, disk' = disk, mem'[1] = mem[1],
         ManualHolds(j)' => ManualHolds(j), Holds(tick'[1], j) => Holds(tick[1], j),
         Holds(boot'[1], j) => Holds(boot[1], j)
  PROVE  MarkerStep(j)
  BY DEF MarkerStep, Remains, Carried, MarkerKept

LEMMA TimerFiresEffect ==
  ASSUME Basics, loose' \subseteq Jobs, NEW s \in Service, TimerFires(s) PROVE Effect
<1> DEFINE c == NoBatch("collect")
<1>0. Types /\ Alone
  BY DEF Basics
<1>1. /\ c \in BatchSet(TickStages) /\ BatchOK(c, MaxConcurrentRuns) /\ \A j : ~Holds(c, j)
  BY NoBatchTyped, ServiceFacts DEF TickStages
<1>2. /\ tick' = [tick EXCEPT ![s] = c] /\ s \in timer /\ timer' = timer /\ disk' = disk /\ mem' = mem
      /\ UNCHANGED <<now, boot, manual, current, unborn, ops>>
  BY DEF TimerFires
<1> HIDE DEF c
<1>3. disk \in Stores /\ mem \in [Service -> Stores]
  BY <1>0 DEF Types
<1>4. Basics'
  BY <1>1, <1>2, <1>3, TickBasics
<1>5. ASSUME NEW j \in Jobs PROVE MarkerStep(j)
  <2>1. Holds(tick'[1], j) => Holds(tick[1], j)
    BY <1>0, <1>1, <1>2, ServiceFacts DEF Types
  <2> QED
    BY <1>2, <2>1, QuietMarkers DEF ManualHolds
<1> QED
  BY <1>4, <1>5 DEF Effect

LEMMA TickActive ==
  ASSUME Basics, NEW s \in Service, s \in timer \/ tick[s].stage # "idle", current = 1 PROVE s = 1
  BY ServiceFacts DEF Basics, Alone

LEMMA TickCollectEffect ==
  ASSUME Basics, loose' \subseteq Jobs, NEW s \in Service, TickCollect(s) PROVE Effect
<1>0. Types /\ Alone /\ BatchesOK
  BY DEF Basics
<1> DEFINE J == {j \in DOMAIN disk : Runnable(disk[j], now)}
<1>1. PICK due \in CollectRunnable(disk) :
        IF due = <<>>
        THEN /\ Persist(s, MaintenanceRecompute(disk, now, TRUE))
             /\ tick' = [tick EXCEPT ![s].stage = "end"]
        ELSE /\ Persist(s, MarkAll(disk, Range(due)))
             /\ tick' = [tick EXCEPT ![s] = Begin([@ EXCEPT !.stage = "run", !.own = TRUE], due, MaxConcurrentRuns)]
  BY DEF TickCollect
<1>2. tick[s].stage = "collect" /\ UNCHANGED <<now, timer, boot, manual, current, unborn, ops>>
  BY DEF TickCollect
<1>3. disk \in Stores /\ mem \in [Service -> Stores] /\ tick \in [Service -> BatchSet(TickStages)] /\ now \in Moment
      /\ tick[s] \in BatchSet(TickStages) /\ BatchOK(tick[s], MaxConcurrentRuns)
  BY <1>0 DEF Types, BatchesOK
<1>4. now \in Nat /\ now # None
  BY <1>3, MomentTime
<1>5. CASE due = <<>>
  <2> DEFINE g == MaintenanceRecompute(disk, now, TRUE)
             c == [tick[s] EXCEPT !.stage = "end"]
  <2>1. g \in Stores /\ DOMAIN g = DOMAIN disk /\ \A j \in DOMAIN disk : MarkerKept(disk, g, j, now)
    BY <1>3, <1>4, MaintenanceTyped
  <2>2. c \in BatchSet(TickStages) /\ BatchOK(c, MaxConcurrentRuns) /\ \A j : ~Holds(c, j)
    <3>1. tick[s].stage # "run" /\ "end" \in TickStages
      BY <1>2 DEF TickStages
    <3> QED
      BY <1>3, <3>1, StageTyped
  <2>3. Persist(s, g) /\ tick' = [tick EXCEPT ![s] = c]
    BY <1>1, <1>5
  <2> HIDE DEF g, c
  <2>4. /\ disk' = g /\ disk' \in Stores /\ mem' \in [Service -> Stores] /\ mem'[s] = g
        /\ \A x \in Service : x # s => mem'[x] = mem[x]
    BY <1>0, <2>1, <2>3, PersistTyped
  <2>5. Basics'
    BY <1>2, <2>1, <2>2, <2>3, <2>4, TickBasics
  <2>6. ASSUME NEW j \in Jobs, current = 1 PROVE MarkerStep(j)
    <3>1. s = 1
      BY <1>2, <2>6, TickActive
    <3>2. tick'[1] = c
      BY <1>3, <2>3, <3>1
    <3>3. Carried(disk', j) /\ Carried(mem'[1], j)
      BY <2>1, <2>4, <3>1 DEF Carried
    <3>4. ManualHolds(j)' => ManualHolds(j)
      BY <1>2 DEF ManualHolds
    <3> QED
      BY <1>2, <2>2, <3>2, <3>3, <3>4 DEF MarkerStep, Remains
  <2> QED
    BY <2>5, <2>6 DEF Effect
<1>6. CASE due # <<>>
  <2> DEFINE g == MarkAll(disk, Range(due))
             b == [tick[s] EXCEPT !.stage = "run", !.own = TRUE]
             c == Begin(b, due, MaxConcurrentRuns)
  <2>1. due \in Seq(Jobs) /\ NoRepeats(due) /\ \A i \in DOMAIN due : due[i] \in J
    <3>1. due \in SetToSeqs(J)
      BY DEF CollectRunnable, InOrder
    <3>2. J \subseteq Jobs
      BY <1>3, StoreDomain
    <3> HIDE DEF J
    <3> QED
      BY <3>1, <3>2, SeqsOf
  <2>2. /\ g \in Stores /\ DOMAIN g = DOMAIN disk
        /\ \A j \in DOMAIN disk : MarkerKept(disk, g, j, now)
        /\ \A j \in DOMAIN disk : j \in Range(due) => g[j].running # None
    BY <1>3, MarkAllTyped
  <2>3. b \in BatchSet(TickStages) /\ b.stage = "run" /\ b.results = {}
    <3>1. tick[s].results = {}
      BY <1>2, <1>3 DEF BatchOK
    <3> QED
      BY <1>3, <3>1 DEF BatchSet, TickStages
  <2>4. Persist(s, g) /\ tick' = [tick EXCEPT ![s] = c]
    BY <1>1, <1>6
  <2> HIDE DEF b, g
  <2>5. /\ c \in BatchSet(TickStages) /\ BatchOK(c, MaxConcurrentRuns) /\ c.stage = "run" /\ c.results = {}
        /\ \A j : Waits(c, j) \/ RunsNow(c, j) => \E i \in DOMAIN due : due[i] = j
    <3> HIDE DEF J
    <3>1. due \in Seq(Jobs) /\ NoRepeats(due) /\ now \in Moment /\ MaxConcurrentRuns \in Nat
      BY <1>3, <2>1, ServiceFacts
    <3>2. /\ c \in BatchSet(TickStages) /\ BatchOK(c, MaxConcurrentRuns) /\ c.stage = "run"
          /\ c.results = b.results
          /\ \A j : Waits(c, j) \/ RunsNow(c, j) => \E i \in DOMAIN due : due[i] = j
      BY <2>3, <3>1, BeginTyped
    <3> QED
      BY <2>3, <3>2
  <2> HIDE DEF c
  <2>6. \A j : Holds(c, j) => j \in J /\ j \in Range(due)
    BY <2>1, <2>5 DEF Holds, HasResult, Range
  <2>7. /\ disk' = g /\ disk' \in Stores /\ mem' \in [Service -> Stores] /\ mem'[s] = g
        /\ \A x \in Service : x # s => mem'[x] = mem[x]
    BY <1>0, <2>2, <2>4, PersistTyped
  <2>8. Basics'
    BY <1>2, <2>2, <2>4, <2>5, <2>6, <2>7, TickBasics
  <2>9. ASSUME NEW j \in Jobs, current = 1 PROVE MarkerStep(j)
    <3>1. s = 1
      BY <1>2, <2>9, TickActive
    <3>2. tick'[1] = c /\ disk' = g /\ mem'[1] = g /\ boot' = boot
      BY <1>2, <1>3, <2>4, <2>7, <3>1
    <3>3. ManualHolds(j)' <=> ManualHolds(j)
      BY <1>2 DEF ManualHolds
    <3>4. CASE Holds(c, j)
      <4>1. j \in DOMAIN disk /\ disk[j].running = None
        BY <2>6, <3>4 DEF Runnable
      <4>2. HasMarker(disk', j) /\ HasMarker(mem'[1], j)
        BY <2>2, <2>6, <3>2, <3>4 DEF HasMarker
      <4>3. ~(ManualHolds(j) \/ Holds(tick[1], j) \/ Holds(boot[1], j)) => OneHolder(j)'
        BY <3>2, <3>3 DEF OneHolder
      <4> QED
        BY <4>1, <4>2, <4>3 DEF MarkerStep, Taking
    <3>5. CASE ~Holds(c, j)
      <4>1. Carried(disk', j) /\ Carried(mem'[1], j)
        BY <2>2, <3>2 DEF Carried
      <4> QED
        BY <3>2, <3>3, <3>5, <4>1 DEF MarkerStep, Remains
    <3> QED
      BY <3>4, <3>5
  <2> QED
    BY <2>8, <2>9 DEF Effect
<1> QED
  BY <1>5, <1>6

LEMMA TickRunEndEffect ==
  ASSUME Basics, loose' \subseteq Jobs, NEW s \in Service, NEW r \in tick[s].cur, NEW status \in ResultStatus,
         TickRunEnd(s, r, status)
  PROVE  Effect
<1>0. Types /\ Alone /\ BatchesOK
  BY DEF Basics
<1> DEFINE c == EndRun(tick[s], r, status)
           began == {run.job : run \in c.cur \ tick[s].cur}
           g == MarkAll(mem[s], began)
<1>1. /\ tick[s].stage = "run" /\ tick' = [tick EXCEPT ![s] = c]
      /\ mem' = IF tick[s].own THEN [mem EXCEPT ![s] = g] ELSE mem
      /\ UNCHANGED <<now, disk, timer, boot, manual, current, unborn, ops>>
  BY DEF TickRunEnd
<1>2. /\ disk \in Stores /\ mem \in [Service -> Stores] /\ tick \in [Service -> BatchSet(TickStages)]
      /\ now \in Moment /\ tick[s] \in BatchSet(TickStages) /\ BatchOK(tick[s], MaxConcurrentRuns)
      /\ mem[s] \in Stores
  BY <1>0 DEF Types, BatchesOK
<1>3. /\ c \in BatchSet(TickStages) /\ BatchOK(c, MaxConcurrentRuns)
      /\ \A j : Holds(c, j) => Holds(tick[s], j)
  <2>1. {"run", "apply"} \subseteq TickStages
    BY DEF TickStages
  <2> QED
    BY <1>1, <1>2, <2>1, EndRunTyped, ServiceFacts
<1>4. g \in Stores /\ DOMAIN g = DOMAIN mem[s] /\ \A j \in DOMAIN mem[s] : MarkerKept(mem[s], g, j, now)
  BY <1>2, MarkAllTyped
<1> HIDE DEF g, c
<1>5. /\ mem' \in [Service -> Stores] /\ (mem'[s] = g \/ mem'[s] = mem[s])
      /\ \A x \in Service : x # s => mem'[x] = mem[x]
  BY <1>1, <1>2, <1>4
<1>6. Basics'
  BY <1>1, <1>2, <1>3, <1>4, <1>5, TickBasics
<1>7. ASSUME NEW j \in Jobs, current = 1 PROVE MarkerStep(j)
  <2>1. s = 1
    BY <1>1, <1>7, TickActive
  <2>2. tick'[1] = c /\ disk' = disk /\ boot' = boot
    BY <1>1, <1>2, <2>1
  <2>3. ManualHolds(j)' <=> ManualHolds(j)
    BY <1>1 DEF ManualHolds
  <2>4. Carried(disk', j)
    BY <2>2 DEF Carried, MarkerKept
  <2>5. Carried(mem'[1], j)
    <3>1. CASE mem'[s] = g
      BY <1>4, <2>1, <3>1 DEF Carried
    <3>2. CASE mem'[s] = mem[s]
      BY <2>1, <3>2 DEF Carried, MarkerKept
    <3> QED
      BY <1>5, <3>1, <3>2
  <2> QED
    BY <1>3, <2>1, <2>2, <2>3, <2>4, <2>5 DEF MarkerStep, Remains
<1> QED
  BY <1>6, <1>7 DEF Effect

LEMMA TickApplyEffect ==
  ASSUME Basics, loose' \subseteq Jobs, NEW s \in Service, TickApply(s) PROVE Effect
<1>0. Types /\ Alone /\ BatchesOK
  BY DEF Basics
<1> DEFINE c == NoBatch("end")
           g == MaintenanceRecompute(ApplyAll(disk, tick[s].results), now, FALSE)
<1>1. /\ tick[s].stage = "apply" /\ tick' = [tick EXCEPT ![s] = c] /\ Persist(s, g)
      /\ UNCHANGED <<now, timer, boot, manual, current, unborn, ops>>
  BY DEF TickApply
<1>2. /\ disk \in Stores /\ tick \in [Service -> BatchSet(TickStages)]
      /\ now \in Moment /\ tick[s] \in BatchSet(TickStages)
  BY <1>0 DEF Types
<1>3. tick[s].results \in SUBSET ResultSet
  BY <1>2 DEF BatchSet
<1>4. /\ g \in Stores /\ DOMAIN g \subseteq DOMAIN disk
      /\ \A j \in DOMAIN g : (\A res \in tick[s].results : res.job # j) => MarkerKept(disk, g, j, now)
  BY <1>2, <1>3, AppliedTyped
<1>5. /\ c \in BatchSet(TickStages) /\ BatchOK(c, MaxConcurrentRuns) /\ \A j : ~Holds(c, j)
  BY NoBatchTyped, ServiceFacts DEF TickStages
<1> HIDE DEF g, c
<1>6. /\ disk' = g /\ disk' \in Stores /\ mem' \in [Service -> Stores] /\ mem'[s] = g
      /\ \A x \in Service : x # s => mem'[x] = mem[x]
  BY <1>0, <1>1, <1>4, PersistTyped
<1>7. Basics'
  BY <1>1, <1>4, <1>5, <1>6, TickBasics
<1>8. ASSUME NEW j \in Jobs, current = 1 PROVE MarkerStep(j)
  <2>1. s = 1
    BY <1>1, <1>8, TickActive
  <2>2. tick'[1] = c /\ disk' = g /\ mem'[1] = g /\ boot' = boot
    BY <1>1, <1>2, <1>6, <2>1
  <2>3. ManualHolds(j)' <=> ManualHolds(j)
    BY <1>1 DEF ManualHolds
  <2>4. ASSUME OneHolder(j), ManualHolds(j)' \/ Holds(tick'[1], j) \/ Holds(boot'[1], j)
        PROVE  Carried(disk', j) /\ Carried(mem'[1], j)
    <3>1. ~Holds(tick[1], j)
      BY <1>5, <2>2, <2>3, <2>4 DEF OneHolder
    <3>2. \A res \in tick[s].results : res.job # j
      BY <1>1, <2>1, <3>1 DEF Holds, HasResult
    <3> QED
      BY <1>4, <2>2, <3>2 DEF Carried
  <2> QED
    BY <1>5, <2>2, <2>3, <2>4 DEF MarkerStep, Remains
<1> QED
  BY <1>7, <1>8 DEF Effect

LEMMA TickEndEffect ==
  ASSUME Basics, loose' \subseteq Jobs, NEW s \in Service, TickEnd(s) PROVE Effect
<1>0. Types
  BY DEF Basics
<1> DEFINE c == NoBatch("idle")
<1>1. /\ tick[s].stage = "end" /\ tick' = [tick EXCEPT ![s] = c] /\ Arm(s, mem[s])
      /\ UNCHANGED <<now, disk, mem, boot, manual, current, unborn, ops>>
  BY DEF TickEnd
<1>2. disk \in Stores /\ mem \in [Service -> Stores] /\ tick \in [Service -> BatchSet(TickStages)]
  BY <1>0 DEF Types
<1>3. c \in BatchSet(TickStages) /\ BatchOK(c, MaxConcurrentRuns) /\ \A j : ~Holds(c, j)
  BY NoBatchTyped, ServiceFacts DEF TickStages
<1>4. timer' \subseteq timer \cup {s}
  BY <1>0, <1>1, ArmTyped
<1> HIDE DEF c
<1>5. Basics'
  BY <1>1, <1>2, <1>3, <1>4, TickBasics
<1>6. ASSUME NEW j \in Jobs PROVE MarkerStep(j)
  <2>1. Holds(tick'[1], j) => Holds(tick[1], j)
    BY <1>1, <1>2, <1>3, ServiceFacts
  <2> QED
    BY <1>1, <2>1, QuietMarkers DEF ManualHolds
<1> QED
  BY <1>5, <1>6 DEF Effect

-----------------------------------------------------------------------------
(* The steps of a start. *)

LEMMA BootActive ==
  ASSUME Basics, NEW s \in Service, boot[s].stage # "off", current = 1 PROVE s = 1
  BY ServiceFacts DEF Basics, Alone

LEMMA Prefix ==
  ASSUME NEW q \in Seq(Jobs), NoRepeats(q), NEW n \in Nat, n <= Len(q)
  PROVE  /\ SubSeq(q, 1, n) \in Seq(Jobs) /\ NoRepeats(SubSeq(q, 1, n))
         /\ \A i \in DOMAIN SubSeq(q, 1, n) : i \in DOMAIN q /\ SubSeq(q, 1, n)[i] = q[i]
         /\ SubSeq(q, n + 1, Len(q)) \in Seq(Jobs)
<1>1. Len(q) \in Nat /\ DOMAIN q = 1..Len(q) /\ \A i \in 1..Len(q) : q[i] \in Jobs
  BY LenProperties, ElementOfSeq
<1> DEFINE p == SubSeq(q, 1, n)
<1>2. /\ p \in Seq(Jobs) /\ Len(p) = IF 1 <= n THEN n - 1 + 1 ELSE 0
      /\ \A i \in 1..(n - 1 + 1) : p[i] = q[1 + i - 1]
  <2>1. 1 \in Int /\ n \in Int /\ \A i \in 1..n : q[i] \in Jobs
    BY <1>1
  <2> HIDE DEF p
  <2> QED
    BY <2>1, SubSeqProperties DEF p
<1>3. SubSeq(q, n + 1, Len(q)) \in Seq(Jobs)
  <2>1. n + 1 \in Int /\ Len(q) \in Int /\ \A i \in (n + 1)..Len(q) : q[i] \in Jobs
    BY <1>1
  <2> QED
    BY <2>1, SubSeqProperties
<1> HIDE DEF p
<1>4. DOMAIN p = 1..Len(p)
  BY <1>2, LenProperties
<1>5. Len(p) = n
  <2>1. CASE 1 <= n
    BY <1>2, <2>1
  <2>2. CASE ~(1 <= n)
    BY <1>2, <2>2
  <2> QED
    BY <2>1, <2>2
<1>6. \A i \in DOMAIN p : i \in DOMAIN q /\ p[i] = q[i]
  <2> SUFFICES ASSUME NEW i \in DOMAIN p PROVE i \in DOMAIN q /\ p[i] = q[i]
    OBVIOUS
  <2>1. i \in 1..n /\ i \in 1..(n - 1 + 1) /\ 1 + i - 1 = i /\ i \in 1..Len(q)
    BY <1>1, <1>4, <1>5
  <2> QED
    BY <1>1, <1>2, <2>1
<1>7. NoRepeats(p)
  BY <1>6 DEF NoRepeats
<1> QED
  BY <1>2, <1>3, <1>6, <1>7 DEF p

LEMMA BootClearEffect ==
  ASSUME Basics, loose' \subseteq Jobs, NEW s \in Service, BootClear(s) PROVE Effect
<1>0. Types /\ Alone /\ BatchesOK /\ Fresh
  BY DEF Basics
<1> DEFINE marked == {j \in DOMAIN disk : disk[j].running # None}
           g == [j \in DOMAIN disk |-> Mark(disk[j], None)]
           c == [NoBatch("plan") EXCEPT !.skip = marked]
<1>1. /\ boot[s].stage = "clear" /\ Persist(s, g) /\ boot' = [boot EXCEPT ![s] = c]
      /\ UNCHANGED <<now, timer, tick, manual, current, unborn, ops>>
  BY DEF BootClear
<1>2. disk \in Stores /\ boot \in [Service -> BatchSet(BootStages)]
  BY <1>0 DEF Types
<1>3. c \in BatchSet(BootStages) /\ BatchOK(c, 1) /\ c.stage = "plan" /\ \A j : ~Holds(c, j)
  <2>1. /\ NoBatch("plan") \in BatchSet(BootStages) /\ NoBatch("plan").stage = "plan"
        /\ BatchOK(NoBatch("plan"), 1) /\ \A j : ~Holds(NoBatch("plan"), j)
    BY NoBatchTyped DEF BootStages
  <2>2. marked \in SUBSET Jobs
    BY <1>2, StoreDomain
  <2> HIDE DEF marked
  <2>3. /\ c \in BatchSet(BootStages) /\ c.stage = "plan" /\ c.cur = NoBatch("plan").cur
        /\ c.queue = NoBatch("plan").queue /\ c.results = NoBatch("plan").results
    BY <2>1, <2>2 DEF BatchSet
  <2> HIDE DEF c
  <2>4. BatchOK(c, 1)
    BY <2>1, <2>3 DEF BatchOK
  <2> QED
    BY <2>3, <2>4 DEF Holds
<1>4. g \in Stores /\ DOMAIN g = DOMAIN disk
  BY <1>2, ClearedTyped
<1> HIDE DEF g, c
<1>5. /\ disk' = g /\ disk' \in Stores /\ mem' \in [Service -> Stores] /\ mem'[s] = g
      /\ \A x \in Service : x # s => mem'[x] = mem[x]
  BY <1>0, <1>1, <1>4, PersistTyped
<1>6. TicksGoOn
  BY <1>0, <1>1, TickUnchanged
<1>7. Basics'
  BY <1>1, <1>3, <1>4, <1>5, <1>6, BootBasics
<1>8. ASSUME NEW j \in Jobs, current = 1 PROVE MarkerStep(j)
  <2>1. s = 1
    BY <1>1, <1>8, BootActive
  <2>2. ~ManualHolds(j)' /\ ~Holds(tick'[1], j) /\ ~Holds(boot'[1], j)
    BY <1>0, <1>1, <1>2, <1>3, <2>1 DEF Fresh, ManualHolds, Holds
  <2> QED
    BY <2>2 DEF MarkerStep, Remains
<1> QED
  BY <1>7, <1>8 DEF Effect

LEMMA BootPlanEffect ==
  ASSUME Basics, loose' \subseteq Jobs, NEW s \in Service, BootPlan(s) PROVE Effect
<1>0. Types /\ Alone /\ BatchesOK
  BY DEF Basics
<1> DEFINE J == {j \in DOMAIN mem[s] \ boot[s].skip : Missed(mem[s][j], now)}
<1>1. PICK missed \in SetToSeqs(J) : PlanMissed(s, missed)
  BY DEF BootPlan, InOrder
<1>2. boot[s].stage = "plan" /\ UNCHANGED <<now, timer, tick, manual, current, unborn, ops>>
  BY DEF BootPlan
<1>3. /\ disk \in Stores /\ mem \in [Service -> Stores] /\ boot \in [Service -> BatchSet(BootStages)]
      /\ now \in Moment /\ boot[s] \in BatchSet(BootStages) /\ BatchOK(boot[s], 1) /\ mem[s] \in Stores
  BY <1>0 DEF Types, BatchesOK
<1>4. missed \in Seq(Jobs) /\ NoRepeats(missed) /\ \A i \in DOMAIN missed : missed[i] \in J
  <2>1. J \subseteq Jobs
    BY <1>3, StoreDomain
  <2> HIDE DEF J
  <2> QED
    BY <1>1, <2>1, SeqsOf
<1>5. TicksGoOn
  BY <1>0, <1>2, TickUnchanged
<1>6. boot[s].results = {} /\ boot[s].stage # "run"
  BY <1>2, <1>3 DEF BatchOK
<1> DEFINE n == IF Len(missed) < MaxMissedJobsPerRestart THEN Len(missed) ELSE MaxMissedJobsPerRestart
           chosen == SubSeq(missed, 1, n)
           b == [boot[s] EXCEPT !.late = SubSeq(missed, n + 1, Len(missed))]
           g == MarkAll(mem[s], Range(chosen))
<1>7. IF missed = <<>>
      THEN boot' = [boot EXCEPT ![s].stage = "final"] /\ UNCHANGED <<disk, mem>>
      ELSE /\ Persist(s, g)
           /\ boot' = [boot EXCEPT ![s] =
                         IF n = 0 THEN [b EXCEPT !.stage = "apply"] ELSE Begin([b EXCEPT !.stage = "run"], chosen, 1)]
  BY <1>1 DEF PlanMissed
<1>8. n \in Nat /\ n <= Len(missed)
  <2>1. Len(missed) \in Nat /\ MaxMissedJobsPerRestart \in Nat
    BY <1>4, LenProperties, CronInstance
  <2> QED
    BY <2>1
<1>9. CASE missed = <<>>
  <2> DEFINE c == [boot[s] EXCEPT !.stage = "final"]
  <2>1. boot' = [boot EXCEPT ![s] = c] /\ disk' = disk /\ mem' = mem
    BY <1>7, <1>9
  <2>2. c \in BatchSet(BootStages) /\ BatchOK(c, 1) /\ c.stage = "final" /\ \A j : ~Holds(c, j)
    <3>1. "final" \in BootStages
      BY DEF BootStages
    <3> QED
      BY <1>3, <1>6, <3>1, StageTyped
  <2> HIDE DEF c
  <2>3. Basics'
    BY <1>2, <1>3, <1>5, <2>1, <2>2, BootBasics
  <2>4. ASSUME NEW j \in Jobs PROVE MarkerStep(j)
    <3>1. Holds(boot'[1], j) => Holds(boot[1], j)
      BY <1>3, <2>1, <2>2, ServiceFacts
    <3> QED
      BY <1>2, <2>1, <3>1, QuietMarkers DEF ManualHolds
  <2> QED
    BY <2>3, <2>4 DEF Effect
<1>10. CASE missed # <<>>
  <2> DEFINE c == IF n = 0 THEN [b EXCEPT !.stage = "apply"] ELSE Begin([b EXCEPT !.stage = "run"], chosen, 1)
  <2>1. Persist(s, g) /\ boot' = [boot EXCEPT ![s] = c]
    BY <1>7, <1>10
  <2>2. /\ chosen \in Seq(Jobs) /\ NoRepeats(chosen)
        /\ \A i \in DOMAIN chosen : i \in DOMAIN missed /\ chosen[i] = missed[i]
        /\ SubSeq(missed, n + 1, Len(missed)) \in Seq(Jobs)
    <3> HIDE DEF n, J
    <3> QED
      BY <1>4, <1>8, Prefix
  <2>3. \A i \in DOMAIN chosen : chosen[i] \in J
    BY <1>4, <2>2
  <2>4. /\ b \in BatchSet(BootStages) /\ BatchOK(b, 1) /\ b.stage = "plan" /\ b.results = {}
    <3> HIDE DEF n
    <3>1. /\ b \in BatchSet(BootStages) /\ b.stage = "plan" /\ b.results = {}
          /\ b.cur = boot[s].cur /\ b.queue = boot[s].queue
      BY <1>2, <1>3, <1>6, <2>2 DEF BatchSet
    <3> HIDE DEF b
    <3> QED
      BY <1>2, <1>3, <3>1 DEF BatchOK
  <2>5. /\ g \in Stores /\ DOMAIN g = DOMAIN mem[s]
        /\ \A j \in DOMAIN mem[s] : MarkerKept(mem[s], g, j, now)
        /\ \A j \in DOMAIN mem[s] : j \in Range(chosen) => g[j].running # None
    BY <1>3, MarkAllTyped
  <2> HIDE DEF b, g, chosen, n
  <2>6. /\ c \in BatchSet(BootStages) /\ BatchOK(c, 1) /\ c.stage # "clear"
        /\ \A j : Holds(c, j) => \E i \in DOMAIN chosen : chosen[i] = j
    <3>1. CASE n = 0
      <4>1. c = [b EXCEPT !.stage = "apply"]
        BY <3>1
      <4> HIDE DEF c
      <4>2. "apply" \in BootStages /\ b.stage # "run"
        BY <2>4 DEF BootStages
      <4> QED
        BY <2>4, <4>1, <4>2, StageTyped
    <3>2. CASE n # 0
      <4> DEFINE b2 == [b EXCEPT !.stage = "run"]
      <4>1. c = Begin(b2, chosen, 1)
        BY <3>2
      <4>2. b2 \in BatchSet(BootStages) /\ b2.stage = "run" /\ b2.results = {}
        BY <2>4 DEF BatchSet, BootStages
      <4> HIDE DEF c, b2
      <4>3. /\ c \in BatchSet(BootStages) /\ BatchOK(c, 1) /\ c.stage = "run" /\ c.results = b2.results
            /\ \A j : Waits(c, j) \/ RunsNow(c, j) => \E i \in DOMAIN chosen : chosen[i] = j
        <5> HIDE DEF J
        <5>1. chosen \in Seq(Jobs) /\ NoRepeats(chosen) /\ now \in Moment /\ 1 \in Nat
          BY <1>3, <2>2
        <5> QED
          BY <4>1, <4>2, <5>1, BeginTyped
      <4>4. \A j : Holds(c, j) => \E i \in DOMAIN chosen : chosen[i] = j
        BY <4>2, <4>3 DEF Holds, HasResult
      <4> QED
        BY <4>3, <4>4
    <3> QED
      BY <3>1, <3>2
  <2> HIDE DEF c
  <2>7. \A j : Holds(c, j) => j \in J /\ j \in Range(chosen)
    BY <2>3, <2>6 DEF Range
  <2>8. /\ disk' = g /\ disk' \in Stores /\ mem' \in [Service -> Stores] /\ mem'[s] = g
        /\ \A x \in Service : x # s => mem'[x] = mem[x]
    BY <1>0, <2>1, <2>5, PersistTyped
  <2>9. Basics'
    BY <1>2, <1>5, <2>1, <2>5, <2>6, <2>7, <2>8, BootBasics
  <2>10. ASSUME NEW j \in Jobs, current = 1 PROVE MarkerStep(j)
    <3>1. s = 1
      BY <1>2, <2>10, BootActive
    <3>2. boot'[1] = c /\ disk' = g /\ mem'[1] = g /\ tick' = tick
      BY <1>2, <1>3, <2>1, <2>8, <3>1
    <3>3. ManualHolds(j)' <=> ManualHolds(j)
      BY <1>2 DEF ManualHolds
    <3>4. CASE Holds(c, j)
      <4>1. j \in DOMAIN mem[1] /\ mem[1][j].running = None
        BY <2>7, <3>1, <3>4 DEF Missed
      <4>2. HasMarker(disk', j) /\ HasMarker(mem'[1], j)
        BY <2>5, <2>7, <3>2, <3>4 DEF HasMarker
      <4>3. ~(ManualHolds(j) \/ Holds(tick[1], j) \/ Holds(boot[1], j)) => OneHolder(j)'
        BY <3>2, <3>3 DEF OneHolder
      <4> QED
        BY <4>1, <4>2, <4>3 DEF MarkerStep, Taking
    <3>5. CASE ~Holds(c, j)
      <4>1. Carried(disk', j) /\ Carried(mem'[1], j)
        BY <2>5, <3>1, <3>2 DEF Carried
      <4> QED
        BY <3>2, <3>3, <3>5, <4>1 DEF MarkerStep, Remains
    <3> QED
      BY <3>4, <3>5
  <2> QED
    BY <2>9, <2>10 DEF Effect
<1> QED
  BY <1>9, <1>10

LEMMA BootRunEndEffect ==
  ASSUME Basics, loose' \subseteq Jobs, NEW s \in Service, NEW r \in boot[s].cur, NEW status \in ResultStatus,
         BootRunEnd(s, r, status)
  PROVE  Effect
<1>0. Types /\ BatchesOK
  BY DEF Basics
<1> DEFINE c == EndRun(boot[s], r, status)
<1>1. /\ boot[s].stage = "run" /\ boot' = [boot EXCEPT ![s] = c]
      /\ UNCHANGED <<now, disk, mem, timer, tick, manual, current, unborn, ops>>
  BY DEF BootRunEnd
<1>2. /\ disk \in Stores /\ mem \in [Service -> Stores] /\ boot \in [Service -> BatchSet(BootStages)]
      /\ now \in Moment /\ boot[s] \in BatchSet(BootStages) /\ BatchOK(boot[s], 1)
  BY <1>0 DEF Types, BatchesOK
<1>3. /\ c \in BatchSet(BootStages) /\ BatchOK(c, 1) /\ c.stage # "clear"
      /\ \A j : Holds(c, j) => Holds(boot[s], j)
  <2>1. {"run", "apply"} \subseteq BootStages
    BY DEF BootStages
  <2> QED
    BY <1>1, <1>2, <2>1, EndRunTyped
<1> HIDE DEF c
<1>4. TicksGoOn
  BY <1>0, <1>1, TickUnchanged
<1>5. Basics'
  BY <1>1, <1>2, <1>3, <1>4, BootBasics
<1>6. ASSUME NEW j \in Jobs PROVE MarkerStep(j)
  <2>1. Holds(boot'[1], j) => Holds(boot[1], j)
    BY <1>1, <1>2, <1>3, ServiceFacts
  <2> QED
    BY <1>1, <2>1, QuietMarkers DEF ManualHolds
<1> QED
  BY <1>5, <1>6 DEF Effect

LEMMA BootApplyEffect ==
  ASSUME Basics, loose' \subseteq Jobs, NEW s \in Service, BootApply(s) PROVE Effect
<1>0. Types /\ Alone /\ BatchesOK
  BY DEF Basics
<1> DEFINE c == [boot[s] EXCEPT !.stage = "final"]
           g == MaintenanceRecompute(Staggered(ApplyAll(disk, boot[s].results), boot[s].late), now, FALSE)
<1>1. /\ boot[s].stage = "apply" /\ boot' = [boot EXCEPT ![s] = c] /\ Persist(s, g) /\ Reread(s)
      /\ UNCHANGED <<now, timer, manual, current, unborn, ops>>
  BY DEF BootApply
<1>2. /\ disk \in Stores /\ boot \in [Service -> BatchSet(BootStages)]
      /\ now \in Moment /\ boot[s] \in BatchSet(BootStages) /\ BatchOK(boot[s], 1)
  BY <1>0 DEF Types, BatchesOK
<1>3. boot[s].results \in SUBSET ResultSet /\ boot[s].late \in Seq(Jobs)
  BY <1>2 DEF BatchSet
<1>4. /\ g \in Stores /\ DOMAIN g \subseteq DOMAIN disk
      /\ \A j \in DOMAIN g : (\A res \in boot[s].results : res.job # j) => MarkerKept(disk, g, j, now)
  BY <1>2, <1>3, CaughtUpTyped
<1>5. c \in BatchSet(BootStages) /\ BatchOK(c, 1) /\ c.stage = "final" /\ \A j : ~Holds(c, j)
  <2>1. "final" \in BootStages /\ boot[s].stage # "run"
    BY <1>1 DEF BootStages
  <2> QED
    BY <1>2, <2>1, StageTyped
<1> HIDE DEF g, c
<1>6. /\ disk' = g /\ disk' \in Stores /\ mem' \in [Service -> Stores] /\ mem'[s] = g
      /\ \A x \in Service : x # s => mem'[x] = mem[x]
  BY <1>0, <1>1, <1>4, PersistTyped
<1>7. TicksGoOn
  BY <1>0, <1>1, TickReread
<1>8. Basics'
  BY <1>1, <1>4, <1>5, <1>6, <1>7, BootBasics
<1>9. ASSUME NEW j \in Jobs, current = 1 PROVE MarkerStep(j)
  <2>1. s = 1
    BY <1>1, <1>9, BootActive
  <2>2. boot'[1] = c /\ disk' = g /\ mem'[1] = g
    BY <1>1, <1>2, <1>6, <2>1
  <2>3. (ManualHolds(j)' <=> ManualHolds(j)) /\ (Holds(tick'[1], j) <=> Holds(tick[1], j))
    BY <1>1, <1>7, ServiceFacts DEF ManualHolds, TicksGoOn
  <2>4. ASSUME OneHolder(j), ManualHolds(j)' \/ Holds(tick'[1], j) \/ Holds(boot'[1], j)
        PROVE  Carried(disk', j) /\ Carried(mem'[1], j)
    <3>1. ~Holds(boot[1], j)
      BY <1>5, <2>2, <2>3, <2>4 DEF OneHolder
    <3>2. \A res \in boot[s].results : res.job # j
      BY <1>1, <2>1, <3>1 DEF Holds, HasResult
    <3> QED
      BY <1>4, <2>2, <3>2 DEF Carried
  <2> QED
    BY <1>5, <2>2, <2>3, <2>4 DEF MarkerStep, Remains
<1> QED
  BY <1>8, <1>9 DEF Effect

LEMMA BootFinalEffect ==
  ASSUME Basics, loose' \subseteq Jobs, NEW s \in Service, BootFinal(s) PROVE Effect
<1>0. Types /\ Alone /\ BatchesOK
  BY DEF Basics
<1> DEFINE c == NoBatch("up")
           g == RecomputeNextRuns(disk, now)
<1>1. /\ boot[s].stage = "final" /\ boot' = [boot EXCEPT ![s] = c] /\ Persist(s, g) /\ Arm(s, g) /\ Reread(s)
      /\ UNCHANGED <<now, manual, current, unborn, ops>>
  BY DEF BootFinal
<1>2. disk \in Stores /\ boot \in [Service -> BatchSet(BootStages)] /\ now \in Moment
  BY <1>0 DEF Types
<1>3. g \in Stores /\ DOMAIN g = DOMAIN disk /\ \A j \in DOMAIN disk : MarkerKept(disk, g, j, now)
  BY <1>2, MomentTime, RecomputeTyped
<1>4. c \in BatchSet(BootStages) /\ BatchOK(c, 1) /\ c.stage = "up" /\ \A j : ~Holds(c, j)
  BY NoBatchTyped DEF BootStages
<1> HIDE DEF g, c
<1>5. /\ disk' = g /\ disk' \in Stores /\ mem' \in [Service -> Stores] /\ mem'[s] = g
      /\ \A x \in Service : x # s => mem'[x] = mem[x]
  BY <1>0, <1>1, <1>3, PersistTyped
<1>6. TicksGoOn /\ timer' \subseteq timer \cup {s}
  BY <1>0, <1>1, TickReread, ArmTyped
<1>7. Basics'
  BY <1>1, <1>3, <1>4, <1>5, <1>6, BootBasics
<1>8. ASSUME NEW j \in Jobs, current = 1 PROVE MarkerStep(j)
  <2>1. s = 1
    BY <1>1, <1>8, BootActive
  <2>2. boot'[1] = c /\ disk' = g /\ mem'[1] = g
    BY <1>1, <1>2, <1>5, <2>1
  <2>3. (ManualHolds(j)' <=> ManualHolds(j)) /\ (Holds(tick'[1], j) <=> Holds(tick[1], j))
    BY <1>1, <1>6, ServiceFacts DEF ManualHolds, TicksGoOn
  <2>4. Carried(disk', j) /\ Carried(mem'[1], j)
    BY <1>3, <2>2 DEF Carried
  <2> QED
    BY <1>4, <2>2, <2>3, <2>4 DEF MarkerStep, Remains
<1> QED
  BY <1>7, <1>8 DEF Effect

-----------------------------------------------------------------------------
(* The steps of the clients and of the manual runs. *)

LEMMA ServingFacts ==
  ASSUME Serving PROVE boot[Client].stage # "clear"
  BY DEF Serving

LEMMA BusyManual ==
  ASSUME Basics, manual.stage # "none" PROVE boot[Client].stage # "clear" /\ manual.job \in Jobs
  BY ServiceFacts DEF Basics, Fresh, Types, ManualOK

\* A client writes its store; the jobs that are taken keep their markers.
LEMMA StoreEffect ==
  ASSUME Basics, loose' \subseteq Jobs, NEW g \in Stores, Persist(Client, g), Serving, ops' \in Nat,
         timer' \subseteq timer \cup {Client}, UNCHANGED <<now, tick, boot, manual, current>>,
         unborn' \subseteq unborn,
         \A i \in DOMAIN g : \/ i \in unborn \ unborn'
                            \/ (i \in DOMAIN mem[Client] /\ MarkerKept(mem[Client], g, i, now))
  PROVE  Effect
<1>0. Types /\ BatchesOK /\ Unborn
  BY DEF Basics
<1>1. /\ disk' = g /\ disk' \in Stores /\ mem' \in [Service -> Stores] /\ mem'[Client] = g
      /\ \A x \in Service : x # Client => mem'[x] = mem[x]
  BY <1>0, PersistTyped, ServiceFacts
<1>2. TicksGoOn
  BY <1>0, TickUnchanged
<1>3. manual' \in ManualSet /\ ManualOK'
  BY <1>0 DEF Types, ManualOK
<1>4. \A j : ManualHolds(j)' <=> ManualHolds(j)
  BY DEF ManualHolds
<1>5. Basics'
  BY <1>1, <1>2, <1>3, <1>4, ServingFacts, ClientBasics
<1>6. ASSUME NEW j \in Jobs PROVE MarkerStep(j)
  <2>1. ASSUME ManualHolds(j) \/ Holds(tick[1], j) \/ Holds(boot[1], j)
        PROVE  Carried(disk', j) /\ Carried(mem'[1], j)
    <3>1. j \notin unborn
      BY <1>0, <2>1, ServiceFacts DEF Unborn
    <3> QED
      BY <1>1, <3>1, ServiceFacts DEF Carried
  <2> QED
    BY <1>4, <2>1 DEF MarkerStep, Remains
<1> QED
  BY <1>5, <1>6 DEF Effect

LEMMA AddJobEffect ==
  ASSUME Basics, loose' \subseteq Jobs, NEW j \in Jobs, AddJob(j) PROVE Effect
<1>0. Types /\ Unborn
  BY DEF Basics
<1> DEFINE g == RecomputeNextRuns(WithJob(mem[Client], j, NewJob(Kind[j], now)), now)
<1>1. /\ Serving /\ j \in unborn /\ unborn' = unborn \ {j} /\ Persist(Client, g) /\ Arm(Client, g)
      /\ UNCHANGED <<now, tick, boot, manual, current, ops>>
  BY DEF AddJob
<1>2. mem[Client] \in Stores /\ now \in Moment /\ ops \in Nat
  BY <1>0, ServiceFacts DEF Types
<1>3. /\ g \in Stores /\ DOMAIN g = DOMAIN mem[Client] \cup {j}
      /\ \A i \in DOMAIN mem[Client] : i # j => MarkerKept(mem[Client], g, i, now)
  BY <1>2, AddedTyped
<1> HIDE DEF g
<1>4. timer' \subseteq timer \cup {Client}
  BY <1>0, <1>1, ArmTyped, ServiceFacts
<1> QED
  BY <1>1, <1>2, <1>3, <1>4, StoreEffect

LEMMA SpendTyped == ASSUME Types, Spend PROVE ops' \in Nat
  BY DEF Types, Spend

LEMMA UpdateJobEffect ==
  ASSUME Basics, loose' \subseteq Jobs, NEW j \in Jobs, NEW patch, UpdateJob(j, patch) PROVE Effect
<1>0. Types
  BY DEF Basics
<1> DEFINE g == [mem[Client] EXCEPT ![j] = Patched(@, patch)]
<1>1. /\ Serving /\ Spend /\ j \in DOMAIN mem[Client] /\ Persist(Client, g) /\ Arm(Client, g)
      /\ UNCHANGED <<now, tick, boot, manual, current, unborn>>
  BY DEF UpdateJob
<1>2. mem[Client] \in Stores /\ now \in Moment
  BY <1>0, ServiceFacts DEF Types
<1>3. g \in Stores /\ DOMAIN g = DOMAIN mem[Client] /\ \A i \in DOMAIN g : MarkerKept(mem[Client], g, i, now)
  BY <1>1, <1>2, UpdatedTyped
<1> HIDE DEF g
<1>4. timer' \subseteq timer \cup {Client} /\ ops' \in Nat
  BY <1>0, <1>1, ArmTyped, SpendTyped, ServiceFacts
<1> QED
  BY <1>1, <1>3, <1>4, StoreEffect

LEMMA RemoveJobEffect ==
  ASSUME Basics, loose' \subseteq Jobs, NEW j \in Jobs, RemoveJob(j) PROVE Effect
<1>0. Types
  BY DEF Basics
<1> DEFINE g == Restrict(mem[Client], DOMAIN mem[Client] \ {j})
<1>1. /\ Serving /\ Spend /\ Persist(Client, g) /\ Arm(Client, g)
      /\ UNCHANGED <<now, tick, boot, manual, current, unborn>>
  BY DEF RemoveJob
<1>2. mem[Client] \in Stores /\ now \in Moment
  BY <1>0, ServiceFacts DEF Types
<1>3. g \in Stores /\ DOMAIN g = DOMAIN mem[Client] \ {j} /\ \A i \in DOMAIN g : g[i] = mem[Client][i]
  BY <1>2, RestrictTyped
<1> HIDE DEF g
<1>4. \A i \in DOMAIN g : MarkerKept(mem[Client], g, i, now)
  BY <1>3 DEF MarkerKept
<1>5. timer' \subseteq timer \cup {Client} /\ ops' \in Nat
  BY <1>0, <1>1, ArmTyped, SpendTyped, ServiceFacts
<1> QED
  BY <1>1, <1>3, <1>4, <1>5, StoreEffect

LEMMA MaintainedTyped ==
  ASSUME Types
  PROVE  /\ Maintained \in Stores /\ DOMAIN Maintained = DOMAIN mem[Client]
         /\ \A i \in DOMAIN mem[Client] : MarkerKept(mem[Client], Maintained, i, now)
         /\ \A i \in DOMAIN mem[Client] : mem[Client][i].next # None => TimeKept(mem[Client], Maintained, i)
         /\ \A i \in DOMAIN mem[Client] : Maintained[i].enabled = mem[Client][i].enabled
<1>1. mem[Client] \in Stores /\ now \in Nat
  BY ServiceFacts, MomentTime DEF Types
<1> QED
  BY <1>1, MaintenanceTyped DEF Maintained

LEMMA ReadEffect ==
  ASSUME Basics, loose' \subseteq Jobs, Read PROVE Effect
<1>0. Types
  BY DEF Basics
<1>1. /\ Serving /\ Persist(Client, Maintained)
      /\ UNCHANGED <<now, timer, tick, boot, manual, current, unborn, ops>>
  BY DEF Read
<1>2. /\ Maintained \in Stores /\ DOMAIN Maintained = DOMAIN mem[Client]
      /\ \A i \in DOMAIN mem[Client] : MarkerKept(mem[Client], Maintained, i, now)
  BY <1>0, MaintainedTyped
<1>3. ops \in Nat
  BY <1>0 DEF Types
<1> QED
  BY <1>1, <1>2, <1>3, StoreEffect

\* The preflight of a manual run maintains the store in memory, and takes nothing.
LEMMA PreflightEffect ==
  ASSUME Basics, loose' \subseteq Jobs, boot[Client].stage # "clear", ops' \in Nat,
         mem' = [mem EXCEPT ![Client] = Maintained], manual' \in ManualSet, ManualOK',
         manual'.stage \notin {"run", "finish"},
         UNCHANGED <<now, disk, timer, tick, boot, current, unborn>>
  PROVE  Effect
<1>0. Types /\ BatchesOK
  BY DEF Basics
<1>1. /\ Maintained \in Stores /\ DOMAIN Maintained = DOMAIN mem[Client]
      /\ \A i \in DOMAIN mem[Client] : MarkerKept(mem[Client], Maintained, i, now)
  BY <1>0, MaintainedTyped
<1>2. mem \in [Service -> Stores] /\ disk \in Stores
  BY <1>0 DEF Types
<1>3. /\ mem' \in [Service -> Stores] /\ mem'[Client] = Maintained
      /\ \A x \in Service : x # Client => mem'[x] = mem[x]
  BY <1>1, <1>2, ServiceFacts
<1>4. \A j : ~ManualHolds(j)'
  BY DEF ManualHolds
<1>5. TicksGoOn
  BY <1>0, TickUnchanged
<1>6. Basics'
  BY <1>1, <1>2, <1>3, <1>4, <1>5, ClientBasics
<1>7. ASSUME NEW j \in Jobs PROVE MarkerStep(j)
  <2>1. Carried(disk', j)
    BY DEF Carried, MarkerKept
  <2>2. Carried(mem'[1], j)
    BY <1>1, <1>3, ServiceFacts DEF Carried
  <2> QED
    BY <1>4, <2>1, <2>2 DEF MarkerStep, Remains
<1> QED
  BY <1>6, <1>7 DEF Effect

LEMMA NoManualTyped == NoManual \in ManualSet /\ NoManual.stage = "none"
  BY DEF NoManual, ManualSet, ResultStatus

LEMMA EnqueueRunEffect ==
  ASSUME Basics, loose' \subseteq Jobs, NEW j \in Jobs, NEW force \in BOOLEAN, EnqueueRun(j, force) PROVE Effect
<1>0. Types
  BY DEF Basics
<1> DEFINE m == [NoManual EXCEPT !.stage = "queued", !.job = j, !.force = force]
<1>1. /\ Serving /\ Spend /\ manual' = IF Preflight(j, force) THEN m ELSE NoManual
      /\ mem' = [mem EXCEPT ![Client] = Maintained]
      /\ UNCHANGED <<now, disk, timer, tick, boot, current, unborn>>
  BY DEF EnqueueRun
<1>2. m \in ManualSet /\ m.stage = "queued" /\ m.job \in Jobs
  BY NoManualTyped DEF ManualSet
<1> HIDE DEF m
<1>3. manual' \in ManualSet /\ ManualOK' /\ manual'.stage \notin {"run", "finish"}
  BY <1>1, <1>2, NoManualTyped DEF ManualOK
<1>4. ops' \in Nat /\ boot[Client].stage # "clear"
  BY <1>0, <1>1, SpendTyped, ServingFacts
<1> QED
  BY <1>1, <1>3, <1>4, PreflightEffect

LEMMA RunCheckEffect ==
  ASSUME Basics, loose' \subseteq Jobs, RunCheck PROVE Effect
<1>0. Types
  BY DEF Basics
<1> DEFINE m == [manual EXCEPT !.stage = "checked", !.at = now]
<1>1. /\ manual.stage = "queued" /\ manual' = IF Preflight(manual.job, manual.force) THEN m ELSE NoManual
      /\ mem' = [mem EXCEPT ![Client] = Maintained]
      /\ UNCHANGED <<now, disk, timer, tick, boot, current, unborn, ops>>
  BY DEF RunCheck
<1>2. manual \in ManualSet /\ manual.job \in Jobs /\ now \in Moment /\ ops \in Nat
  BY <1>0, <1>1 DEF Types, ManualOK
<1>3. m \in ManualSet /\ m.stage = "checked" /\ m.job \in Jobs /\ m.at \in Moment
  BY <1>2 DEF ManualSet
<1> HIDE DEF m
<1>4. manual' \in ManualSet /\ ManualOK' /\ manual'.stage \notin {"run", "finish"}
  BY <1>1, <1>3, NoManualTyped DEF ManualOK
<1>5. ops' \in Nat /\ boot[Client].stage # "clear"
  BY <1>1, <1>2, BusyManual
<1> QED
  BY <1>1, <1>4, <1>5, PreflightEffect

LEMMA RunReserveEffect ==
  ASSUME Basics, loose' \subseteq Jobs, RunReserve PROVE Effect
<1>0. Types /\ BatchesOK
  BY DEF Basics
<1>1. manual.stage = "checked" /\ UNCHANGED <<now, timer, tick, boot, current, unborn, ops>>
  BY DEF RunReserve
<1>2. /\ manual \in ManualSet /\ manual.job \in Jobs /\ manual.at \in Moment /\ ops \in Nat
      /\ disk \in Stores /\ mem \in [Service -> Stores] /\ mem[Client] \in Stores
  BY <1>0, <1>1, ServiceFacts DEF Types, ManualOK
<1>3. boot[Client].stage # "clear" /\ TicksGoOn
  BY <1>0, <1>1, BusyManual, TickUnchanged
<1>4. CASE manual.job \in DOMAIN mem[Client] /\ mem[Client][manual.job].running = None
  <2> DEFINE g == [mem[Client] EXCEPT ![manual.job] = Mark(@, manual.at)]
             m == [manual EXCEPT !.stage = "run"]
  <2>1. Persist(Client, g) /\ manual' = m
    BY <1>4 DEF RunReserve
  <2>2. /\ g \in Stores /\ DOMAIN g = DOMAIN mem[Client] /\ g[manual.job].running # None
        /\ \A i \in DOMAIN mem[Client] : i # manual.job => g[i] = mem[Client][i]
    BY <1>2, <1>4, ReservedTyped
  <2>3. m \in ManualSet /\ m.stage = "run" /\ m.job = manual.job /\ m.at \in Moment
    BY <1>2 DEF ManualSet
  <2> HIDE DEF g, m
  <2>4. manual' \in ManualSet /\ ManualOK'
    BY <1>2, <2>1, <2>3 DEF ManualOK
  <2>5. /\ disk' = g /\ disk' \in Stores /\ mem' \in [Service -> Stores] /\ mem'[Client] = g
        /\ \A x \in Service : x # Client => mem'[x] = mem[x]
    BY <1>0, <2>1, <2>2, PersistTyped, ServiceFacts
  <2>6. \A j : ManualHolds(j)' => j = manual.job
    BY <2>1, <2>3 DEF ManualHolds
  <2>7. Basics'
    BY <1>1, <1>2, <1>3, <1>4, <2>2, <2>4, <2>5, <2>6, ClientBasics
  <2>8. ASSUME NEW j \in Jobs PROVE MarkerStep(j)
    <3>1. CASE j = manual.job
      <4>1. j \in DOMAIN mem[1] /\ mem[1][j].running = None
        BY <1>4, <3>1, ServiceFacts
      <4>2. HasMarker(disk', j) /\ HasMarker(mem'[1], j)
        BY <2>2, <2>5, <3>1, ServiceFacts DEF HasMarker
      <4>3. ~(ManualHolds(j) \/ Holds(tick[1], j) \/ Holds(boot[1], j)) => OneHolder(j)'
        BY <1>1 DEF OneHolder
      <4> QED
        BY <4>1, <4>2, <4>3 DEF MarkerStep, Taking
    <3>2. CASE j # manual.job
      <4>1. Carried(disk', j) /\ Carried(mem'[1], j)
        BY <2>2, <2>5, <3>2, ServiceFacts DEF Carried, MarkerKept
      <4> QED
        BY <1>1, <2>6, <3>2, <4>1 DEF MarkerStep, Remains
    <3> QED
      BY <3>1, <3>2
  <2> QED
    BY <2>7, <2>8 DEF Effect
<1>5. CASE ~(manual.job \in DOMAIN mem[Client] /\ mem[Client][manual.job].running = None)
  <2>1. manual' = NoManual /\ disk' = disk /\ mem' = mem
    BY <1>5 DEF RunReserve
  <2>2. manual' \in ManualSet /\ ManualOK' /\ \A j : ~ManualHolds(j)'
    BY <2>1, NoManualTyped DEF ManualOK, ManualHolds
  <2>3. Basics'
    BY <1>1, <1>2, <1>3, <2>1, <2>2, ClientBasics
  <2>4. ASSUME NEW j \in Jobs PROVE MarkerStep(j)
    BY <1>1, <2>1, <2>2, QuietMarkers
  <2> QED
    BY <2>3, <2>4 DEF Effect
<1> QED
  BY <1>4, <1>5

LEMMA ManualRunEndEffect ==
  ASSUME Basics, loose' \subseteq Jobs, NEW status \in ResultStatus, manual.stage = "run", ManualRunEnd(status)
  PROVE  Effect
<1>0. Types /\ BatchesOK
  BY DEF Basics
<1> DEFINE m == [manual EXCEPT !.stage = "finish", !.status = status, !.ended = now]
<1>1. manual' = m /\ UNCHANGED <<now, disk, mem, timer, tick, boot, current, unborn, ops>>
  BY DEF ManualRunEnd
<1>2. /\ manual \in ManualSet /\ manual.job \in Jobs /\ manual.at \in Moment /\ ops \in Nat /\ now \in Moment
      /\ disk \in Stores /\ mem \in [Service -> Stores]
  BY <1>0 DEF Types, ManualOK
<1>3. boot[Client].stage # "clear" /\ TicksGoOn
  BY <1>0, <1>1, BusyManual, TickUnchanged
<1>4. /\ m \in ManualSet /\ m.stage = "finish" /\ m.job = manual.job /\ m.at \in Moment /\ m.ended \in Moment
  BY <1>2 DEF ManualSet
<1> HIDE DEF m
<1>5. manual' \in ManualSet /\ ManualOK'
  BY <1>1, <1>2, <1>4 DEF ManualOK
<1>6. \A j : ManualHolds(j)' => ManualHolds(j)
  BY <1>1, <1>4 DEF ManualHolds
<1>7. Basics'
  BY <1>1, <1>2, <1>3, <1>5, <1>6, ClientBasics
<1>8. ASSUME NEW j \in Jobs PROVE MarkerStep(j)
  BY <1>1, <1>6, QuietMarkers
<1> QED
  BY <1>7, <1>8 DEF Effect

LEMMA RunFinishEffect ==
  ASSUME Basics, loose' \subseteq Jobs, RunFinish PROVE Effect
<1>0. Types /\ BatchesOK
  BY DEF Basics
<1> DEFINE j == manual.job
           r == mem[Client][j]
           result == ApplyResult(r, manual, manual.force)
           g == MaintenanceRecompute(Merged(disk, j, result, Deletes(r, manual)), now, TRUE)
<1>1. /\ manual.stage = "finish" /\ manual' = NoManual /\ UNCHANGED <<now, boot, current, unborn, ops>>
      /\ IF j \in DOMAIN mem[Client]
         THEN Persist(Client, g) /\ Arm(Client, g) /\ Reread(Client)
         ELSE UNCHANGED <<disk, mem, timer, tick>>
  BY DEF RunFinish
<1>2. /\ manual \in ManualSet /\ manual.at \in Moment /\ manual.ended \in Moment /\ ops \in Nat /\ now \in Moment
      /\ disk \in Stores /\ mem \in [Service -> Stores] /\ mem[Client] \in Stores
  BY <1>0, <1>1, ServiceFacts DEF Types, ManualOK
<1>3. boot[Client].stage # "clear"
  BY <1>1, BusyManual
<1>4. manual' \in ManualSet /\ ManualOK' /\ \A i : ~ManualHolds(i)'
  BY <1>1, NoManualTyped DEF ManualOK, ManualHolds
<1>5. CASE j \in DOMAIN mem[Client]
  <2>1. r \in Job
    BY <1>2, <1>5, StoreJob
  <2>2. result \in Job
    <3>1. manual.at \in Time /\ manual.ended \in Nat /\ manual.status \in ResultStatus /\ manual.force \in BOOLEAN
      BY <1>2, MomentTime DEF ManualSet
    <3> HIDE DEF r
    <3> QED
      BY <2>1, <3>1, ApplyResultTyped
  <2>3. Deletes(r, manual) \in BOOLEAN
    BY DEF Deletes
  <2>4. /\ g \in Stores /\ DOMAIN g \subseteq DOMAIN disk
        /\ \A i \in DOMAIN g : i # j => MarkerKept(disk, g, i, now)
    <3> HIDE DEF r, result, j
    <3> QED
      BY <1>2, <2>2, <2>3, FinishedTyped
  <2>5. Persist(Client, g) /\ Arm(Client, g) /\ Reread(Client)
    BY <1>1, <1>5
  <2> HIDE DEF g, r, result
  <2>6. /\ disk' = g /\ disk' \in Stores /\ mem' \in [Service -> Stores] /\ mem'[Client] = g
        /\ \A x \in Service : x # Client => mem'[x] = mem[x]
    BY <1>0, <2>4, <2>5, PersistTyped, ServiceFacts
  <2>7. TicksGoOn /\ timer' \subseteq timer \cup {Client}
    BY <1>0, <2>5, TickReread, ArmTyped, ServiceFacts
  <2>8. Basics'
    BY <1>1, <1>2, <1>3, <1>4, <2>4, <2>6, <2>7, ClientBasics
  <2>9. ASSUME NEW i \in Jobs PROVE MarkerStep(i)
    <3>1. (Holds(tick'[1], i) <=> Holds(tick[1], i)) /\ boot' = boot
      BY <1>1, <2>7, ServiceFacts DEF TicksGoOn
    <3>2. ASSUME OneHolder(i), ManualHolds(i)' \/ Holds(tick'[1], i) \/ Holds(boot'[1], i)
          PROVE  Carried(disk', i) /\ Carried(mem'[1], i)
      <4>1. ~ManualHolds(i)
        BY <1>4, <3>1, <3>2 DEF OneHolder
      <4>2. i # j
        BY <1>1, <4>1 DEF ManualHolds
      <4> QED
        BY <2>4, <2>6, <4>2, ServiceFacts DEF Carried
    <3> QED
      BY <1>4, <3>1, <3>2 DEF MarkerStep, Remains
  <2> QED
    BY <2>8, <2>9 DEF Effect
<1>6. CASE j \notin DOMAIN mem[Client]
  <2>1. UNCHANGED <<disk, mem, timer, tick>>
    BY <1>1, <1>6
  <2>2. TicksGoOn
    BY <1>0, <2>1, TickUnchanged
  <2> HIDE DEF j
  <2>3. Basics'
    BY <1>1, <1>2, <1>3, <1>4, <2>1, <2>2, ClientBasics
  <2>4. ASSUME NEW i \in Jobs PROVE MarkerStep(i)
    BY <1>1, <1>4, <2>1, QuietMarkers
  <2> QED
    BY <2>3, <2>4 DEF Effect
<1> QED
  BY <1>5, <1>6

-----------------------------------------------------------------------------
(* The process. *)

LEMMA ReloadConfigEffect ==
  ASSUME Basics, loose' \subseteq Jobs, ReloadConfig PROVE Effect
<1>0. Types /\ BatchesOK /\ Alone /\ Fresh /\ Unborn
  BY DEF Basics
<1> DEFINE c == NoBatch("clear")
<1>1. /\ boot[Client].stage # "clear" /\ ops' \in Nat /\ timer' = timer \ {Client} /\ current' = 2
      /\ boot' = [boot EXCEPT ![2] = c]
      /\ UNCHANGED <<now, disk, mem, tick, manual, unborn>>
  BY <1>0, SpendTyped, ServingFacts DEF ReloadConfig
<1>2. c \in BatchSet(BootStages) /\ BatchOK(c, 1) /\ \A j : ~Holds(c, j)
  BY NoBatchTyped DEF BootStages
<1> HIDE DEF c
<1>3. /\ boot' \in [Service -> BatchSet(BootStages)] /\ boot'[2] = c /\ boot'[1] = boot[1]
      /\ \A x \in Service : BatchOK(boot'[x], 1)
  <2>1. 2 \in Service /\ 1 \in Service
    BY ServiceFacts
  <2>2. /\ boot' \in [Service -> BatchSet(BootStages)] /\ boot'[2] = c
        /\ \A x \in Service : BatchOK(boot'[x], 1)
        /\ \A x \in Service : x # 2 => boot'[x] = boot[x]
    BY <1>0, <1>1, <1>2, <2>1, BootSet
  <2> QED
    BY <2>1, <2>2
<1>4. Types'
  BY <1>0, <1>1, <1>3 DEF Types, ManualOK
<1>5. BatchesOK'
  BY <1>0, <1>1, <1>3 DEF BatchesOK
<1>6. Alone'
  BY <1>1 DEF Alone
<1>7. Fresh'
  BY <1>1, <1>3, ServiceFacts DEF Fresh
<1>8. Unborn'
  BY <1>0, <1>1, <1>2, <1>3, ServiceFacts DEF Unborn, ManualHolds
<1> QED
  BY <1>1, <1>4, <1>5, <1>6, <1>7, <1>8 DEF Effect, Basics

LEMMA CrashHolds ==
  ASSUME Crash
  PROVE  \A j : ~ManualHolds(j)' /\ \A s \in Service : ~Holds(tick'[s], j) /\ ~Holds(boot'[s], j)
<1>1. /\ tick' = [s \in Service |-> NoBatch("idle")]
      /\ boot' = [s \in Service |-> NoBatch(IF s = Client THEN "clear" ELSE "off")]
      /\ manual' = NoManual
  BY DEF Crash
<1>2. /\ NoBatch("idle").stage = "idle" /\ NoBatch("clear").stage = "clear" /\ NoBatch("off").stage = "off"
      /\ NoManual.stage = "none"
  BY DEF NoBatch, NoManual
<1> QED
  BY <1>1, <1>2 DEF Holds, ManualHolds

LEMMA CrashEffect ==
  ASSUME Basics, loose' \subseteq Jobs, Crash PROVE Effect
<1>0. Types /\ Unborn
  BY DEF Basics
<1> DEFINE idle == NoBatch("idle")
           clear == NoBatch("clear")
           off == NoBatch("off")
<1>1. /\ mem' = [s \in Service |-> <<>>] /\ timer' = {}
      /\ tick' = [s \in Service |-> idle]
      /\ boot' = [s \in Service |-> IF s = Client THEN clear ELSE off]
      /\ manual' = NoManual /\ current' = 1 /\ UNCHANGED <<now, disk, unborn>> /\ ops' \in Nat
  <2>1. boot' = [s \in Service |-> NoBatch(IF s = Client THEN "clear" ELSE "off")]
    BY DEF Crash
  <2>2. boot' = [s \in Service |-> IF s = Client THEN clear ELSE off]
    BY <2>1
  <2> HIDE DEF idle, clear, off
  <2> QED
    BY <1>0, <2>2, SpendTyped DEF Crash, idle
<1>2. /\ idle \in BatchSet(TickStages) /\ BatchOK(idle, MaxConcurrentRuns) /\ idle.stage = "idle"
      /\ clear \in BatchSet(BootStages) /\ BatchOK(clear, 1) /\ clear.stage = "clear"
      /\ off \in BatchSet(BootStages) /\ BatchOK(off, 1) /\ off.stage = "off"
  BY NoBatchTyped, ServiceFacts DEF TickStages, BootStages
<1>3. \A j : ~ManualHolds(j)' /\ \A s \in Service : ~Holds(tick'[s], j) /\ ~Holds(boot'[s], j)
  BY CrashHolds
<1>4. <<>> \in Stores /\ DOMAIN <<>> = {}
  <2>1. <<>> \in [{} -> Job]
    OBVIOUS
  <2> QED
    BY <2>1, StoreMade
<1> HIDE DEF idle, clear, off
<1>5. /\ mem' \in [Service -> Stores] /\ \A s \in Service : DOMAIN mem'[s] = {}
      /\ tick' \in [Service -> BatchSet(TickStages)] /\ \A s \in Service : tick'[s] = idle
      /\ boot' \in [Service -> BatchSet(BootStages)]
      /\ boot'[1] = clear /\ boot'[2] = off
  BY <1>1, <1>2, <1>4, ServiceFacts
<1>6. Types'
  BY <1>0, <1>1, <1>5, NoManualTyped DEF Types, ManualOK
<1>7. BatchesOK'
  BY <1>2, <1>5, ServiceFacts DEF BatchesOK
<1>8. Alone' /\ Fresh'
  BY <1>1, <1>2, <1>5, NoManualTyped, ServiceFacts DEF Alone, Fresh
<1>9. Unborn'
  BY <1>0, <1>1, <1>3, <1>5 DEF Unborn
<1>10. \A j : MarkerStep(j)
  BY <1>3, ServiceFacts DEF MarkerStep, Remains
<1> QED
  BY <1>6, <1>7, <1>8, <1>9, <1>10 DEF Effect, Basics

LEMMA QuietEffect ==
  ASSUME Basics, loose' \subseteq Jobs, now' \in Moment,
         UNCHANGED <<disk, mem, timer, tick, boot, manual, current, unborn, ops>>
  PROVE  Effect
<1>0. Types /\ BatchesOK /\ Alone /\ Fresh /\ Unborn
  BY DEF Basics
<1>1. Types' /\ BatchesOK'
  BY <1>0 DEF Types, ManualOK, BatchesOK
<1>2. Alone' /\ Fresh'
  BY <1>0 DEF Alone, Fresh
<1>3. Unborn'
  BY <1>0 DEF Unborn, ManualHolds
<1>4. \A j : MarkerStep(j)
  BY QuietMarkers DEF ManualHolds
<1> QED
  BY <1>1, <1>2, <1>3, <1>4 DEF Effect, Basics

LEMMA TimePassesEffect ==
  ASSUME Basics, loose' \subseteq Jobs, TimePasses PROVE Effect
<1>1. now' \in Moment
  <2>1. now \in Nat /\ now >= 1 /\ MaxNow \in Nat
    BY CronTimes DEF Basics, Types, Moment
  <2> QED
    BY <2>1 DEF TimePasses, Moment
<1> QED
  BY <1>1, QuietEffect DEF TimePasses

-----------------------------------------------------------------------------
(* Every step of the service. *)

LEMMA OutcomesTyped == ASSUME NEW j PROVE Outcomes(j) \subseteq ResultStatus
  BY DEF Outcomes, ResultStatus

LEMMA EffectNext ==
  ASSUME Basics, CronNext, loose' \subseteq Jobs PROVE Effect
<1>1. ASSUME NEW s \in Service, TickStep(s) PROVE Effect
  <2>1. CASE TimerFires(s)
    BY <2>1, TimerFiresEffect
  <2>2. CASE TickCollect(s)
    BY <2>2, TickCollectEffect
  <2>3. CASE TickApply(s)
    BY <2>3, TickApplyEffect
  <2>4. CASE TickEnd(s)
    BY <2>4, TickEndEffect
  <2>5. ASSUME NEW r \in tick[s].cur, NEW status \in Outcomes(r.job), TickRunEnd(s, r, status) PROVE Effect
    BY <2>5, OutcomesTyped, TickRunEndEffect
  <2> QED
    BY <1>1, <2>1, <2>2, <2>3, <2>4, <2>5 DEF TickStep
<1>2. ASSUME NEW s \in Service, BootStep(s) PROVE Effect
  <2>1. CASE BootClear(s)
    BY <2>1, BootClearEffect
  <2>2. CASE BootPlan(s)
    BY <2>2, BootPlanEffect
  <2>3. CASE BootApply(s)
    BY <2>3, BootApplyEffect
  <2>4. CASE BootFinal(s)
    BY <2>4, BootFinalEffect
  <2>5. ASSUME NEW r \in boot[s].cur, NEW status \in Outcomes(r.job), BootRunEnd(s, r, status) PROVE Effect
    BY <2>5, OutcomesTyped, BootRunEndEffect
  <2> QED
    BY <1>2, <2>1, <2>2, <2>3, <2>4, <2>5 DEF BootStep
<1>3. ASSUME ManualStep PROVE Effect
  <2>1. ASSUME manual.stage = "run", NEW status \in Outcomes(manual.job), ManualRunEnd(status) PROVE Effect
    BY <2>1, OutcomesTyped, ManualRunEndEffect
  <2> QED
    BY <1>3, <2>1, RunCheckEffect, RunReserveEffect, RunFinishEffect DEF ManualStep
<1>4. ASSUME Request PROVE Effect
  <2>1. ASSUME NEW j \in Jobs, AddJob(j) \/ RemoveJob(j) PROVE Effect
    BY <2>1, AddJobEffect, RemoveJobEffect
  <2>2. ASSUME NEW j \in Jobs, NEW patch, UpdateJob(j, patch) PROVE Effect
    BY <2>2, UpdateJobEffect
  <2>3. ASSUME NEW j \in Jobs, NEW force \in BOOLEAN, EnqueueRun(j, force) PROVE Effect
    BY <2>3, EnqueueRunEffect
  <2> QED
    BY <1>4, <2>1, <2>2, <2>3, ReadEffect DEF Request
<1>5. ASSUME ReloadConfig \/ Crash \/ TimePasses PROVE Effect
  BY <1>5, ReloadConfigEffect, CrashEffect, TimePassesEffect
<1> QED
  BY <1>1, <1>2, <1>3, <1>4, <1>5 DEF CronNext

\* Only a new process has one service again.
LEMMA CurrentStep ==
  ASSUME CronNext PROVE current' = current \/ current' = 2 \/ Crash
<1>1. ASSUME NEW s \in Service, TickStep(s) PROVE current' = current
  BY <1>1 DEF TickStep, TimerFires, TickCollect, TickApply, TickEnd, TickRunEnd
<1>2. ASSUME NEW s \in Service, BootStep(s) PROVE current' = current
  BY <1>2 DEF BootStep, BootClear, BootPlan, BootApply, BootFinal, BootRunEnd
<1>3. ManualStep => current' = current
  BY DEF ManualStep, RunCheck, RunReserve, RunFinish, ManualRunEnd
<1>4. Request => current' = current
  BY DEF Request, AddJob, RemoveJob, UpdateJob, EnqueueRun, Read
<1>5. ReloadConfig \/ TimePasses => current' = current \/ current' = 2
  BY DEF ReloadConfig, TimePasses
<1> QED
  BY <1>1, <1>2, <1>3, <1>4, <1>5 DEF CronNext

\* Who has taken a job.
TakenByAny ==
  \A j : Taken(j) <=> ManualHolds(j) \/ \E s \in Service : Holds(tick[s], j) \/ Holds(boot[s], j)
TakenByFirst ==
  current = 1 => \A j : Taken(j) <=> ManualHolds(j) \/ Holds(tick[1], j) \/ Holds(boot[1], j)

LEMMA TakenHolds == TakenByAny
<1>1. ASSUME NEW b, NEW j
      PROVE  Holds(b, j) <=> b.stage \in {"run", "apply"} /\ j \in Range(b.queue) \cup {r.job : r \in b.cur \cup b.results}
  BY DEF Holds, Waits, RunsNow, HasResult, Range
<1> QED
  BY <1>1 DEF Taken, ManualHolds, TakenByAny

LEMMA TakenAlone == Basics => TakenByFirst
<1> SUFFICES ASSUME Basics, current = 1
             PROVE  \A j : Taken(j) <=> ManualHolds(j) \/ Holds(tick[1], j) \/ Holds(boot[1], j)
  BY DEF TakenByFirst
<1>1. Types /\ Alone
  BY DEF Basics
<1>2. \A j : ~Holds(tick[2], j) /\ ~Holds(boot[2], j)
  BY <1>1 DEF Alone, Holds
<1> QED
  BY <1>1, <1>2, TakenHolds, ServiceFacts DEF TakenByAny

LEMMA MarkersNext ==
  ASSUME IInv, CronNext, Effect PROVE Markers'
<1>1. Basics /\ Basics' /\ Markers
  BY DEF IInv, Effect
<1>2. loose' = {j \in Jobs : Taken(j)' /\ (j \in loose \/ MarkerAtRisk(j)')}
  BY DEF CronNext, Tracked
<1> SUFFICES ASSUME NEW j \in Jobs \ loose', Taken(j)'
             PROVE  /\ ~MarkerAtRisk(j)'
                    /\ current' = 1 => HasMarker(disk', j) /\ HasMarker(mem'[1], j) /\ OneHolder(j)'
  BY DEF Markers, HasMarker
<1>3. ~MarkerAtRisk(j)' /\ j \notin loose
  BY <1>2
<1>4. CASE current' = 1 /\ current = 1
  <2>1. Taken(j)' <=> ManualHolds(j)' \/ Holds(tick'[1], j) \/ Holds(boot'[1], j)
    <3>1. Basics' => TakenByFirst'
      BY TakenAlone, PTL
    <3> QED
      BY <1>1, <1>4, <3>1 DEF TakenByFirst
  <2>2. Taken(j) <=> ManualHolds(j) \/ Holds(tick[1], j) \/ Holds(boot[1], j)
    BY <1>1, <1>4, TakenAlone DEF TakenByFirst
  <2>3. Taken(j) => ~MarkerAtRisk(j) /\ HasMarker(disk, j) /\ HasMarker(mem[1], j) /\ OneHolder(j)
    BY <1>1, <1>3, <1>4 DEF Markers
  <2>4. CASE Remains(j)
    <3>1. Taken(j)
      BY <2>1, <2>2, <2>4 DEF Remains
    <3>2. OneHolder(j)'
      BY <2>3, <2>4, <3>1 DEF Remains, OneHolder
    <3>3. Carried(disk', j) /\ Carried(mem'[1], j)
      BY <2>1, <2>3, <2>4, <3>1 DEF Remains
    <3>4. /\ j \in DOMAIN disk => disk[j].enabled /\ ~StuckMark(disk[j], now) /\ disk[j].running # None
          /\ j \in DOMAIN mem[1] => mem[1][j].enabled /\ ~StuckMark(mem[1][j], now) /\ mem[1][j].running # None
      BY <2>3, <3>1, ServiceFacts DEF MarkerAtRisk, HasMarker
    <3>5. /\ j \in DOMAIN disk' => disk'[j].enabled
          /\ j \in DOMAIN mem'[1] => mem'[1][j].enabled
      BY <1>3, ServiceFacts DEF MarkerAtRisk
    <3>6. HasMarker(disk', j) /\ HasMarker(mem'[1], j)
      BY <3>3, <3>4, <3>5 DEF Carried, MarkerKept, HasMarker
    <3> QED
      BY <1>3, <3>2, <3>6
  <2>5. CASE Taking(j)
    <3>1. ~Taken(j)
      BY <2>3, <2>5 DEF Taking, HasMarker
    <3> QED
      BY <1>3, <2>2, <2>5, <3>1 DEF Taking
  <2> QED
    BY <1>4, <2>4, <2>5 DEF Effect, MarkerStep
<1>5. CASE current' = 1 /\ current # 1
  <2>1. Crash
    BY <1>5, CurrentStep
  <2>2. ~ManualHolds(j)' /\ \A s \in Service : ~Holds(tick'[s], j) /\ ~Holds(boot'[s], j)
    BY <2>1, CrashHolds
  <2>3. TakenByAny'
    BY TakenHolds, PTL
  <2> QED
    BY <2>2, <2>3 DEF TakenByAny
<1>6. CASE current' # 1
  BY <1>3, <1>6
<1> QED
  BY <1>4, <1>5, <1>6

-----------------------------------------------------------------------------
(* The invariant. *)

LEMMA InitInv == CronInit => IInv
<1> SUFFICES ASSUME CronInit PROVE IInv
  OBVIOUS
<1> DEFINE idle == NoBatch("idle")
           clear == NoBatch("clear")
           off == NoBatch("off")
<1>1. /\ now = 1 /\ unborn \subseteq Jobs /\ disk = [j \in Jobs \ unborn |-> NewJob(Kind[j], now)]
      /\ mem = [s \in Service |-> <<>>] /\ timer = {}
      /\ tick = [s \in Service |-> idle]
      /\ boot = [s \in Service |-> IF s = Client THEN clear ELSE off]
      /\ manual = NoManual /\ current = 1 /\ ops = 0 /\ loose = {}
  <2>1. boot = [s \in Service |-> NoBatch(IF s = Client THEN "clear" ELSE "off")]
    BY DEF CronInit
  <2>2. boot = [s \in Service |-> IF s = Client THEN clear ELSE off]
    BY <2>1
  <2> HIDE DEF clear, off
  <2> QED
    BY <2>2 DEF CronInit, idle
<1>2. /\ idle \in BatchSet(TickStages) /\ BatchOK(idle, MaxConcurrentRuns) /\ idle.stage = "idle"
      /\ clear \in BatchSet(BootStages) /\ BatchOK(clear, 1) /\ clear.stage = "clear"
      /\ off \in BatchSet(BootStages) /\ BatchOK(off, 1) /\ off.stage = "off"
      /\ \A j : ~Holds(idle, j) /\ ~Holds(clear, j) /\ ~Holds(off, j)
  BY NoBatchTyped, ServiceFacts DEF TickStages, BootStages
<1> HIDE DEF idle, clear, off
<1>3. now \in Moment
  BY <1>1, CronTimes DEF Moment
<1>4. disk \in Stores /\ DOMAIN disk = Jobs \ unborn
  <2>1. \A j \in Jobs \ unborn : NewJob(Kind[j], now) \in Job
    BY <1>3, MomentTime, CronInstance, NewJobTyped
  <2>2. disk \in [Jobs \ unborn -> Job]
    BY <1>1, <2>1
  <2> QED
    BY <2>2, StoreMade
<1>5. <<>> \in Stores /\ DOMAIN <<>> = {}
  <2>1. <<>> \in [{} -> Job]
    OBVIOUS
  <2> QED
    BY <2>1, StoreMade
<1>6. /\ mem \in [Service -> Stores] /\ \A s \in Service : DOMAIN mem[s] = {}
      /\ tick \in [Service -> BatchSet(TickStages)] /\ \A s \in Service : tick[s] = idle
      /\ boot \in [Service -> BatchSet(BootStages)] /\ boot[1] = clear /\ boot[2] = off
  BY <1>1, <1>2, <1>5, ServiceFacts
<1>7. Types
  BY <1>1, <1>3, <1>4, <1>6, NoManualTyped DEF Types, ManualOK
<1>8. BatchesOK
  BY <1>2, <1>6, ServiceFacts DEF BatchesOK
<1>9. Alone /\ Fresh
  BY <1>1, <1>2, <1>6, NoManualTyped, ServiceFacts DEF Alone, Fresh
<1>10. \A j : ~ManualHolds(j) /\ \A s \in Service : ~Holds(tick[s], j) /\ ~Holds(boot[s], j)
  BY <1>1, <1>2, <1>6, NoManualTyped, ServiceFacts DEF ManualHolds
<1>11. Unborn
  BY <1>4, <1>6, <1>10 DEF Unborn
<1>12. Markers
  BY <1>10, TakenHolds DEF Markers, TakenByAny
<1> QED
  BY <1>7, <1>8, <1>9, <1>11, <1>12 DEF IInv, Basics

LEMMA NextInv == IInv /\ [CronNext]_cronVars => IInv'
<1> SUFFICES ASSUME IInv, [CronNext]_cronVars PROVE IInv'
  OBVIOUS
<1>0. Basics /\ loose \subseteq Jobs /\ Markers
  BY DEF IInv, Basics, Types
<1>1. CASE CronNext
  <2>1. loose' \subseteq Jobs
    BY <1>1 DEF CronNext, Tracked
  <2>2. Effect
    BY <1>0, <1>1, <2>1, EffectNext
  <2> QED
    BY <1>1, <2>2, MarkersNext DEF IInv, Effect
<1>2. CASE UNCHANGED cronVars
  <2>1. UNCHANGED <<now, disk, mem, timer, tick, boot, manual, current, unborn, ops>> /\ loose' = loose
    BY <1>2 DEF cronVars
  <2>2. Basics'
    <3>1. now' \in Moment /\ loose' \subseteq Jobs
      BY <1>0, <2>1 DEF Basics, Types
    <3> QED
      BY <1>0, <2>1, <3>1, QuietEffect DEF Effect
  <2>3. Markers'
    BY <1>0, <2>1 DEF Markers, Taken, MarkerAtRisk, StuckMark, HasMarker, OneHolder, ManualHolds
  <2> QED
    BY <2>2, <2>3 DEF IInv
<1> QED
  BY <1>1, <1>2

LEMMA InvImplies == IInv => CronInv
<1> SUFFICES ASSUME IInv PROVE CronInv
  OBVIOUS
<1>0. Types /\ BatchesOK /\ Alone /\ Unborn /\ Markers /\ Basics
  BY DEF IInv, Basics
<1>1. CronTypeOK
  <2>1. IsStore(disk) /\ \A s \in Service : IsStore(mem[s])
    BY <1>0, StoreJob, StoreDomain DEF IsStore, Types
  <2>2. unborn \subseteq Jobs \ DOMAIN disk
    BY <1>0 DEF Types, Unborn
  <2>3. ASSUME NEW s \in Service
        PROVE  /\ tick[s].stage \in {"idle", "collect", "run", "apply", "end"}
               /\ boot[s].stage \in {"off", "clear", "plan", "run", "apply", "final", "up"}
               /\ Cardinality(tick[s].cur) <= MaxConcurrentRuns /\ Cardinality(boot[s].cur) <= 1
    BY <1>0 DEF Types, BatchSet, TickStages, BootStages, BatchesOK, BatchOK
  <2> QED
    BY <1>0, <2>1, <2>2, <2>3 DEF CronTypeOK, Types, Moment
<1>2. ASSUME current = 1, NEW j \in Jobs \ loose PROVE Cardinality(RunsOf(j)) <= 1
  <2>1. /\ tick[2].cur = {} /\ boot[2].cur = {}
        /\ tick[1].stage # "run" => tick[1].cur = {}
        /\ boot[1].stage # "run" => boot[1].cur = {}
    BY <1>0, <1>2, ServiceFacts DEF Alone, BatchesOK, BatchOK
  <2>2. ASSUME NEW x \in RunsOf(j)
        PROVE  \/ x[1] = "tick" /\ Holds(tick[1], j) /\ \E r \in tick[1].cur : r.job = j /\ x = <<"tick", 1, r>>
               \/ x[1] = "boot" /\ Holds(boot[1], j) /\ \E r \in boot[1].cur : r.job = j /\ x = <<"boot", 1, r>>
               \/ /\ x[1] = "manual" /\ ManualHolds(j)
                  /\ x = <<"manual", Client, [job |-> manual.job, at |-> manual.at]>>
    <3>1. x \in Runs /\ x[3].job = j
      BY DEF RunsOf
    <3>2. CASE \E s \in Service : \E r \in tick[s].cur : x = <<"tick", s, r>>
      <4>1. PICK r \in tick[1].cur : x = <<"tick", 1, r>>
        BY <2>1, <3>2, ServiceFacts
      <4>2. r.job = j /\ tick[1].stage = "run"
        BY <2>1, <3>1, <4>1
      <4> QED
        BY <4>1, <4>2 DEF Holds, RunsNow
    <3>3. CASE \E s \in Service : \E r \in boot[s].cur : x = <<"boot", s, r>>
      <4>1. PICK r \in boot[1].cur : x = <<"boot", 1, r>>
        BY <2>1, <3>3, ServiceFacts
      <4>2. r.job = j /\ boot[1].stage = "run"
        BY <2>1, <3>1, <4>1
      <4> QED
        BY <4>1, <4>2 DEF Holds, RunsNow
    <3>4. CASE manual.stage = "run" /\ x = <<"manual", Client, [job |-> manual.job, at |-> manual.at]>>
      BY <3>1, <3>4 DEF ManualHolds
    <3>5. \/ \E s \in Service : x \in {<<"tick", s, r>> : r \in tick[s].cur} \cup {<<"boot", s, r>> : r \in boot[s].cur}
          \/ x \in {<<"manual", Client, [job |-> m.job, at |-> m.at]>> : m \in {y \in {manual} : y.stage = "run"}}
      BY <3>1, Zenon DEF Runs
    <3>6. CASE \E s \in Service : x \in {<<"tick", s, r>> : r \in tick[s].cur} \cup {<<"boot", s, r>> : r \in boot[s].cur}
      <4>1. PICK s \in Service : x \in {<<"tick", s, r>> : r \in tick[s].cur} \cup {<<"boot", s, r>> : r \in boot[s].cur}
        BY <3>6
      <4>2. (\E r \in tick[s].cur : x = <<"tick", s, r>>) \/ (\E r \in boot[s].cur : x = <<"boot", s, r>>)
        BY <4>1, Zenon
      <4> QED
        BY <3>2, <3>3, <4>2
    <3>7. CASE x \in {<<"manual", Client, [job |-> m.job, at |-> m.at]>> : m \in {y \in {manual} : y.stage = "run"}}
      <4>1. manual.stage = "run" /\ x = <<"manual", Client, [job |-> manual.job, at |-> manual.at]>>
        BY <3>7, Zenon
      <4> QED
        BY <3>4, <4>1
    <3> QED
      BY <3>5, <3>6, <3>7
  <2>3. ASSUME NEW x \in RunsOf(j), NEW y \in RunsOf(j) PROVE x = y
    <3>1. Taken(j)
      BY <1>0, <1>2, <2>2, TakenAlone DEF TakenByFirst
    <3>2. OneHolder(j)
      BY <1>0, <1>2, <3>1 DEF Markers
    <3>3. /\ \A r1, r2 \in tick[1].cur : r1.job = r2.job => r1 = r2
          /\ \A r1, r2 \in boot[1].cur : r1.job = r2.job => r1 = r2
      BY <1>0, ServiceFacts DEF BatchesOK, BatchOK
    <3> QED
      BY <2>2, <3>2, <3>3 DEF OneHolder
  <2>4. CASE RunsOf(j) = {}
    <3>1. Cardinality({}) = 0
      BY FS_EmptySet
    <3> QED
      BY <2>4, <3>1
  <2>5. CASE RunsOf(j) # {}
    <3>1. PICK x : RunsOf(j) = {x}
      BY <2>3, <2>5
    <3>2. Cardinality({x}) = 1
      BY FS_Singleton
    <3> QED
      BY <3>1, <3>2
  <2> QED
    BY <2>4, <2>5
<1> QED
  BY <1>1, <1>2 DEF CronInv, OneRunAtATime

\* The types of the variables, and a job runs once at a time: CronInv of the run
\* cron_service, for every set of jobs and every value of the other constants.
THEOREM CronCorrect == CronSpec => []CronInv
<1>1. CronSpec => []IInv
  BY InitInv, NextInv, PTL DEF CronSpec
<1> QED
  BY <1>1, InvImplies, PTL

-----------------------------------------------------------------------------
(* No step passes over a slot that is due. *)

SlotKept(j) ==
  Due(disk[j], now) /\ ~SlotExecuted(disk[j]) /\ disk'[j].enabled /\ ~Taken(j) => disk'[j].next = disk[j].next

\* What is proved of every step about the times of the jobs.
TimeEffect ==
  /\ SameTimes'
  /\ current = 1 => \A j \in DOMAIN disk \cap DOMAIN disk' : SlotKept(j) \/ Reschedules(j)

LEMMA OtherService == ASSUME current # 1, current' = current PROVE TimeEffect
  BY DEF TimeEffect, SameTimes

LEMMA QuietTimes == ASSUME SameTimes, current' = current, disk' = disk, mem'[1] = mem[1] PROVE TimeEffect
<1>1. SameTimes'
  BY DEF SameTimes
<1>2. \A j : SlotKept(j)
  BY DEF SlotKept
<1> QED
  BY <1>1, <1>2 DEF TimeEffect

\* A step writes the store of the first service, with what it has read from the disk, or
\* with what it has in its memory.
LEMMA PersistTimes ==
  ASSUME Types, current' = current, NEW s \in Service, s = 1, NEW g, Persist(s, g),
         \A j \in DOMAIN disk \cap DOMAIN g : SlotKept(j) \/ Reschedules(j)
  PROVE  TimeEffect
<1>1. disk' = g /\ mem'[1] = g
  BY ServiceFacts DEF Persist, Types
<1>2. SameTimes'
  BY <1>1 DEF SameTimes
<1> QED
  BY <1>1, <1>2 DEF TimeEffect

LEMMA FromDisk ==
  ASSUME Types, current' = current, NEW s \in Service, s = 1, NEW g, Persist(s, g),
         \A j \in DOMAIN disk \cap DOMAIN g :
           \/ Taken(j) \/ Reschedules(j)
           \/ disk[j].next # None /\ ~SlotExecuted(disk[j]) => TimeKept(disk, g, j)
  PROVE  TimeEffect
<1>1. disk' = g
  BY DEF Persist
<1>2. ASSUME NEW j \in DOMAIN disk \cap DOMAIN g PROVE SlotKept(j) \/ Reschedules(j)
  BY <1>1, <1>2 DEF SlotKept, Due, TimeKept
<1> QED
  BY <1>2, PersistTimes

LEMMA FromMemory ==
  ASSUME Types, SameTimes, current = 1, current' = current, NEW s \in Service, s = 1, NEW g, Persist(s, g),
         DOMAIN g \subseteq DOMAIN mem[1],
         \A j \in DOMAIN mem[1] : mem[1][j].next # None => TimeKept(mem[1], g, j)
  PROVE  TimeEffect
<1>1. disk' = g
  BY DEF Persist
<1>2. ASSUME NEW j \in DOMAIN disk \cap DOMAIN g PROVE SlotKept(j)
  <2>1. disk[j].enabled /\ disk[j].next # None => mem[1][j].next = disk[j].next
    BY <1>2 DEF SameTimes
  <2> QED
    BY <1>1, <1>2, <2>1 DEF SlotKept, Due, TimeKept
<1> QED
  BY <1>2, PersistTimes

\* A step that changes the store in the memory only.
LEMMA MemoryTimes ==
  ASSUME SameTimes, current' = current, disk' = disk, NEW g, mem'[1] = g, DOMAIN g = DOMAIN mem[1],
         \A j \in DOMAIN mem[1] : g[j].enabled = mem[1][j].enabled,
         \A j \in DOMAIN mem[1] : mem[1][j].next # None => TimeKept(mem[1], g, j)
  PROVE  TimeEffect
<1>1. SameTimes'
  BY DEF SameTimes, TimeKept
<1>2. \A j : SlotKept(j)
  BY DEF SlotKept
<1> QED
  BY <1>1, <1>2 DEF TimeEffect

LEMMA ResultTaken ==
  ASSUME NEW s \in Service, NEW b \in {tick[s], boot[s]}, b.stage \in {"run", "apply"},
         NEW res \in b.results
  PROVE  Taken(res.job)
  BY DEF Taken

LEMMA TickTimes ==
  ASSUME Basics, SameTimes, NEW s \in Service, TickStep(s) PROVE TimeEffect
<1>0. Types /\ disk \in Stores /\ mem \in [Service -> Stores] /\ now \in Moment /\ now \in Nat
  BY MomentTime DEF Basics, Types
<1>1. current' = current
  BY DEF TickStep, TimerFires, TickCollect, TickApply, TickEnd, TickRunEnd
<1>2. CASE current # 1
  BY <1>1, <1>2, OtherService
<1>3. CASE TimerFires(s) \/ TickEnd(s)
  BY <1>1, <1>3, QuietTimes DEF TimerFires, TickEnd
<1>4. ASSUME current = 1, TickCollect(s) PROVE TimeEffect
  <2>1. s = 1
    BY <1>4, TickActive DEF TickCollect
  <2>2. PICK due \in CollectRunnable(disk) :
          Persist(s, IF due = <<>> THEN MaintenanceRecompute(disk, now, TRUE) ELSE MarkAll(disk, Range(due)))
    BY <1>4 DEF TickCollect
  <2>3. CASE due = <<>>
    <3> DEFINE g == MaintenanceRecompute(disk, now, TRUE)
    <3>1. /\ Persist(s, g) /\ DOMAIN g = DOMAIN disk
          /\ \A j \in DOMAIN disk : disk[j].next # None /\ ~SlotExecuted(disk[j]) => TimeKept(disk, g, j)
      BY <1>0, <2>2, <2>3, MaintenanceTyped
    <3> HIDE DEF g
    <3> QED
      BY <1>0, <1>1, <2>1, <3>1, FromDisk
  <2>4. CASE due # <<>>
    <3> DEFINE g == MarkAll(disk, Range(due))
    <3>1. Persist(s, g) /\ DOMAIN g = DOMAIN disk /\ \A j \in DOMAIN disk : TimeKept(disk, g, j)
      BY <1>0, <2>2, <2>4, MarkAllTyped
    <3> HIDE DEF g
    <3> QED
      BY <1>0, <1>1, <2>1, <3>1, FromDisk
  <2> QED
    BY <2>3, <2>4
<1>5. ASSUME current = 1, TickApply(s) PROVE TimeEffect
  <2> DEFINE g == MaintenanceRecompute(ApplyAll(disk, tick[s].results), now, FALSE)
  <2>1. s = 1 /\ tick[s].stage = "apply" /\ Persist(s, g) /\ tick[s].results \in SUBSET ResultSet
    BY <1>0, <1>5, TickActive DEF TickApply, Types, BatchSet
  <2>2. \A j \in DOMAIN g : (\A res \in tick[s].results : res.job # j)
                            => (disk[j].next # None => TimeKept(disk, g, j))
    BY <1>0, <2>1, AppliedTyped
  <2>3. \A res \in tick[s].results : Taken(res.job)
    BY <2>1, ResultTaken
  <2> HIDE DEF g
  <2> QED
    BY <1>0, <1>1, <2>1, <2>2, <2>3, FromDisk
<1>6. ASSUME current = 1, NEW r \in tick[s].cur, NEW status, TickRunEnd(s, r, status) PROVE TimeEffect
  <2>1. s = 1 /\ disk' = disk
    BY <1>6, TickActive DEF TickRunEnd
  <2>2. PICK J : mem' = IF tick[s].own THEN [mem EXCEPT ![s] = MarkAll(@, J)] ELSE mem
    BY <1>6 DEF TickRunEnd
  <2>3. CASE ~tick[s].own
    BY <1>1, <2>1, <2>2, <2>3, QuietTimes
  <2>4. CASE tick[s].own
    <3> DEFINE g == MarkAll(mem[1], J)
    <3>1. mem[1] \in Stores
      BY <1>0, ServiceFacts
    <3>2. /\ DOMAIN g = DOMAIN mem[1] /\ \A j \in DOMAIN mem[1] : TimeKept(mem[1], g, j)
          /\ \A j \in DOMAIN mem[1] : g[j].enabled = mem[1][j].enabled
      BY <1>0, <3>1, MarkAllTyped
    <3>3. mem'[1] = g
      BY <1>0, <2>1, <2>2, <2>4, ServiceFacts
    <3> HIDE DEF g
    <3> QED
      BY <1>1, <2>1, <3>2, <3>3, MemoryTimes
  <2> QED
    BY <2>3, <2>4
<1> QED
  BY <1>2, <1>3, <1>4, <1>5, <1>6 DEF TickStep

LEMMA BootTimes ==
  ASSUME Basics, SameTimes, NEW s \in Service, BootStep(s) PROVE TimeEffect
<1>0. /\ Types /\ disk \in Stores /\ mem \in [Service -> Stores] /\ now \in Moment
      /\ boot \in [Service -> BatchSet(BootStages)]
  BY DEF Basics, Types
<1>1. current' = current
  BY DEF BootStep, BootClear, BootPlan, BootApply, BootFinal, BootRunEnd
<1>2. CASE current # 1
  BY <1>1, <1>2, OtherService
<1>3. ASSUME NEW r \in boot[s].cur, NEW status, BootRunEnd(s, r, status) PROVE TimeEffect
  BY <1>1, <1>3, QuietTimes DEF BootRunEnd
<1>4. ASSUME current = 1, BootClear(s) PROVE TimeEffect
  <2> DEFINE g == [j \in DOMAIN disk |-> Mark(disk[j], None)]
  <2>1. s = 1 /\ Persist(s, g)
    BY <1>4, BootActive DEF BootClear
  <2>2. DOMAIN g = DOMAIN disk /\ \A j \in DOMAIN disk : TimeKept(disk, g, j)
    BY <1>0, ClearedTyped
  <2> HIDE DEF g
  <2> QED
    BY <1>0, <1>1, <2>1, <2>2, FromDisk
<1>5. ASSUME current = 1, BootPlan(s) PROVE TimeEffect
  <2>1. s = 1 /\ mem[1] \in Stores
    BY <1>0, <1>5, BootActive, ServiceFacts DEF BootPlan
  <2>2. (disk' = disk /\ mem' = mem) \/ \E J : Persist(s, MarkAll(mem[1], J))
    <3>1. PICK missed : PlanMissed(s, missed)
      BY <1>5 DEF BootPlan
    <3> QED
      BY <2>1, <3>1 DEF PlanMissed
  <2>3. ASSUME NEW J, Persist(s, MarkAll(mem[1], J)) PROVE TimeEffect
    <3> DEFINE g == MarkAll(mem[1], J)
    <3>1. DOMAIN g = DOMAIN mem[1] /\ \A j \in DOMAIN mem[1] : TimeKept(mem[1], g, j)
      BY <1>0, <2>1, MarkAllTyped
    <3>2. Persist(s, g)
      BY <2>3
    <3> HIDE DEF g
    <3> QED
      BY <1>0, <1>1, <1>5, <2>1, <3>1, <3>2, FromMemory
  <2> QED
    BY <1>1, <2>2, <2>3, QuietTimes
<1>6. ASSUME current = 1, BootApply(s) PROVE TimeEffect
  <2> DEFINE g == MaintenanceRecompute(Staggered(ApplyAll(disk, boot[s].results), boot[s].late), now, FALSE)
  <2>1. /\ s = 1 /\ boot[s].stage = "apply" /\ Persist(s, g) /\ boot' = [boot EXCEPT ![s].stage = "final"]
        /\ boot[s].results \in SUBSET ResultSet /\ boot[s].late \in Seq(Jobs)
    BY <1>0, <1>6, BootActive DEF BootApply, BatchSet
  <2>2. \A j \in DOMAIN g : (\A res \in boot[s].results : res.job # j)
                            => (disk[j].next # None /\ j \notin Range(boot[s].late) => TimeKept(disk, g, j))
    BY <1>0, <2>1, CaughtUpTyped
  <2>3. \A res \in boot[s].results : Taken(res.job)
    BY <2>1, ResultTaken
  <2>4. \A j \in Range(boot[s].late) : Reschedules(j)
    <3>1. boot'[s].stage = "final"
      BY <1>0, <2>1 DEF BatchSet
    <3> QED
      BY <2>1, <3>1 DEF Reschedules, PutsOff
  <2> HIDE DEF g
  <2> QED
    BY <1>0, <1>1, <2>1, <2>2, <2>3, <2>4, FromDisk
<1>7. ASSUME current = 1, BootFinal(s) PROVE TimeEffect
  <2>1. /\ s = 1 /\ boot[s].stage = "final" /\ Persist(s, RecomputeNextRuns(disk, now))
        /\ boot' = [boot EXCEPT ![s] = NoBatch("up")]
    BY <1>7, BootActive DEF BootFinal
  <2>2. boot'[s].stage = "up"
    BY <1>0, <2>1 DEF NoBatch
  <2>3. \A j : Reschedules(j)
    BY <2>1, <2>2 DEF Reschedules
  <2> QED
    BY <1>0, <1>1, <2>1, <2>3, PersistTimes
<1> QED
  BY <1>2, <1>3, <1>4, <1>5, <1>6, <1>7 DEF BootStep

\* What a client asks for costs one operation; an addition makes a job known.
LEMMA AskedFor ==
  ASSUME Types, current' = current, ops' # ops \/ unborn' # unborn, NEW g, Persist(Client, g) PROVE TimeEffect
<1>1. \A j : Reschedules(j)
  BY DEF Reschedules
<1> QED
  BY <1>1, PersistTimes, ServiceFacts

LEMMA RequestTimes ==
  ASSUME Basics, SameTimes, Request PROVE TimeEffect
<1>0. Types /\ ops \in Nat /\ mem \in [Service -> Stores]
  BY DEF Basics, Types
<1>1. current' = current
  BY DEF Request, AddJob, RemoveJob, UpdateJob, EnqueueRun, Read
<1>2. CASE current # 1
  BY <1>1, <1>2, OtherService
<1>3. ASSUME NEW j \in Jobs, AddJob(j) PROVE TimeEffect
  BY <1>0, <1>1, <1>3, AskedFor DEF AddJob
<1>4. ASSUME NEW j \in Jobs, RemoveJob(j) PROVE TimeEffect
  BY <1>0, <1>1, <1>4, AskedFor DEF RemoveJob, Spend
<1>5. ASSUME NEW j \in Jobs, NEW patch, UpdateJob(j, patch) PROVE TimeEffect
  BY <1>0, <1>1, <1>5, AskedFor DEF UpdateJob, Spend
<1>6. /\ DOMAIN Maintained = DOMAIN mem[1]
      /\ \A j \in DOMAIN mem[1] : mem[1][j].next # None => TimeKept(mem[1], Maintained, j)
      /\ \A j \in DOMAIN mem[1] : Maintained[j].enabled = mem[1][j].enabled
  BY <1>0, MaintainedTyped, ServiceFacts
<1>7. ASSUME NEW j, NEW force, EnqueueRun(j, force) PROVE TimeEffect
  <2>1. disk' = disk /\ mem'[1] = Maintained
    BY <1>0, <1>7, ServiceFacts DEF EnqueueRun
  <2> QED
    BY <1>1, <1>6, <2>1, MemoryTimes
<1>8. ASSUME current = 1, Read PROVE TimeEffect
  <2>1. Persist(Client, Maintained)
    BY <1>8 DEF Read
  <2> QED
    BY <1>0, <1>1, <1>6, <1>8, <2>1, FromMemory, ServiceFacts
<1> QED
  BY <1>2, <1>3, <1>4, <1>5, <1>7, <1>8, <1>0 DEF Request, Types

LEMMA ManualTimes ==
  ASSUME Basics, SameTimes, ManualStep PROVE TimeEffect
<1>0. Types /\ disk \in Stores /\ mem \in [Service -> Stores] /\ mem[Client] \in Stores /\ now \in Moment
  BY ServiceFacts DEF Basics, Types
<1>1. current' = current
  BY DEF ManualStep, RunCheck, RunReserve, RunFinish, ManualRunEnd
<1>2. CASE current # 1
  BY <1>1, <1>2, OtherService
<1>3. CASE RunCheck
  <2>1. /\ DOMAIN Maintained = DOMAIN mem[1]
        /\ \A j \in DOMAIN mem[1] : mem[1][j].next # None => TimeKept(mem[1], Maintained, j)
        /\ \A j \in DOMAIN mem[1] : Maintained[j].enabled = mem[1][j].enabled
    BY <1>0, MaintainedTyped, ServiceFacts
  <2>2. disk' = disk /\ mem'[1] = Maintained
    BY <1>0, <1>3, ServiceFacts DEF RunCheck
  <2> QED
    BY <1>1, <2>1, <2>2, MemoryTimes
<1>4. ASSUME current = 1, RunReserve PROVE TimeEffect
  <2>1. CASE manual.job \in DOMAIN mem[Client] /\ mem[Client][manual.job].running = None
    <3> DEFINE g == [mem[Client] EXCEPT ![manual.job] = Mark(@, manual.at)]
    <3>1. Persist(Client, g) /\ manual.at \in Moment
      BY <1>0, <1>4, <2>1 DEF RunReserve, Types, ManualOK
    <3>2. /\ DOMAIN g = DOMAIN mem[Client] /\ TimeKept(mem[Client], g, manual.job)
          /\ \A i \in DOMAIN mem[Client] : i # manual.job => g[i] = mem[Client][i]
      BY <1>0, <2>1, <3>1, ReservedTyped
    <3> HIDE DEF g
    <3>3. \A j \in DOMAIN mem[1] : TimeKept(mem[1], g, j)
      BY <3>2, ServiceFacts DEF TimeKept
    <3> QED
      BY <1>0, <1>1, <1>4, <3>1, <3>2, <3>3, FromMemory, ServiceFacts
  <2>2. CASE ~(manual.job \in DOMAIN mem[Client] /\ mem[Client][manual.job].running = None)
    BY <1>1, <1>4, <2>2, QuietTimes DEF RunReserve
  <2> QED
    BY <2>1, <2>2
<1>5. ASSUME current = 1, RunFinish PROVE TimeEffect
  <2> DEFINE j == manual.job
             r == mem[Client][j]
             result == ApplyResult(r, manual, manual.force)
             g == MaintenanceRecompute(Merged(disk, j, result, Deletes(r, manual)), now, TRUE)
  <2>1. manual.stage = "finish" /\ Taken(j)
    BY <1>5 DEF RunFinish, Taken
  <2>2. CASE j \in DOMAIN mem[Client]
    <3>1. Persist(Client, g)
      BY <1>5, <2>2 DEF RunFinish
    <3>2. r \in Job
      BY <1>0, <2>2, StoreJob
    <3>3. result \in Job
      <4>1. manual.at \in Time /\ manual.ended \in Nat /\ manual.status \in ResultStatus /\ manual.force \in BOOLEAN
        BY <1>0, <2>1, MomentTime DEF Types, ManualOK, ManualSet
      <4> HIDE DEF r
      <4> QED
        BY <3>2, <4>1, ApplyResultTyped
    <3>4. Deletes(r, manual) \in BOOLEAN
      BY DEF Deletes
    <3>5. \A i \in DOMAIN g : i # j => (disk[i].next # None /\ ~SlotExecuted(disk[i]) => TimeKept(disk, g, i))
      BY <1>0, <3>3, <3>4, FinishedTyped
    <3> HIDE DEF g, j
    <3> QED
      BY <1>0, <1>1, <2>1, <3>1, <3>5, FromDisk, ServiceFacts
  <2>3. CASE j \notin DOMAIN mem[Client]
    BY <1>1, <1>5, <2>3, QuietTimes DEF RunFinish
  <2> QED
    BY <2>2, <2>3
<1>6. ASSUME NEW status, ManualRunEnd(status) PROVE TimeEffect
  BY <1>1, <1>6, QuietTimes DEF ManualRunEnd
<1> QED
  BY <1>2, <1>3, <1>4, <1>5, <1>6, <1>0 DEF ManualStep, Types

LEMMA ProcessTimes ==
  ASSUME Basics, SameTimes, ReloadConfig \/ Crash \/ TimePasses PROVE TimeEffect
<1>1. CASE ReloadConfig
  BY <1>1 DEF ReloadConfig, TimeEffect, SameTimes, SlotKept
<1>2. CASE Crash
  <2>1. DOMAIN mem'[1] = {} /\ disk' = disk
    BY <1>2, ServiceFacts DEF Crash
  <2> QED
    BY <2>1 DEF TimeEffect, SameTimes, SlotKept
<1>3. CASE TimePasses
  BY <1>3, QuietTimes DEF TimePasses
<1> QED
  BY <1>1, <1>2, <1>3

LEMMA TimesNext ==
  ASSUME Basics, SameTimes, [CronNext]_cronVars PROVE TimeEffect
<1>1. CASE CronNext
  BY <1>1, TickTimes, BootTimes, RequestTimes, ManualTimes, ProcessTimes DEF CronNext
<1>2. CASE UNCHANGED cronVars
  BY <1>2, QuietTimes DEF cronVars
<1> QED
  BY <1>1, <1>2

LEMMA InitTimes == CronInit => SameTimes
<1>1. CronInit => DOMAIN mem[1] = {}
  BY ServiceFacts DEF CronInit
<1> QED
  BY <1>1 DEF SameTimes

\* While the process has one service, its memory has the times of the jobs on disk.
THEOREM TimesInMemory == CronSpec => []SameTimes
<1>1. CronSpec => []IInv
  BY InitInv, NextInv, PTL DEF CronSpec
<1>2. IInv /\ SameTimes /\ [CronNext]_cronVars => SameTimes'
  BY TimesNext DEF IInv, TimeEffect
<1> QED
  BY <1>1, <1>2, InitTimes, PTL DEF CronSpec

\* A slot of an idle job whose time has come is not passed over: DueNotSkipped of the run
\* cron_service, for every set of jobs and every value of the other constants.
THEOREM SlotsNotSkipped == CronSpec => DueNotSkipped
<1> DEFINE Kept ==
      \A j \in DOMAIN disk \cap DOMAIN disk' :
        Due(disk[j], now) /\ ~SlotExecuted(disk[j]) /\ disk'[j].enabled
          /\ ~Taken(j) /\ disk'[j].next # disk[j].next
        => Reschedules(j) \/ current = 2
<1>1. CronSpec => []IInv
  BY InitInv, NextInv, PTL DEF CronSpec
<1>2. IInv /\ SameTimes /\ [CronNext]_cronVars => [Kept]_cronVars
  <2> SUFFICES ASSUME IInv, SameTimes, [CronNext]_cronVars PROVE Kept
    OBVIOUS
  <2>1. TimeEffect /\ current \in {1, 2}
    BY TimesNext DEF IInv, Basics, Types
  <2> QED
    BY <2>1 DEF TimeEffect, SlotKept
<1>3. DueNotSkipped <=> [][Kept]_cronVars
  BY DEF DueNotSkipped
<1> HIDE DEF Kept
<1> QED
  BY <1>1, <1>2, <1>3, TimesInMemory, PTL DEF CronSpec
-----------------------------------------------------------------------------
(* The backoff: what the operators of CronJobs do to the time of a job that failed. *)

\* An enabled job has a time, and a disabled one has none.
HasTime(r) == r.enabled => r.next # None
Timed(f) == \A j \in DOMAIN f : f[j].enabled <=> f[j].next # None

SameRun(q, r) == q.last = r.last /\ q.status = r.status /\ q.errors = r.errors
SameJob(q, r) == SameRun(q, r) /\ q.enabled = r.enabled /\ q.next = r.next

\* The backoff after the last error has passed; it has passed whenever the job is due.
Rested(r, t) == t >= r.last + ErrorBackoff(r.errors)
Backed(r, t) ==
  r.status = "error" /\ r.enabled => \A u \in Moment : u >= t /\ u >= r.next => Rested(r, u)

LEMMA SameBacked ==
  ASSUME NEW q, NEW r, NEW t, SameJob(q, r), Backed(r, t) PROVE Backed(q, t)
  BY DEF SameJob, SameRun, Backed, Rested

LEMMA CappedSome == ASSUME NEW t \in Nat \ {0} PROVE Capped(t) # None
  BY CronTimes DEF Capped, None

LEMMA NextRunSome ==
  ASSUME NEW r \in Job, NEW t \in Nat PROVE r.enabled <=> NextRun(r, t) # None
<1>1. r.last \in Nat /\ Period \in Nat \ {0} /\ AtTime \in Nat \ {0}
  BY CronTimes, TimeNat DEF Job
<1>2. SlotAfter(t) \in Nat \ {0}
  <2>1. t \div Period \in Nat
    BY <1>1
  <2>2. ASSUME NEW a \in Nat PROVE (a + 1) * Period \in Nat \ {0}
    <3>1. a * Period \in Nat /\ (a + 1) * Period = a * Period + Period
      BY <1>1
    <3> QED
      BY <1>1, <3>1
  <2> QED
    BY <2>1, <2>2 DEF SlotAfter
<1>3. r.last + Period \in Nat \ {0}
  BY <1>1
<1>4. Capped(AtTime) # None /\ Capped(r.last + Period) # None /\ Capped(SlotAfter(t)) # None
  BY <1>1, <1>2, <1>3, CappedSome
<1> QED
  BY <1>4 DEF NextRun, Job

LEMMA RestedLater ==
  ASSUME NEW r \in Job, NEW t \in Moment, NEW u \in Moment, u >= t, Rested(r, t) PROVE Rested(r, u)
<1>1. r.last + ErrorBackoff(r.errors) \in Nat /\ t \in Nat /\ u \in Nat
  BY BackoffNat, TimeNat, MomentTime DEF Job
<1> QED
  BY <1>1 DEF Rested

LEMMA BackedLater ==
  ASSUME NEW r, NEW t \in Nat, Backed(r, t) PROVE Backed(r, t + 1)
<1>1. ASSUME NEW u \in Moment, u >= t + 1 PROVE u >= t
  BY <1>1, MomentTime
<1> QED
  BY <1>1 DEF Backed

\* A job that is due gets another time.
LEMMA DueBacked ==
  ASSUME NEW r \in Job, NEW t \in Moment, NEW x \in Time, Backed(r, t), t >= r.next
  PROVE  Backed([r EXCEPT !.next = x], t)
<1> DEFINE q == [r EXCEPT !.next = x]
<1>1. q \in Job /\ SameRun(q, r) /\ q.enabled = r.enabled
  BY DEF Job, SameRun
<1>2. t >= t
  BY MomentTime
<1> HIDE DEF q
<1>3. ASSUME q.status = "error", q.enabled, NEW u \in Moment, u >= t PROVE Rested(q, u)
  <2>1. Rested(r, t)
    BY <1>1, <1>2, <1>3 DEF Backed, SameRun
  <2>2. Rested(r, u)
    BY <1>3, <2>1, RestedLater
  <2> QED
    BY <1>1, <2>2 DEF Rested, SameRun
<1>4. Backed(q, t)
  BY <1>3 DEF Backed
<1> QED
  BY <1>4 DEF q

LEMMA NormalizedPaced ==
  ASSUME NEW r \in Job, NEW t \in Nat, HasTime(r)
  PROVE  LET n == Normalized(r, t)
         IN  /\ n \in Job /\ n.enabled = r.enabled /\ SameRun(n, r) /\ (n.enabled <=> n.next # None)
             /\ r.enabled => n.next = r.next
  BY NoneTime DEF Job, Normalized, HasTime, SameRun

\* Both recomputations: a job gets another time only when it is due.
LEMMA RenewedPaced ==
  ASSUME NEW r \in Job, NEW t \in Moment, HasTime(r), NEW c \in BOOLEAN,
         c => Normalized(r, t).enabled /\ t >= Normalized(r, t).next
  PROVE  LET n == Normalized(r, t)
             q == IF c THEN [n EXCEPT !.next = NextRun(n, t)] ELSE n
         IN  /\ q.enabled <=> q.next # None
             /\ SameRun(q, r) /\ q.enabled = r.enabled
             /\ ~c /\ r.enabled => q.next = r.next
             /\ Backed(r, t) => Backed(q, t)
<1> DEFINE n == Normalized(r, t)
           q == IF c THEN [n EXCEPT !.next = NextRun(n, t)] ELSE n
<1>0. t \in Nat
  BY MomentTime
<1>1. /\ n \in Job /\ n.enabled = r.enabled /\ SameRun(n, r) /\ (n.enabled <=> n.next # None)
      /\ r.enabled => n.next = r.next
  BY <1>0, NormalizedPaced
<1>2. Backed(r, t) => Backed(n, t)
  <2> HIDE DEF n
  <2> QED
    BY <1>1 DEF Backed, Rested, SameRun
<1>3. c => n.enabled /\ t >= n.next
  OBVIOUS
<1> HIDE DEF n
<1>4. NextRun(n, t) \in Time /\ (n.enabled <=> NextRun(n, t) # None)
  BY <1>0, <1>1, NextRunTime, NextRunSome
<1> DEFINE x == NextRun(n, t)
<1>5. /\ q.enabled <=> q.next # None
      /\ SameRun(q, r) /\ q.enabled = r.enabled
      /\ ~c /\ r.enabled => q.next = r.next
  <2> HIDE DEF x
  <2>1. CASE c
    <3>1. q = [n EXCEPT !.next = x]
      BY <2>1 DEF x
    <3>2. q.enabled = n.enabled /\ q.next = x /\ SameRun(q, n)
      BY <1>1, <3>1 DEF Job, SameRun
    <3> QED
      BY <1>1, <1>4, <2>1, <3>2 DEF SameRun, x
  <2>2. CASE ~c
    BY <1>1, <2>2
  <2> QED
    BY <2>1, <2>2
<1>6. Backed(r, t) => Backed(q, t)
  BY <1>1, <1>2, <1>3, <1>4, DueBacked
<1> QED
  BY <1>5, <1>6 DEF n

LEMMA MaintenancePaced ==
  ASSUME NEW f \in Stores, NEW t \in Moment, NEW e \in BOOLEAN, \A j \in DOMAIN f : HasTime(f[j])
  PROVE  LET g == MaintenanceRecompute(f, t, e)
         IN  /\ Timed(g)
             /\ \A j \in DOMAIN f :
                  /\ SameRun(g[j], f[j]) /\ g[j].enabled = f[j].enabled
                  /\ ~e /\ f[j].enabled => g[j].next = f[j].next
                  /\ Backed(f[j], t) => Backed(g[j], t)
<1> DEFINE n(j) == Normalized(f[j], t)
           c(j) == n(j).enabled /\ (n(j).next = None \/ (e /\ t >= n(j).next /\ n(j).running = None /\ SlotExecuted(n(j))))
           new(j) == IF c(j) THEN [n(j) EXCEPT !.next = NextRun(n(j), t)] ELSE n(j)
           g == MaintenanceRecompute(f, t, e)
<1>1. g = [j \in DOMAIN f |-> new(j)]
  BY DEF MaintenanceRecompute
<1>2. ASSUME NEW j \in DOMAIN f
      PROVE  /\ new(j).enabled <=> new(j).next # None
             /\ SameRun(new(j), f[j]) /\ new(j).enabled = f[j].enabled
             /\ ~e /\ f[j].enabled => new(j).next = f[j].next
             /\ Backed(f[j], t) => Backed(new(j), t)
  <2>1. f[j] \in Job /\ HasTime(f[j]) /\ t \in Nat
    BY StoreJob, MomentTime
  <2>2. n(j).enabled <=> n(j).next # None
    BY <2>1, NormalizedPaced
  <2>3. c(j) \in BOOLEAN /\ (c(j) => n(j).enabled /\ t >= n(j).next /\ e)
    <3> HIDE DEF n
    <3> QED
      BY <2>2
  <2> HIDE DEF c
  <2>4. c(j) \in BOOLEAN /\ (c(j) => Normalized(f[j], t).enabled /\ t >= Normalized(f[j], t).next)
    BY <2>3
  <2>5. /\ new(j).enabled <=> new(j).next # None
        /\ SameRun(new(j), f[j]) /\ new(j).enabled = f[j].enabled
        /\ ~c(j) /\ f[j].enabled => new(j).next = f[j].next
        /\ Backed(f[j], t) => Backed(new(j), t)
    BY <2>1, <2>4, RenewedPaced
  <2> HIDE DEF new, n
  <2> QED
    BY <2>3, <2>5
<1> HIDE DEF g, new
<1>3. Timed(g)
  BY <1>1, <1>2 DEF Timed
<1>4. \A j \in DOMAIN f :
        /\ SameRun(g[j], f[j]) /\ g[j].enabled = f[j].enabled
        /\ ~e /\ f[j].enabled => g[j].next = f[j].next
        /\ Backed(f[j], t) => Backed(g[j], t)
  BY <1>1, <1>2
<1> QED
  BY <1>3, <1>4 DEF g

LEMMA RecomputePaced ==
  ASSUME NEW f \in Stores, NEW t \in Moment, \A j \in DOMAIN f : HasTime(f[j])
  PROVE  LET g == RecomputeNextRuns(f, t)
         IN  /\ Timed(g)
             /\ \A j \in DOMAIN f : SameRun(g[j], f[j]) /\ (Backed(f[j], t) => Backed(g[j], t))
<1> DEFINE n(j) == Normalized(f[j], t)
           c(j) == n(j).enabled /\ (n(j).next = None \/ t >= n(j).next)
           new(j) == IF c(j) THEN [n(j) EXCEPT !.next = NextRun(n(j), t)] ELSE n(j)
           g == RecomputeNextRuns(f, t)
<1>1. g = [j \in DOMAIN f |-> new(j)]
  BY DEF RecomputeNextRuns
<1>2. ASSUME NEW j \in DOMAIN f
      PROVE  /\ new(j).enabled <=> new(j).next # None
             /\ SameRun(new(j), f[j])
             /\ Backed(f[j], t) => Backed(new(j), t)
  <2>1. f[j] \in Job /\ HasTime(f[j]) /\ t \in Nat
    BY StoreJob, MomentTime
  <2>2. n(j).enabled <=> n(j).next # None
    BY <2>1, NormalizedPaced
  <2>3. c(j) \in BOOLEAN /\ (c(j) => n(j).enabled /\ t >= n(j).next)
    <3> HIDE DEF n
    <3> QED
      BY <2>2
  <2> HIDE DEF c
  <2>4. c(j) \in BOOLEAN /\ (c(j) => Normalized(f[j], t).enabled /\ t >= Normalized(f[j], t).next)
    BY <2>3
  <2> QED
    BY <2>1, <2>4, RenewedPaced
<1> HIDE DEF g, new
<1>3. Timed(g) /\ \A j \in DOMAIN f : SameRun(g[j], f[j]) /\ (Backed(f[j], t) => Backed(g[j], t))
  BY <1>1, <1>2 DEF Timed
<1> QED
  BY <1>3 DEF g

LEMMA CappedBelow ==
  ASSUME NEW u \in Moment, NEW x \in Nat, u >= Capped(x) PROVE u >= x
  BY CronTimes DEF Capped, Moment

\* A job that failed is not due again before its backoff has passed.
LEMMA ApplyResultPaced ==
  ASSUME NEW r \in Job, NEW res, res.at \in Time, res.ended \in Moment, res.at <= res.ended,
         res.status \in ResultStatus, NEW p \in BOOLEAN, NEW t
  PROVE  HasTime(ApplyResult(r, res, p)) /\ Backed(ApplyResult(r, res, p), t)
<1> DEFINE errors == IF IsError(res.status) THEN r.errors + 1 ELSE 0
           status == IF IsError(res.status) THEN "error" ELSE res.status
           ran == [r EXCEPT !.running = None, !.last = res.at, !.errors = errors, !.status = status]
           back == [ran EXCEPT !.last = r.last]
           natural == NextRun(IF p THEN back ELSE ran, res.ended)
           delayed == Capped(res.ended + ErrorBackoff(errors))
           retries == res.status = "error" /\ errors <= MaxAttempts
           pause == IF r.enabled /\ IsError(res.status) /\ delayed > natural THEN delayed ELSE natural
           q == ApplyResult(r, res, p)
<1>1. errors \in Nat /\ status \in Statuses /\ (status = "error" => IsError(res.status))
  BY DEF Job, IsError, Statuses, ResultStatus
<1>2. /\ ran \in Job /\ ran.enabled = r.enabled /\ ran.last = res.at /\ ran.errors = errors
      /\ ran.status = status
  <2> HIDE DEF errors, status
  <2> QED
    BY <1>1, NoneTime DEF Job
<1>3. back \in Job /\ back.enabled = r.enabled
  <2>1. r.last \in Time
    BY DEF Job
  <2> HIDE DEF ran
  <2> QED
    BY <1>2, <2>1 DEF Job
<1>4. natural \in Time /\ (r.enabled => natural # None)
  <2> HIDE DEF ran, back
  <2>1. (IF p THEN back ELSE ran) \in Job /\ (IF p THEN back ELSE ran).enabled = r.enabled
    BY <1>2, <1>3
  <2>2. res.ended \in Nat
    BY MomentTime
  <2> QED
    BY <2>1, <2>2, NextRunTime, NextRunSome
<1>5. /\ delayed \in Time /\ delayed # None
      /\ \A u \in Moment : u >= delayed => u >= res.at + ErrorBackoff(errors)
  <2>1. ErrorBackoff(errors) \in Nat /\ res.ended \in Nat \ {0} /\ res.at \in Nat
    BY <1>1, BackoffNat, TimeNat, CronTimes DEF Moment
  <2>2. res.ended + ErrorBackoff(errors) \in Nat \ {0}
    BY <2>1
  <2>3. delayed \in Time /\ delayed # None
    BY <2>2, CappedTime, CappedSome
  <2>4. ASSUME NEW u \in Moment, u >= delayed PROVE u >= res.at + ErrorBackoff(errors)
    <3>1. u >= res.ended + ErrorBackoff(errors)
      BY <2>2, <2>4, CappedBelow
    <3>2. u \in Nat
      BY MomentTime
    <3> QED
      BY <2>1, <3>1, <3>2
  <2> QED
    BY <2>3, <2>4
<1>6. q = IF r.kind = "at"
          THEN IF retries THEN [ran EXCEPT !.next = delayed] ELSE [ran EXCEPT !.enabled = FALSE, !.next = None]
          ELSE [ran EXCEPT !.next = pause]
  BY DEF ApplyResult
<1>7. /\ pause \in Time /\ (r.enabled => pause # None)
      /\ r.enabled /\ IsError(res.status) => pause >= delayed
  <2> HIDE DEF natural, delayed
  <2>1. natural \in Nat /\ delayed \in Nat
    BY <1>4, <1>5, TimeNat
  <2> QED
    BY <1>4, <1>5, <2>1
<1> HIDE DEF errors, status, ran, back, natural, delayed, retries, pause, q
\* Either way the time is not before the delay.
<1>8. ASSUME NEW x \in Time, q = [ran EXCEPT !.next = x], r.enabled => x # None,
             r.enabled /\ IsError(res.status) => x >= delayed
      PROVE  HasTime(q) /\ Backed(q, t)
  <2>1. /\ q.next = x /\ q.enabled = r.enabled /\ q.last = res.at /\ q.errors = errors /\ q.status = status
    BY <1>2, <1>8 DEF Job
  <2>2. ASSUME q.status = "error", q.enabled, NEW u \in Moment, u >= q.next PROVE Rested(q, u)
    <3>1. x >= delayed
      BY <1>1, <1>8, <2>1, <2>2
    <3>2. u >= delayed
      <4>1. u \in Nat /\ x \in Nat /\ delayed \in Nat
        BY <1>5, MomentTime, TimeNat
      <4> QED
        BY <2>1, <2>2, <3>1, <4>1
    <3> QED
      BY <1>5, <2>1, <3>2 DEF Rested
  <2> QED
    BY <1>8, <2>1, <2>2 DEF HasTime, Backed
<1>9. ASSUME q = [ran EXCEPT !.enabled = FALSE, !.next = None] PROVE HasTime(q) /\ Backed(q, t)
  <2>1. ~q.enabled
    BY <1>2, <1>9 DEF Job
  <2> QED
    BY <2>1 DEF HasTime, Backed
<1>10. delayed >= delayed
  BY <1>5, TimeNat
<1>11. HasTime(q) /\ Backed(q, t)
  BY <1>5, <1>6, <1>7, <1>8, <1>9, <1>10
<1> QED
  BY <1>11 DEF q

LEMMA ApplyAllPaced ==
  ASSUME NEW f \in Stores, Timed(f), NEW results \in SUBSET ResultSet, \A res \in results : res.at <= res.ended, NEW t
  PROVE  LET g == ApplyAll(f, results)
         IN  \A j \in DOMAIN g : HasTime(g[j]) /\ (Backed(f[j], t) => Backed(g[j], t))
<1> DEFINE g == ApplyAll(f, results)
           resultOf(j) == {res \in results : res.job = j}
           kept == {j \in DOMAIN f : \A res \in resultOf(j) : ~Deletes(f[j], res)}
           the(j) == CHOOSE res \in resultOf(j) : TRUE
<1>1. g = [j \in kept |-> IF resultOf(j) = {} THEN f[j] ELSE ApplyResult(f[j], the(j), FALSE)]
  BY DEF ApplyAll
<1>2. ASSUME NEW j \in kept, resultOf(j) # {}
      PROVE  HasTime(ApplyResult(f[j], the(j), FALSE)) /\ Backed(ApplyResult(f[j], the(j), FALSE), t)
  <2>1. the(j) \in results
    BY <1>2
  <2>2. /\ the(j).at \in Moment /\ the(j).ended \in Moment /\ the(j).status \in ResultStatus
        /\ the(j).at <= the(j).ended
    <3> HIDE DEF the
    <3> QED
      BY <2>1 DEF ResultSet
  <2>3. f[j] \in Job
    BY StoreJob
  <2> HIDE DEF the, resultOf, kept
  <2>4. the(j).at \in Time
    BY <2>2, MomentTime
  <2> QED
    BY <2>2, <2>3, <2>4, ApplyResultPaced
<1>3. \A j \in kept : j \in DOMAIN f /\ HasTime(f[j])
  BY DEF Timed, HasTime
<1> HIDE DEF g, kept, resultOf, the
<1>4. \A j \in DOMAIN g : HasTime(g[j]) /\ (Backed(f[j], t) => Backed(g[j], t))
  BY <1>1, <1>2, <1>3
<1> QED
  BY <1>4 DEF g

LEMMA StaggeredPaced ==
  ASSUME NEW f \in Stores, \A j \in DOMAIN f : HasTime(f[j]), NEW late \in Seq(Jobs), now \in Moment
  PROVE  LET g == Staggered(f, late)
         IN  /\ \A j \in DOMAIN f : HasTime(g[j]) /\ SameRun(g[j], f[j])
             /\ \A j \in DOMAIN f : g[j].enabled = f[j].enabled
<1> DEFINE g == Staggered(f, late)
           there == {j \in DOMAIN f : j \in Range(late) /\ f[j].enabled}
           UpTo(j) == {i \in DOMAIN late : late[i] \in there /\ \E k \in DOMAIN late : i <= k /\ late[k] = j}
           at(j) == Capped(now + StaggerUnits * Cardinality(UpTo(j)))
<1>1. g = [j \in DOMAIN f |-> IF j \in there THEN [f[j] EXCEPT !.next = at(j)] ELSE f[j]]
  BY DEF Staggered
<1>2. ASSUME NEW j PROVE at(j) \in Time /\ at(j) # None
  <2>1. UpTo(j) \subseteq 1..Len(late) /\ Len(late) \in Nat
    OBVIOUS
  <2>2. IsFiniteSet(1..Len(late))
    BY <2>1, FS_Interval
  <2>3. Cardinality(UpTo(j)) \in Nat
    <3> HIDE DEF UpTo
    <3> QED
      BY <2>1, <2>2, FS_Subset, FS_CardinalityType
  <2>4. now \in Nat \ {0} /\ StaggerUnits \in Nat
    BY CronInstance, CronTimes DEF Moment
  <2> HIDE DEF UpTo
  <2>5. now + StaggerUnits * Cardinality(UpTo(j)) \in Nat \ {0}
    <3> DEFINE y == StaggerUnits * Cardinality(UpTo(j))
    <3>1. y \in Nat
      BY <2>3, <2>4
    <3> HIDE DEF y
    <3>2. now + y \in Nat \ {0}
      BY <2>4, <3>1
    <3> QED
      BY <3>2 DEF y
  <2> QED
    BY <2>5, CappedTime, CappedSome
<1> HIDE DEF at
<1>3. ASSUME NEW j \in DOMAIN f
      PROVE  LET r == [f[j] EXCEPT !.next = at(j)]
             IN  HasTime(r) /\ SameRun(r, f[j]) /\ r.enabled = f[j].enabled
  <2>1. f[j] \in Job /\ at(j) # None
    BY <1>2, StoreJob
  <2> QED
    BY <2>1 DEF Job, HasTime, SameRun
<1> HIDE DEF there, g
<1>4. \A j \in DOMAIN f : HasTime(g[j]) /\ SameRun(g[j], f[j])
  BY <1>1, <1>3 DEF SameRun
<1>5. \A j \in DOMAIN f : g[j].enabled = f[j].enabled
  BY <1>1, <1>3
<1> QED
  BY <1>4, <1>5 DEF g

\* The stores that the steps write, as above.
Paces(f, g, j) == j \in DOMAIN f /\ (Backed(f[j], now) => Backed(g[j], now))

LEMMA AppliedPaced ==
  ASSUME NEW f \in Stores, Timed(f), NEW results \in SUBSET ResultSet, \A res \in results : res.at <= res.ended,
         now \in Moment
  PROVE  LET g == MaintenanceRecompute(ApplyAll(f, results), now, FALSE)
         IN  /\ Timed(g)
             /\ \A j \in DOMAIN g : Paces(f, g, j)
             /\ \A j \in DOMAIN g : (\A res \in results : res.job # j) => SameRun(g[j], f[j])
<1> DEFINE h == ApplyAll(f, results)
           g == MaintenanceRecompute(h, now, FALSE)
<1>0. now \in Nat
  BY MomentTime
<1>1. /\ h \in Stores /\ DOMAIN h \subseteq DOMAIN f
      /\ \A j \in DOMAIN h : (\A res \in results : res.job # j) => h[j] = f[j]
  BY ApplyAllTyped
<1>2. \A j \in DOMAIN h : HasTime(h[j]) /\ (Backed(f[j], now) => Backed(h[j], now))
  BY ApplyAllPaced
<1> HIDE DEF h
<1>3. DOMAIN g = DOMAIN h
  BY <1>0, <1>1, MaintenanceTyped
<1>4. Timed(g) /\ \A j \in DOMAIN h : SameRun(g[j], h[j]) /\ (Backed(h[j], now) => Backed(g[j], now))
  BY <1>1, <1>2, MaintenancePaced
<1> HIDE DEF g
<1>5. \A j \in DOMAIN g : Paces(f, g, j)
  BY <1>1, <1>2, <1>3, <1>4 DEF Paces
<1>6. \A j \in DOMAIN g : (\A res \in results : res.job # j) => SameRun(g[j], f[j])
  BY <1>1, <1>3, <1>4
<1> QED
  BY <1>4, <1>5, <1>6 DEF g, h

LEMMA CaughtUpPaced ==
  ASSUME NEW f \in Stores, Timed(f), NEW results \in SUBSET ResultSet, \A res \in results : res.at <= res.ended,
         NEW late \in Seq(Jobs), now \in Moment
  PROVE  LET g == MaintenanceRecompute(Staggered(ApplyAll(f, results), late), now, FALSE)
         IN  /\ Timed(g)
             /\ \A j \in DOMAIN g :
                  j \notin Range(late) \/ (g[j].next = f[j].next /\ \A res \in results : res.job # j) => Paces(f, g, j)
             /\ \A j \in DOMAIN g : (\A res \in results : res.job # j) => SameRun(g[j], f[j])
<1> DEFINE h == ApplyAll(f, results)
           k == Staggered(h, late)
           g == MaintenanceRecompute(k, now, FALSE)
<1>0. now \in Nat
  BY MomentTime
<1>1. /\ h \in Stores /\ DOMAIN h \subseteq DOMAIN f
      /\ \A j \in DOMAIN h : (\A res \in results : res.job # j) => h[j] = f[j]
  BY ApplyAllTyped
<1>2. \A j \in DOMAIN h : HasTime(h[j]) /\ (Backed(f[j], now) => Backed(h[j], now))
  BY ApplyAllPaced
<1> HIDE DEF h
<1>3. /\ k \in Stores /\ DOMAIN k = DOMAIN h
      /\ \A j \in DOMAIN h : j \notin Range(late) => k[j] = h[j]
  BY <1>1, StaggeredTyped
<1>4. /\ \A j \in DOMAIN h : HasTime(k[j]) /\ SameRun(k[j], h[j])
      /\ \A j \in DOMAIN h : k[j].enabled = h[j].enabled
  BY <1>1, <1>2, StaggeredPaced
<1> HIDE DEF k
<1>5. DOMAIN g = DOMAIN k
  BY <1>0, <1>3, MaintenanceTyped
<1>6. /\ Timed(g)
      /\ \A j \in DOMAIN k :
           SameRun(g[j], k[j]) /\ g[j].enabled = k[j].enabled /\ (Backed(k[j], now) => Backed(g[j], now))
  BY <1>3, <1>4, MaintenancePaced
<1> HIDE DEF g
<1>7. \A j \in DOMAIN g : (\A res \in results : res.job # j) => SameRun(g[j], f[j])
  BY <1>1, <1>3, <1>4, <1>5, <1>6 DEF SameRun
<1>8. ASSUME NEW j \in DOMAIN g, j \notin Range(late) PROVE Paces(f, g, j)
  BY <1>1, <1>2, <1>3, <1>5, <1>6, <1>8 DEF Paces
<1>9. ASSUME NEW j \in DOMAIN g, g[j].next = f[j].next, \A res \in results : res.job # j PROVE Paces(f, g, j)
  <2>1. SameRun(g[j], f[j]) /\ g[j].enabled = f[j].enabled /\ j \in DOMAIN f
    BY <1>1, <1>3, <1>4, <1>5, <1>6, <1>7, <1>9
  <2> QED
    BY <1>9, <2>1, SameBacked DEF SameJob, Paces
<1> QED
  BY <1>6, <1>7, <1>8, <1>9 DEF g, h, k

\* Marking and clearing keep everything else of a job.
LEMMA SameStore ==
  ASSUME NEW f, Timed(f), NEW g, DOMAIN g \subseteq DOMAIN f, \A j \in DOMAIN g : SameJob(g[j], f[j])
  PROVE  Timed(g) /\ \A j \in DOMAIN g : Paces(f, g, j) /\ SameRun(g[j], f[j])
  BY SameBacked DEF Timed, Paces, SameJob

LEMMA MarkSame == ASSUME NEW r \in Job, NEW x \in Time PROVE SameJob(Mark(r, x), r)
  BY DEF Job, Mark, SameJob, SameRun

LEMMA MarkAllSame ==
  ASSUME NEW f \in Stores, NEW J, now \in Moment
  PROVE  \A j \in DOMAIN f : SameJob(MarkAll(f, J)[j], f[j])
<1>1. \A j \in DOMAIN f : SameJob(Mark(f[j], now), f[j])
  BY StoreJob, MomentTime, MarkSame
<1> QED
  BY <1>1 DEF MarkAll, SameJob, SameRun

LEMMA ClearedSame ==
  ASSUME NEW f \in Stores
  PROVE  LET g == [j \in DOMAIN f |-> Mark(f[j], None)]
         IN  DOMAIN g = DOMAIN f /\ \A j \in DOMAIN f : SameJob(g[j], f[j])
  BY StoreJob, NoneTime, MarkSame

LEMMA ReservedSame ==
  ASSUME NEW f \in Stores, NEW j \in DOMAIN f, NEW at \in Moment
  PROVE  LET g == [f EXCEPT ![j] = Mark(@, at)]
         IN  DOMAIN g = DOMAIN f /\ \A i \in DOMAIN f : SameJob(g[i], f[i])
<1> DEFINE r == Mark(f[j], at)
           g == [f EXCEPT ![j] = r]
<1>1. SameJob(r, f[j])
  BY StoreJob, MomentTime, MarkSame
<1> HIDE DEF r
<1>2. DOMAIN g = DOMAIN f /\ \A i \in DOMAIN f : SameJob(g[i], f[i])
  BY <1>1 DEF SameJob, SameRun
<1>3. [f EXCEPT ![j] = Mark(@, at)] = g
  BY DEF g, r
<1> QED
  BY <1>2, <1>3

\* The maintenance that does not advance what has run changes the markers only.
LEMMA MaintenanceSame ==
  ASSUME NEW f \in Stores, Timed(f), now \in Moment
  PROVE  LET g == MaintenanceRecompute(f, now, FALSE)
         IN  Timed(g) /\ DOMAIN g = DOMAIN f /\ \A j \in DOMAIN f : SameJob(g[j], f[j])
<1> DEFINE g == MaintenanceRecompute(f, now, FALSE)
<1>1. now \in Nat /\ \A j \in DOMAIN f : HasTime(f[j])
  BY MomentTime DEF Timed, HasTime
<1>2. /\ Timed(g)
      /\ \A j \in DOMAIN f : /\ SameRun(g[j], f[j]) /\ g[j].enabled = f[j].enabled
                             /\ f[j].enabled => g[j].next = f[j].next
  BY <1>1, MaintenancePaced
<1>3. DOMAIN g = DOMAIN f
  BY <1>1, MaintenanceTyped
<1> HIDE DEF g
<1>4. \A j \in DOMAIN f : SameJob(g[j], f[j])
  BY <1>2, <1>3 DEF SameJob, Timed
<1> QED
  BY <1>2, <1>3, <1>4 DEF g

LEMMA AddedPaced ==
  ASSUME NEW f \in Stores, Timed(f), NEW j \in Jobs, now \in Moment, j \notin DOMAIN f
  PROVE  LET g == RecomputeNextRuns(WithJob(f, j, NewJob(Kind[j], now)), now)
         IN  /\ Timed(g) /\ DOMAIN g = DOMAIN f \cup {j} /\ Backed(g[j], now)
             /\ \A i \in DOMAIN f : Paces(f, g, i) /\ SameRun(g[i], f[i])
<1> DEFINE new == NewJob(Kind[j], now)
           h == WithJob(f, j, new)
           g == RecomputeNextRuns(h, now)
<1>0. now \in Nat /\ Kind[j] \in Kinds
  BY MomentTime, CronInstance
<1>1. new \in Job
  BY <1>0, NewJobTyped
<1>2. new.status = "none" /\ HasTime(new)
  <2> DEFINE r == [kind |-> Kind[j], enabled |-> TRUE, next |-> None, running |-> None, last |-> None,
                   status |-> "none", errors |-> 0]
  <2>1. r \in Job /\ r.status = "none" /\ r.enabled
    BY <1>0, NoneTime DEF Job, Statuses
  <2>2. new = [r EXCEPT !.next = NextRun(r, now)]
    BY DEF NewJob
  <2> HIDE DEF r, new
  <2>3. NextRun(r, now) # None
    BY <1>0, <2>1, NextRunSome
  <2> DEFINE x == NextRun(r, now)
  <2> HIDE DEF x
  <2>4. new = [r EXCEPT !.next = x] /\ x # None
    BY <2>2, <2>3 DEF x
  <2> QED
    BY <2>1, <2>4 DEF Job, HasTime
<1> HIDE DEF new
<1>3. /\ h \in Stores /\ DOMAIN h = DOMAIN f \cup {j} /\ \A i \in DOMAIN f : i # j => h[i] = f[i]
  BY <1>1, WithJobTyped
<1>4. h[j] = new
  BY DEF WithJob
<1> HIDE DEF h
<1>5. \A i \in DOMAIN h : HasTime(h[i])
  BY <1>2, <1>3, <1>4 DEF Timed, HasTime
<1>6. Timed(g) /\ \A i \in DOMAIN h : SameRun(g[i], h[i]) /\ (Backed(h[i], now) => Backed(g[i], now))
  BY <1>3, <1>5, RecomputePaced
<1>7. DOMAIN g = DOMAIN h
  BY <1>0, <1>3, RecomputeTyped
<1> HIDE DEF g
<1>8. Backed(g[j], now)
  <2>1. Backed(h[j], now)
    BY <1>2, <1>4 DEF Backed
  <2> QED
    BY <1>3, <1>6, <2>1
<1>9. \A i \in DOMAIN f : Paces(f, g, i) /\ SameRun(g[i], f[i])
  BY <1>3, <1>6 DEF Paces
<1> QED
  BY <1>3, <1>6, <1>7, <1>8, <1>9 DEF g, h, new

\* A patch leaves the last run of the job alone, and with its time the whole job.
LEMMA UpdatedPaced ==
  ASSUME NEW f \in Stores, Timed(f), NEW j \in DOMAIN f, NEW patch, now \in Moment
  PROVE  LET g == [f EXCEPT ![j] = Patched(@, patch)]
         IN  /\ Timed(g) /\ DOMAIN g = DOMAIN f
             /\ \A i \in DOMAIN f : SameRun(g[i], f[i])
             /\ \A i \in DOMAIN f : g[i].next = f[i].next => Paces(f, g, i)
<1> DEFINE r == f[j]
           on == [r EXCEPT !.enabled = TRUE]
           off == [r EXCEPT !.enabled = FALSE, !.next = None, !.running = None]
           p == Patched(r, patch)
           g == [f EXCEPT ![j] = p]
<1>1. r \in Job /\ (r.enabled <=> r.next # None) /\ now \in Nat
  BY StoreJob, MomentTime DEF Timed
<1> HIDE DEF r
<1>2. /\ on \in Job /\ on.enabled = TRUE /\ SameRun(on, r)
      /\ off.enabled = FALSE /\ off.next = None /\ SameRun(off, r) /\ r.enabled \in BOOLEAN
  BY <1>1 DEF Job, SameRun
<1>3. NextRun(on, now) \in Time /\ NextRun(on, now) # None
  <2> HIDE DEF on
  <2> QED
    BY <1>1, <1>2, NextRunTime, NextRunSome
<1> DEFINE x == NextRun(on, now)
           later == [on EXCEPT !.next = x]
<1>4. later.enabled = TRUE /\ later.next = x /\ SameRun(later, r)
  <2> HIDE DEF on, x
  <2> QED
    BY <1>2 DEF Job, SameRun
<1>5. p = IF patch = "disable" THEN off
          ELSE IF patch = "enable" THEN later
          ELSE IF r.enabled /\ r.next = None THEN [r EXCEPT !.next = NextRun(r, now)] ELSE r
  BY DEF Patched
<1> HIDE DEF p, off, later, x
<1>6. p = off \/ p = later \/ p = r
  BY <1>1, <1>5
<1>7. SameRun(p, r) /\ (p.enabled <=> p.next # None) /\ p.enabled \in BOOLEAN
  BY <1>1, <1>2, <1>3, <1>4, <1>6 DEF SameRun, x
<1>8. p.next = r.next => SameJob(p, r)
  BY <1>1, <1>2, <1>7 DEF SameJob
<1> HIDE DEF g
<1>9. DOMAIN g = DOMAIN f /\ g[j] = p /\ \A i \in DOMAIN f : i # j => g[i] = f[i]
  BY DEF g
<1>10. Timed(g) /\ \A i \in DOMAIN f : SameRun(g[i], f[i])
  BY <1>7, <1>9 DEF Timed, r, SameRun
<1>11. \A i \in DOMAIN f : g[i].next = f[i].next => Paces(f, g, i)
  BY <1>8, <1>9, SameBacked DEF Paces, r
<1>12. [f EXCEPT ![j] = Patched(@, patch)] = g
  BY DEF g, p, r
<1> QED
  BY <1>9, <1>10, <1>11, <1>12

LEMMA FinishedPaced ==
  ASSUME NEW f \in Stores, Timed(f), NEW j, NEW r \in Job, HasTime(r), Backed(r, now), NEW removed \in BOOLEAN,
         now \in Moment
  PROVE  LET g == MaintenanceRecompute(Merged(f, j, r, removed), now, TRUE)
         IN  /\ Timed(g)
             /\ \A i \in DOMAIN g : Paces(f, g, i)
             /\ \A i \in DOMAIN g : i # j => SameRun(g[i], f[i])
<1> DEFINE h == Merged(f, j, r, removed)
           g == MaintenanceRecompute(h, now, TRUE)
<1>0. now \in Nat
  BY MomentTime
<1>1. h \in Stores /\ DOMAIN h \subseteq DOMAIN f /\ \A i \in DOMAIN h : i # j => h[i] = f[i]
  BY MergedTyped
<1>2. j \in DOMAIN h => h[j] = r
  <2>1. CASE removed
    <3>1. DOMAIN h = DOMAIN f \ {j}
      BY <2>1, RestrictTyped DEF Merged
    <3> QED
      BY <3>1
  <2>2. CASE ~removed
    BY <2>2 DEF Merged
  <2> QED
    BY <2>1, <2>2
<1> HIDE DEF h
<1>3. \A i \in DOMAIN h : HasTime(h[i])
  BY <1>1, <1>2 DEF Timed, HasTime
<1>4. DOMAIN g = DOMAIN h
  BY <1>0, <1>1, MaintenanceTyped
<1>5. Timed(g) /\ \A i \in DOMAIN h : SameRun(g[i], h[i]) /\ (Backed(h[i], now) => Backed(g[i], now))
  BY <1>1, <1>3, MaintenancePaced
<1> HIDE DEF g
<1>6. \A i \in DOMAIN g : Paces(f, g, i)
  BY <1>1, <1>2, <1>4, <1>5 DEF Paces
<1>7. \A i \in DOMAIN g : i # j => SameRun(g[i], f[i])
  BY <1>1, <1>4, <1>5
<1> QED
  BY <1>5, <1>6, <1>7 DEF g, h

LEMMA RemovedSame ==
  ASSUME NEW f \in Stores, NEW j
  PROVE  LET g == Restrict(f, DOMAIN f \ {j}) IN DOMAIN g \subseteq DOMAIN f /\ \A i \in DOMAIN g : SameJob(g[i], f[i])
  BY RestrictTyped DEF SameJob, SameRun
-----------------------------------------------------------------------------
(* The inductive invariant of the backoff. *)

\* What is in memory is on disk, but for the markers and the jobs added last.
Copied == \A j \in DOMAIN mem[1] : j \in DOMAIN disk /\ SameJob(mem[1][j], disk[j])
\* A job that failed, and that nobody has given another time, is not due during its backoff,
Paced == \A j \in DOMAIN disk \ moved : Backed(disk[j], now)
\* nor does it wait for a worker then.
QueuePaced ==
  \A j \in DOMAIN disk \ (moved \cup loose) :
    disk[j].status = "error" /\ (Waits(tick[1], j) \/ Waits(boot[1], j)) => Rested(disk[j], now)
\* A catch-up does not run the jobs that it puts off.
LateApart == \A j \in Range(boot[1].late) : ~Holds(boot[1], j)
\* A run does not end before it began.
Ordered(b, t) == (\A r \in b.cur : r.at <= t) /\ (\A res \in b.results : res.at <= res.ended)
ManualOrdered ==
  /\ manual.stage \in {"checked", "run"} => manual.at <= now
  /\ manual.stage = "finish" => manual.at <= manual.ended

StoresPaced == Timed(disk) /\ Timed(mem[1]) /\ Copied /\ Paced
RunsOrdered == Ordered(tick[1], now) /\ Ordered(boot[1], now) /\ ManualOrdered
Pacing == StoresPaced /\ QueuePaced /\ LateApart /\ RunsOrdered
BackoffInv == moved \subseteq Jobs /\ (moved # Jobs => current = 1 /\ Pacing)

\* A step of a process with one service.
Single == Basics /\ Markers /\ current = 1 /\ Pacing
Going == Single /\ Basics' /\ current' = 1 /\ Tracked

LEMMA MovedGrows == ASSUME Going PROVE moved \subseteq moved'
  BY DEF Going, Tracked

\* The jobs that a step which costs an operation has given another time are in moved'.
LEMMA NotMoved ==
  ASSUME Going, NEW j \in DOMAIN disk \cap DOMAIN disk', j \notin moved', ops' # ops \/ PutsOff(j)
  PROVE  disk'[j].next = disk[j].next
  BY DEF Going, Tracked

LEMMA QuietPaced == ASSUME Going, disk' = disk, mem'[1] = mem[1], now' = now PROVE StoresPaced'
<1>1. StoresPaced /\ moved \subseteq moved'
  BY MovedGrows DEF Going, Single, Pacing
<1> QED
  BY <1>1 DEF StoresPaced, Copied, Paced

\* A step that writes the store of the service.
LEMMA PersistPaced ==
  ASSUME Going, NEW s \in Service, s = 1, NEW g, Persist(s, g), now' = now, Timed(g),
         \A j \in DOMAIN g \ moved' : Paces(disk, g, j) \/ Paces(mem[1], g, j) \/ Backed(g[j], now)
  PROVE  StoresPaced'
<1>1. Types /\ Copied /\ Paced /\ moved \subseteq moved'
  BY MovedGrows DEF Going, Single, Pacing, StoresPaced, Basics
<1>2. disk' = g /\ mem'[1] = g
  BY <1>1, ServiceFacts DEF Persist, Types
<1>3. ASSUME NEW j \in DOMAIN g \ moved' PROVE Backed(g[j], now)
  <2>1. j \in DOMAIN disk => Backed(disk[j], now)
    BY <1>1, <1>3 DEF Paced
  <2>2. j \in DOMAIN mem[1] => Backed(mem[1][j], now)
    BY <1>1, <2>1, SameBacked DEF Copied
  <2> QED
    BY <1>3, <2>1, <2>2 DEF Paces
<1>4. Paced'
  BY <1>2, <1>3 DEF Paced
<1>5. Copied'
  BY <1>2 DEF Copied, SameJob, SameRun
<1> QED
  BY <1>2, <1>4, <1>5 DEF StoresPaced

\* A step that changes markers in the memory only.
LEMMA MemoryPaced ==
  ASSUME Going, disk' = disk, now' = now, NEW g, mem'[1] = g, DOMAIN g \subseteq DOMAIN mem[1],
         \A j \in DOMAIN g : SameJob(g[j], mem[1][j])
  PROVE  StoresPaced'
<1>1. Timed(disk) /\ Timed(mem[1]) /\ Copied /\ Paced /\ moved \subseteq moved'
  BY MovedGrows DEF Going, Single, Pacing, StoresPaced
<1>2. Timed(g)
  BY <1>1 DEF Timed, SameJob
<1>3. Copied'
  BY <1>1 DEF Copied, SameJob, SameRun
<1> QED
  BY <1>1, <1>2, <1>3 DEF StoresPaced, Paced

\* Only a running batch has jobs that wait, and those are taken.
LEMMA WaitsHolds ==
  ASSUME NEW b, NEW w, BatchOK(b, w), NEW j, Waits(b, j) PROVE b.stage = "run" /\ Holds(b, j)
  BY DEF BatchOK, Waits, Holds

WaitingTaken == current = 1 => \A j : Waits(tick[1], j) \/ Waits(boot[1], j) => Taken(j)

LEMMA TakenSafe == Basics => WaitingTaken
<1> SUFFICES ASSUME Basics, current = 1, NEW j, Waits(tick[1], j) \/ Waits(boot[1], j) PROVE Taken(j)
  BY DEF WaitingTaken
<1>1. BatchOK(tick[1], MaxConcurrentRuns) /\ BatchOK(boot[1], 1)
  BY ServiceFacts DEF Basics, BatchesOK
<1>2. Holds(tick[1], j) \/ Holds(boot[1], j)
  BY <1>1, WaitsHolds
<1> QED
  BY <1>2, TakenAlone DEF TakenByFirst

LEMMA WaitingNotLoose ==
  ASSUME Going, NEW j \in Jobs \ loose', Waits(tick'[1], j) \/ Waits(boot'[1], j) PROVE j \notin loose
<1>1. Basics' => WaitingTaken'
  BY TakenSafe, PTL
<1>2. Taken(j)'
  BY <1>1 DEF Going, WaitingTaken
<1> QED
  BY <1>2 DEF Going, Tracked
-----------------------------------------------------------------------------
(* The steps that make no job wait. *)

TickGoesOn == (\A j : Waits(tick'[1], j) => Waits(tick[1], j)) /\ Ordered(tick'[1], now')
BootGoesOn ==
  /\ (\A j : Waits(boot'[1], j) => Waits(boot[1], j)) /\ Ordered(boot'[1], now')
  /\ \/ boot'[1].late = boot[1].late /\ \A j : Holds(boot'[1], j) => Holds(boot[1], j)
     \/ \A j : ~Holds(boot'[1], j)
RunsKept ==
  \A j \in DOMAIN disk' :
    j \notin loose /\ (Waits(tick[1], j) \/ Waits(boot[1], j)) => j \in DOMAIN disk /\ SameRun(disk'[j], disk[j])

LEMMA RestStays ==
  ASSUME Types, Types', now' >= now, NEW j \in DOMAIN disk \cap DOMAIN disk', SameRun(disk'[j], disk[j]),
         Rested(disk[j], now)
  PROVE  Rested(disk'[j], now')
<1>1. disk[j] \in Job /\ now \in Moment /\ now' \in Moment
  BY StoreJob DEF Types, Moment
<1>2. Rested(disk[j], now')
  BY <1>1, RestedLater
<1> QED
  BY <1>2 DEF Rested, SameRun

\* A job that waited before the step.
LEMMA WaitKept ==
  ASSUME Going, now' >= now, NEW j \in DOMAIN disk' \ (moved' \cup loose'), disk'[j].status = "error",
         Waits(tick'[1], j) \/ Waits(boot'[1], j), Waits(tick[1], j) \/ Waits(boot[1], j), RunsKept
  PROVE  Rested(disk'[j], now')
<1>1. Types /\ Types' /\ QueuePaced
  BY DEF Going, Single, Pacing, Basics
<1>2. j \in Jobs
  BY <1>1, StoreDomain DEF Types, Stores
<1>3. j \notin loose /\ j \notin moved
  BY <1>2, WaitingNotLoose, MovedGrows
<1>4. j \in DOMAIN disk /\ SameRun(disk'[j], disk[j])
  BY <1>3 DEF RunsKept
<1>5. Rested(disk[j], now)
  BY <1>1, <1>3, <1>4 DEF QueuePaced, SameRun
<1> QED
  BY <1>1, <1>4, <1>5, RestStays

LEMMA CalmPacing ==
  ASSUME Going, now' >= now, StoresPaced', ManualOrdered', TickGoesOn, BootGoesOn, RunsKept
  PROVE  Pacing'
<1>1. QueuePaced'
  BY WaitKept DEF TickGoesOn, BootGoesOn, QueuePaced
<1>2. LateApart'
  BY DEF Going, Single, Pacing, LateApart, BootGoesOn
<1>3. RunsOrdered'
  BY DEF TickGoesOn, BootGoesOn, RunsOrdered
<1> QED
  BY <1>1, <1>2, <1>3 DEF Pacing

\* The variables that a step leaves alone, or only makes smaller.
LEMMA OrderedLater ==
  ASSUME NEW stages, NEW b \in BatchSet(stages), NEW t \in Moment, NEW u \in Moment, u >= t, Ordered(b, t),
         NEW c, c.cur \subseteq b.cur, c.results \subseteq b.results
  PROVE  Ordered(c, u)
<1>1. ASSUME NEW r \in c.cur PROVE r.at <= u
  <2>1. r.at \in Moment /\ r.at <= t
    BY <1>1 DEF BatchSet, RunSet, Ordered
  <2> QED
    BY <2>1, MomentTime
<1> QED
  BY <1>1 DEF Ordered

LEMMA TickSmaller ==
  ASSUME Going, now' >= now, tick'[1].queue \in {tick[1].queue, <<>>}, tick'[1].cur \subseteq tick[1].cur,
         tick'[1].results \subseteq tick[1].results
  PROVE  TickGoesOn
<1>1. tick[1] \in BatchSet(TickStages) /\ now \in Moment /\ now' \in Moment /\ Ordered(tick[1], now)
  BY ServiceFacts DEF Going, Single, Pacing, RunsOrdered, Basics, Types, Moment
<1>2. Ordered(tick'[1], now')
  BY <1>1, OrderedLater
<1>3. \A j : Waits(tick'[1], j) => Waits(tick[1], j)
  BY DEF Waits
<1> QED
  BY <1>2, <1>3 DEF TickGoesOn

LEMMA BootSmaller ==
  ASSUME Going, now' >= now, boot'[1].queue \in {boot[1].queue, <<>>}, boot'[1].cur \subseteq boot[1].cur,
         boot'[1].results \subseteq boot[1].results, boot'[1] = boot[1] \/ boot'[1].stage \notin {"run", "apply"}
  PROVE  BootGoesOn
<1>1. boot[1] \in BatchSet(BootStages) /\ now \in Moment /\ now' \in Moment /\ Ordered(boot[1], now)
  BY ServiceFacts DEF Going, Single, Pacing, RunsOrdered, Basics, Types, Moment
<1>2. Ordered(boot'[1], now')
  BY <1>1, OrderedLater
<1>3. \A j : Waits(boot'[1], j) => Waits(boot[1], j)
  BY DEF Waits
<1>4. \/ boot'[1].late = boot[1].late /\ \A j : Holds(boot'[1], j) => Holds(boot[1], j)
      \/ \A j : ~Holds(boot'[1], j)
  BY DEF Holds
<1> QED
  BY <1>2, <1>3, <1>4 DEF BootGoesOn

LEMMA TickSame == ASSUME Going, now' >= now, tick'[1] = tick[1] PROVE TickGoesOn
  BY TickSmaller

LEMMA BootSame == ASSUME Going, now' >= now, boot'[1] = boot[1] PROVE BootGoesOn
  BY BootSmaller

LEMMA TickReset ==
  ASSUME Going, now' >= now, tick'[1].queue = <<>>, tick'[1].cur = {}, tick'[1].results = {} PROVE TickGoesOn
  BY TickSmaller

LEMMA BootReset ==
  ASSUME Going, now' >= now, boot'[1].queue = <<>>, boot'[1].cur = {}, boot'[1].results = {},
         boot'[1].stage \notin {"run", "apply"}
  PROVE  BootGoesOn
  BY BootSmaller

LEMMA TickRereads == ASSUME Going, now' >= now, NEW s \in Service, s = 1, Reread(s) PROVE TickGoesOn
<1> DEFINE c == [tick[1] EXCEPT !.own = FALSE]
<1>1. tick \in [Service -> BatchSet(TickStages)] /\ tick[1] \in BatchSet(TickStages)
  BY ServiceFacts DEF Going, Single, Basics, Types
<1>2. tick'[1] = c
  BY <1>1 DEF Reread
<1>3. c.queue = tick[1].queue /\ c.cur = tick[1].cur /\ c.results = tick[1].results
  BY <1>1 DEF BatchSet
<1> QED
  BY <1>2, <1>3, TickSmaller

LEMMA ManualSame == ASSUME Going, manual' = manual, now' >= now PROVE ManualOrdered'
<1>1. ManualOrdered /\ Types /\ now \in Moment /\ now' \in Moment
  BY DEF Going, Single, Pacing, RunsOrdered, Basics, Types, Moment
<1>2. manual.stage \in {"checked", "run"} => manual.at \in Moment
  BY <1>1 DEF Types, ManualOK
<1>3. manual.stage \in {"checked", "run"} => manual.at <= now'
  BY <1>1, <1>2, MomentTime DEF ManualOrdered
<1> QED
  BY <1>1, <1>3 DEF ManualOrdered

LEMMA DiskSame == ASSUME Going, disk' = disk PROVE RunsKept
  BY DEF RunsKept, SameRun

LEMMA NowSame == ASSUME Going, now' = now PROVE now' >= now /\ now \in Moment
<1>1. now \in Moment
  BY DEF Going, Single, Basics, Types
<1> QED
  BY <1>1, MomentTime

LEMMA EndRunPaced ==
  ASSUME NEW stages, NEW b \in BatchSet(stages), now \in Moment, Ordered(b, now), NEW r \in b.cur, NEW status
  PROVE  LET c == EndRun(b, r, status)
         IN  /\ \A j : Waits(c, j) => Waits(b, j)
             /\ Ordered(c, now) /\ c.late = b.late
             /\ \A x \in c.cur : x \in b.cur \/ Waits(b, x.job)
<1> DEFINE first == IF b.queue = <<>> THEN {} ELSE {[job |-> Head(b.queue), at |-> now]}
           rest == (b.cur \ {r}) \cup first
           queue == IF b.queue = <<>> THEN <<>> ELSE Tail(b.queue)
           res == [job |-> r.job, at |-> r.at, status |-> status, ended |-> now]
           results == b.results \cup {res}
           stage == IF rest = {} THEN "apply" ELSE b.stage
           c == EndRun(b, r, status)
<1>1. c = [b EXCEPT !.cur = rest, !.queue = queue, !.results = results, !.stage = stage]
  BY DEF EndRun
<1>2. b.queue \in Seq(Jobs) /\ now <= now /\ r.at <= now
  BY MomentTime DEF BatchSet, Ordered
<1>3. ASSUME b.queue # <<>>
      PROVE  /\ Waits(b, Head(b.queue))
             /\ \A i \in DOMAIN Tail(b.queue) : i + 1 \in DOMAIN b.queue /\ Tail(b.queue)[i] = b.queue[i + 1]
  <2>1. Len(b.queue) \in Nat \ {0} /\ DOMAIN b.queue = 1..Len(b.queue)
    BY <1>2, <1>3, EmptySeq, LenProperties
  <2>2. 1 \in DOMAIN b.queue /\ b.queue[1] = Head(b.queue)
    BY <1>2, <1>3, <2>1, HeadTailProperties
  <2>3. /\ Tail(b.queue) \in Seq(Jobs) /\ Len(Tail(b.queue)) = Len(b.queue) - 1
        /\ \A i \in 1..Len(Tail(b.queue)) : Tail(b.queue)[i] = b.queue[i + 1]
    BY <1>2, <1>3, HeadTailProperties
  <2>4. DOMAIN Tail(b.queue) = 1..Len(Tail(b.queue))
    BY <2>3, LenProperties
  <2>5. \A i \in 1..(Len(b.queue) - 1) : i + 1 \in 1..Len(b.queue)
    BY <2>1
  <2> QED
    BY <2>1, <2>2, <2>3, <2>4, <2>5 DEF Waits
<1>4. \A i \in DOMAIN queue : \E k \in DOMAIN b.queue : b.queue[k] = queue[i]
  BY <1>3
<1>5. \A x \in rest : (x \in b.cur \/ Waits(b, x.job)) /\ (x \in b.cur \/ x.at = now)
  BY <1>3
<1>6. \A x \in results : x \in b.results \/ (x.at = r.at /\ x.ended = now)
  OBVIOUS
<1> HIDE DEF c, rest, queue, results, stage
<1>7. c.cur = rest /\ c.queue = queue /\ c.results = results /\ c.late = b.late
  BY <1>1 DEF BatchSet
<1>8. Ordered(c, now)
  BY <1>2, <1>5, <1>6, <1>7 DEF Ordered
<1>9. \A j : Waits(c, j) => Waits(b, j)
  BY <1>4, <1>7 DEF Waits
<1> QED
  BY <1>5, <1>7, <1>8, <1>9 DEF c
-----------------------------------------------------------------------------
(* What the steps that write a store do to the backoff. *)

LEMMA FromDiskPaced ==
  ASSUME Going, NEW s \in Service, s = 1, NEW g, Persist(s, g), now' = now, Timed(g),
         \A j \in DOMAIN g : Paces(disk, g, j) /\ SameRun(g[j], disk[j])
  PROVE  StoresPaced' /\ RunsKept
<1>1. StoresPaced'
  BY PersistPaced
<1>2. RunsKept
  BY DEF Persist, RunsKept, Paces
<1> QED
  BY <1>1, <1>2

LEMMA FromMemoryPaced ==
  ASSUME Going, NEW s \in Service, s = 1, NEW g, Persist(s, g), now' = now, Timed(g),
         \A j \in DOMAIN g \ moved' : Paces(mem[1], g, j),
         \A j \in DOMAIN g : j \in DOMAIN mem[1] /\ SameRun(g[j], mem[1][j])
  PROVE  StoresPaced' /\ RunsKept
<1>1. StoresPaced'
  BY PersistPaced
<1>2. Copied
  BY DEF Going, Single, Pacing, StoresPaced
<1>3. RunsKept
  BY <1>2 DEF Persist, RunsKept, Copied, SameJob, SameRun
<1> QED
  BY <1>1, <1>3

\* What a tick or a catch-up takes has rested.
LEMMA DueRested ==
  ASSUME NEW r \in Job, NEW t \in Moment, r.status = "error", Backed(r, t), Due(r, t) PROVE Rested(r, t)
  BY MomentTime DEF Backed, Due

LEMMA MissedRested ==
  ASSUME NEW r \in Job, NEW t \in Moment, r.status = "error", Backed(r, t), Missed(r, t) PROVE Rested(r, t)
<1>1. r.next \in Nat /\ t \in Nat /\ r.last + ErrorBackoff(r.errors) \in Nat
  BY BackoffNat, TimeNat, MomentTime DEF Job
<1>2. CASE t >= r.next
  BY <1>1, <1>2 DEF Missed, Backed
<1>3. CASE ~(t >= r.next)
  <2>1. r.next > t
    BY <1>1, <1>3
  <2>2. r.kind = "cron" /\ r.last # None /\ ~BackoffPending(r, t)
    BY <1>3, <2>1 DEF Missed, Due
  <2>3. ~(t < r.last + ErrorBackoff(r.errors))
    BY <2>2 DEF BackoffPending
  <2> QED
    BY <1>1, <2>3 DEF Rested
<1> QED
  BY <1>2, <1>3

LEMMA BeginNow ==
  ASSUME NEW stages, NEW b \in BatchSet(stages), NEW q, NEW w
  PROVE  \A r \in Begin(b, q, w).cur : r.at = now
<1> DEFINE n == IF Len(q) < w THEN Len(q) ELSE w
           cur == {[job |-> q[i], at |-> now] : i \in 1..n}
           queue == SubSeq(q, n + 1, Len(q))
<1>1. Begin(b, q, w) = [b EXCEPT !.cur = cur, !.queue = queue]
  BY DEF Begin
<1>2. \A r \in cur : r.at = now
  OBVIOUS
<1> HIDE DEF cur, queue
<1>3. Begin(b, q, w).cur = cur
  BY <1>1 DEF BatchSet
<1> QED
  BY <1>2, <1>3

LEMMA CollectTakes ==
  ASSUME Basics, NEW s \in Service, TickCollect(s)
  PROVE  /\ \A j : Waits(tick'[s], j) \/ RunsNow(tick'[s], j) => j \in DOMAIN disk /\ Runnable(disk[j], now)
         /\ \A r \in tick'[s].cur : r.at = now
         /\ tick'[s].results = {}
<1> DEFINE J == {j \in DOMAIN disk : Runnable(disk[j], now)}
<1>1. PICK due \in CollectRunnable(disk) :
        tick' = IF due = <<>> THEN [tick EXCEPT ![s].stage = "end"]
                ELSE [tick EXCEPT ![s] = Begin([@ EXCEPT !.stage = "run", !.own = TRUE], due, MaxConcurrentRuns)]
  BY DEF TickCollect
<1>2. tick[s].stage = "collect"
  BY DEF TickCollect
<1>3. /\ disk \in Stores /\ tick \in [Service -> BatchSet(TickStages)] /\ now \in Moment
      /\ tick[s] \in BatchSet(TickStages) /\ BatchOK(tick[s], MaxConcurrentRuns)
  BY DEF Basics, Types, BatchesOK
<1>4. tick[s].cur = {} /\ tick[s].queue = <<>> /\ tick[s].results = {}
  BY <1>2, <1>3 DEF BatchOK
<1>5. CASE due = <<>>
  <2> DEFINE c == [tick[s] EXCEPT !.stage = "end"]
  <2>1. tick'[s] = c
    BY <1>1, <1>3, <1>5
  <2>2. c.cur = {} /\ c.queue = <<>> /\ c.results = {}
    BY <1>3, <1>4 DEF BatchSet
  <2> QED
    BY <2>1, <2>2 DEF Waits, RunsNow
<1>6. CASE due # <<>>
  <2> DEFINE b == [tick[s] EXCEPT !.stage = "run", !.own = TRUE]
             c == Begin(b, due, MaxConcurrentRuns)
  <2>1. due \in Seq(Jobs) /\ NoRepeats(due) /\ \A i \in DOMAIN due : due[i] \in J
    <3>1. due \in SetToSeqs(J)
      BY DEF CollectRunnable, InOrder
    <3>2. J \subseteq Jobs
      BY <1>3, StoreDomain
    <3> HIDE DEF J
    <3> QED
      BY <3>1, <3>2, SeqsOf
  <2>2. b \in BatchSet(TickStages) /\ b.stage = "run" /\ b.results = {}
    BY <1>3, <1>4 DEF BatchSet, TickStages
  <2>3. tick'[s] = c
    BY <1>1, <1>3, <1>6
  <2> HIDE DEF b
  <2>4. c.results = {} /\ \A j : Waits(c, j) \/ RunsNow(c, j) => \E i \in DOMAIN due : due[i] = j
    <3> HIDE DEF J
    <3>1. due \in Seq(Jobs) /\ NoRepeats(due) /\ now \in Moment /\ MaxConcurrentRuns \in Nat
      BY <1>3, <2>1, ServiceFacts
    <3>2. /\ c.results = b.results
          /\ \A j : Waits(c, j) \/ RunsNow(c, j) => \E i \in DOMAIN due : due[i] = j
      BY <2>2, <3>1, BeginTyped
    <3> QED
      BY <2>2, <3>2
  <2>5. \A r \in c.cur : r.at = now
    BY <2>2, BeginNow
  <2> HIDE DEF c
  <2>6. \A j : Waits(c, j) \/ RunsNow(c, j) => j \in J
    BY <2>1, <2>4
  <2> QED
    BY <2>3, <2>4, <2>5, <2>6
<1> QED
  BY <1>5, <1>6

-----------------------------------------------------------------------------
(* The ticks. *)

LEMMA TimerFiresPaced ==
  ASSUME Going, NEW s \in Service, TimerFires(s) PROVE Pacing'
<1>0. Basics /\ current = 1 /\ tick \in [Service -> BatchSet(TickStages)]
  BY DEF Going, Single, Basics, Types
<1>1. /\ s \in timer /\ tick' = [tick EXCEPT ![s] = NoBatch("collect")]
      /\ UNCHANGED <<now, disk, mem, boot, manual>>
  BY DEF TimerFires
<1>2. s = 1
  BY <1>0, <1>1, TickActive
<1>3. tick'[1].queue = <<>> /\ tick'[1].cur = {} /\ tick'[1].results = {}
  BY <1>0, <1>1, <1>2 DEF NoBatch
<1>4. now' >= now
  BY <1>1, NowSame
<1>5. TickGoesOn /\ BootGoesOn /\ RunsKept /\ StoresPaced' /\ ManualOrdered'
  BY <1>1, <1>3, <1>4, TickReset, BootSame, DiskSame, QuietPaced, ManualSame
<1> QED
  BY <1>4, <1>5, CalmPacing

LEMMA TickEndPaced ==
  ASSUME Going, NEW s \in Service, TickEnd(s) PROVE Pacing'
<1>0. Basics /\ current = 1 /\ tick \in [Service -> BatchSet(TickStages)]
  BY DEF Going, Single, Basics, Types
<1>1. /\ tick[s].stage = "end" /\ tick' = [tick EXCEPT ![s] = NoBatch("idle")]
      /\ UNCHANGED <<now, disk, mem, boot, manual>>
  BY DEF TickEnd
<1>2. s = 1
  BY <1>0, <1>1, TickActive
<1>3. tick'[1].queue = <<>> /\ tick'[1].cur = {} /\ tick'[1].results = {}
  BY <1>0, <1>1, <1>2 DEF NoBatch
<1>4. now' >= now
  BY <1>1, NowSame
<1>5. TickGoesOn /\ BootGoesOn /\ RunsKept /\ StoresPaced' /\ ManualOrdered'
  BY <1>1, <1>3, <1>4, TickReset, BootSame, DiskSame, QuietPaced, ManualSame
<1> QED
  BY <1>4, <1>5, CalmPacing

LEMMA TickCollectPaced ==
  ASSUME Going, NEW s \in Service, TickCollect(s) PROVE Pacing'
<1>0. /\ Basics /\ Basics' /\ current = 1 /\ Types /\ Types' /\ disk \in Stores /\ now \in Moment
      /\ Timed(disk) /\ Paced
  BY DEF Going, Single, Pacing, StoresPaced, Basics, Types
<1>1. tick[s].stage = "collect" /\ UNCHANGED <<now, boot, manual>>
  BY DEF TickCollect
<1>2. s = 1
  BY <1>0, <1>1, TickActive
<1>3. PICK due \in CollectRunnable(disk) :
        Persist(s, IF due = <<>> THEN MaintenanceRecompute(disk, now, TRUE) ELSE MarkAll(disk, Range(due)))
  BY DEF TickCollect
<1>4. StoresPaced' /\ RunsKept /\ DOMAIN disk' = DOMAIN disk /\ \A j \in DOMAIN disk : SameRun(disk'[j], disk[j])
  <2>1. CASE due = <<>>
    <3> DEFINE g == MaintenanceRecompute(disk, now, TRUE)
    <3>1. \A j \in DOMAIN disk : HasTime(disk[j])
      BY <1>0 DEF Timed, HasTime
    <3>2. Timed(g) /\ \A j \in DOMAIN disk : SameRun(g[j], disk[j]) /\ (Backed(disk[j], now) => Backed(g[j], now))
      BY <1>0, <3>1, MaintenancePaced
    <3>3. DOMAIN g = DOMAIN disk
      BY <1>0, MomentTime, MaintenanceTyped
    <3>4. Persist(s, g)
      BY <1>3, <2>1
    <3> HIDE DEF g
    <3>5. \A j \in DOMAIN g : Paces(disk, g, j) /\ SameRun(g[j], disk[j])
      BY <3>2, <3>3 DEF Paces
    <3> QED
      BY <1>1, <1>2, <3>2, <3>3, <3>4, <3>5, FromDiskPaced DEF Persist
  <2>2. CASE due # <<>>
    <3> DEFINE g == MarkAll(disk, Range(due))
    <3>1. DOMAIN g = DOMAIN disk /\ \A j \in DOMAIN g : SameJob(g[j], disk[j])
      BY <1>0, MarkAllSame, MarkAllTyped
    <3>2. Persist(s, g)
      BY <1>3, <2>2
    <3> HIDE DEF g
    <3>3. Timed(g) /\ \A j \in DOMAIN g : Paces(disk, g, j) /\ SameRun(g[j], disk[j])
      BY <1>0, <3>1, SameStore
    <3> QED
      BY <1>1, <1>2, <3>1, <3>2, <3>3, FromDiskPaced DEF Persist
  <2> QED
    BY <2>1, <2>2
<1>5. now' >= now
  BY <1>1, NowSame
<1>6. /\ \A j : Waits(tick'[1], j) => j \in DOMAIN disk /\ Runnable(disk[j], now)
      /\ \A r \in tick'[1].cur : r.at = now
      /\ tick'[1].results = {}
  BY <1>0, <1>2, CollectTakes
<1>7. Ordered(tick'[1], now')
  BY <1>1, <1>5, <1>6 DEF Ordered
<1>8. BootGoesOn /\ ManualOrdered'
  BY <1>1, <1>5, BootSame, ManualSame
<1>9. QueuePaced'
  <2> SUFFICES ASSUME NEW j \in DOMAIN disk' \ (moved' \cup loose'), disk'[j].status = "error",
                      Waits(tick'[1], j) \/ Waits(boot'[1], j)
               PROVE  Rested(disk'[j], now')
    BY DEF QueuePaced
  <2>1. CASE Waits(boot'[1], j)
    BY <1>1, <1>4, <1>5, <2>1, WaitKept
  <2>2. CASE Waits(tick'[1], j)
    <3>1. j \in DOMAIN disk /\ Due(disk[j], now) /\ disk[j] \in Job /\ disk[j].status = "error"
      BY <1>0, <1>4, <1>6, <2>2, StoreJob DEF Runnable, SameRun
    <3>2. Backed(disk[j], now)
      BY <1>0, <3>1, MovedGrows DEF Paced
    <3>3. Rested(disk[j], now)
      BY <1>0, <3>1, <3>2, DueRested
    <3> QED
      BY <1>0, <1>4, <1>5, <3>1, <3>3, RestStays
  <2> QED
    BY <2>1, <2>2
<1>10. LateApart' /\ RunsOrdered'
  BY <1>1, <1>7, <1>8 DEF Going, Single, Pacing, LateApart, RunsOrdered, BootGoesOn
<1> QED
  BY <1>4, <1>9, <1>10 DEF Pacing

LEMMA TickRunEndPaced ==
  ASSUME Going, NEW s \in Service, NEW r \in tick[s].cur, NEW status, TickRunEnd(s, r, status) PROVE Pacing'
<1>0. /\ Basics /\ current = 1 /\ tick \in [Service -> BatchSet(TickStages)] /\ now \in Moment
      /\ mem \in [Service -> Stores] /\ mem[1] \in Stores
      /\ Ordered(tick[1], now)
  BY ServiceFacts DEF Going, Single, Pacing, RunsOrdered, Basics, Types
<1> DEFINE c == EndRun(tick[1], r, status)
<1>1. tick[s].stage = "run" /\ UNCHANGED <<now, disk, boot, manual>>
  BY DEF TickRunEnd
<1>2. s = 1
  BY <1>0, <1>1, TickActive
<1>3. tick'[1] = c
  BY <1>0, <1>2 DEF TickRunEnd
<1>4. (\A j : Waits(c, j) => Waits(tick[1], j)) /\ Ordered(c, now)
  BY <1>0, <1>2, ServiceFacts, EndRunPaced
<1>5. TickGoesOn
  BY <1>1, <1>3, <1>4 DEF TickGoesOn
<1>6. now' >= now
  BY <1>1, NowSame
<1>7. StoresPaced'
  <2>1. PICK J : mem' = IF tick[s].own THEN [mem EXCEPT ![s] = MarkAll(@, J)] ELSE mem
    BY DEF TickRunEnd
  <2>2. CASE ~tick[s].own
    BY <1>1, <2>1, <2>2, QuietPaced
  <2>3. CASE tick[s].own
    <3> DEFINE g == MarkAll(mem[1], J)
    <3>1. DOMAIN g = DOMAIN mem[1] /\ \A j \in DOMAIN g : SameJob(g[j], mem[1][j])
      BY <1>0, MarkAllSame, MarkAllTyped
    <3>2. mem'[1] = g
      BY <1>0, <1>2, <2>1, <2>3
    <3> HIDE DEF g
    <3> QED
      BY <1>1, <3>1, <3>2, MemoryPaced
  <2> QED
    BY <2>2, <2>3
<1>8. BootGoesOn /\ ManualOrdered' /\ RunsKept
  BY <1>1, <1>6, BootSame, ManualSame, DiskSame
<1> QED
  BY <1>5, <1>6, <1>7, <1>8, CalmPacing

\* A job that waits has no result that is applied.
LEMMA NoResults ==
  ASSUME Going, NEW j, j \notin loose, Waits(tick[1], j) \/ Waits(boot[1], j)
  PROVE  /\ tick[1].stage = "apply" => \A res \in tick[1].results : res.job # j
         /\ boot[1].stage = "apply" => \A res \in boot[1].results : res.job # j
         /\ ~ManualHolds(j)
<1>1. /\ BatchOK(tick[1], MaxConcurrentRuns) /\ BatchOK(boot[1], 1) /\ Basics /\ current = 1 /\ Markers
      /\ tick[1] \in BatchSet(TickStages) /\ boot[1] \in BatchSet(BootStages)
  BY ServiceFacts DEF Going, Single, Basics, BatchesOK, Types
<1>2. /\ Waits(tick[1], j) => tick[1].stage = "run" /\ Holds(tick[1], j)
      /\ Waits(boot[1], j) => boot[1].stage = "run" /\ Holds(boot[1], j)
  BY <1>1, WaitsHolds
<1>3. j \in Jobs
  BY <1>1, ElementOfSeq, LenProperties DEF Waits, BatchSet
<1>4. OneHolder(j)
  BY <1>1, <1>2, <1>3, TakenAlone DEF TakenByFirst, Markers
<1>5. tick[1].stage = "apply" => ~Holds(tick[1], j)
  BY <1>2, <1>4 DEF OneHolder
<1>6. boot[1].stage = "apply" => ~Holds(boot[1], j)
  BY <1>2, <1>4 DEF OneHolder
<1>7. ~ManualHolds(j)
  BY <1>2, <1>4 DEF OneHolder
<1> QED
  BY <1>5, <1>6, <1>7 DEF Holds, HasResult

LEMMA TickApplyPaced ==
  ASSUME Going, NEW s \in Service, TickApply(s) PROVE Pacing'
<1>0. /\ Basics /\ current = 1 /\ tick \in [Service -> BatchSet(TickStages)] /\ now \in Moment
      /\ disk \in Stores /\ Timed(disk) /\ Ordered(tick[1], now)
  BY ServiceFacts DEF Going, Single, Pacing, StoresPaced, RunsOrdered, Basics, Types
<1> DEFINE g == MaintenanceRecompute(ApplyAll(disk, tick[1].results), now, FALSE)
<1>1. /\ tick[s].stage = "apply" /\ tick' = [tick EXCEPT ![s] = NoBatch("end")]
      /\ UNCHANGED <<now, boot, manual>>
  BY DEF TickApply
<1>2. s = 1
  BY <1>0, <1>1, TickActive
<1>3. Persist(s, g)
  BY <1>2 DEF TickApply
<1>4. tick[1].results \in SUBSET ResultSet /\ \A res \in tick[1].results : res.at <= res.ended
  BY <1>0, ServiceFacts DEF BatchSet, Ordered
<1>5. /\ Timed(g) /\ \A j \in DOMAIN g : Paces(disk, g, j)
      /\ \A j \in DOMAIN g : (\A res \in tick[1].results : res.job # j) => SameRun(g[j], disk[j])
  BY <1>0, <1>4, AppliedPaced
<1> HIDE DEF g
<1>6. StoresPaced'
  BY <1>1, <1>2, <1>3, <1>5, PersistPaced
<1>7. RunsKept
  BY <1>1, <1>2, <1>3, <1>5, NoResults DEF RunsKept, Persist, Paces
<1>8. now' >= now
  BY <1>1, NowSame
<1>9. tick'[1].queue = <<>> /\ tick'[1].cur = {} /\ tick'[1].results = {}
  BY <1>0, <1>1, <1>2 DEF NoBatch
<1>10. TickGoesOn /\ BootGoesOn /\ ManualOrdered'
  BY <1>1, <1>8, <1>9, TickReset, BootSame, ManualSame
<1> QED
  BY <1>6, <1>7, <1>8, <1>10, CalmPacing
-----------------------------------------------------------------------------
(* The start. *)

LEMMA BootClearPaced ==
  ASSUME Going, NEW s \in Service, BootClear(s) PROVE Pacing'
<1>0. /\ Basics /\ current = 1 /\ boot \in [Service -> BatchSet(BootStages)] /\ disk \in Stores /\ Timed(disk)
  BY DEF Going, Single, Pacing, StoresPaced, Basics, Types
<1> DEFINE g == [j \in DOMAIN disk |-> Mark(disk[j], None)]
           marked == {j \in DOMAIN disk : disk[j].running # None}
           c == [NoBatch("plan") EXCEPT !.skip = marked]
<1>1. /\ boot[s].stage = "clear" /\ Persist(s, g) /\ boot' = [boot EXCEPT ![s] = c]
      /\ UNCHANGED <<now, tick, manual>>
  BY DEF BootClear
<1>2. s = 1
  BY <1>0, <1>1, BootActive
<1>3. DOMAIN g = DOMAIN disk /\ \A j \in DOMAIN g : SameJob(g[j], disk[j])
  BY <1>0, ClearedSame
<1>4. c.queue = <<>> /\ c.cur = {} /\ c.results = {} /\ c.stage = "plan"
  BY DEF NoBatch
<1> HIDE DEF g, c
<1>5. Timed(g) /\ \A j \in DOMAIN g : Paces(disk, g, j) /\ SameRun(g[j], disk[j])
  BY <1>0, <1>3, SameStore
<1>6. StoresPaced' /\ RunsKept
  BY <1>1, <1>2, <1>5, FromDiskPaced
<1>7. now' >= now
  BY <1>1, NowSame
<1>8. boot'[1] = c
  BY <1>0, <1>1, <1>2
<1>9. TickGoesOn /\ BootGoesOn /\ ManualOrdered'
  BY <1>1, <1>4, <1>7, <1>8, TickSame, BootReset, ManualSame
<1> QED
  BY <1>6, <1>7, <1>9, CalmPacing

LEMMA Suffix ==
  ASSUME NEW q \in Seq(Jobs), NEW n \in Nat, n <= Len(q)
  PROVE  \A i \in DOMAIN SubSeq(q, n + 1, Len(q)) :
           \E k \in DOMAIN q : k > n /\ SubSeq(q, n + 1, Len(q))[i] = q[k]
<1> DEFINE m == n + 1
           l == Len(q)
           p == SubSeq(q, m, l)
<1>1. l \in Nat /\ DOMAIN q = 1..l /\ \A i \in 1..l : q[i] \in Jobs
  BY LenProperties, ElementOfSeq
<1>2. m \in Int /\ l \in Int /\ \A i \in m..l : q[i] \in Jobs
  BY <1>1
<1> HIDE DEF m, l
<1>3. /\ p \in Seq(Jobs) /\ Len(p) = IF m <= l THEN l - m + 1 ELSE 0
      /\ \A i \in 1..(l - m + 1) : p[i] = q[m + i - 1]
  BY <1>2, SubSeqProperties
<1> HIDE DEF p
<1>4. DOMAIN p = 1..Len(p)
  BY <1>3, LenProperties
<1>5. ASSUME NEW i \in DOMAIN p PROVE \E k \in DOMAIN q : k > n /\ p[i] = q[k]
  <2>1. m <= l /\ i \in 1..(l - m + 1)
    BY <1>2, <1>3, <1>4
  <2>2. m + i - 1 \in 1..l /\ m + i - 1 > n
    BY <1>2, <2>1 DEF m
  <2>3. p[i] = q[m + i - 1]
    BY <1>3, <2>1
  <2> QED
    BY <1>1, <2>2, <2>3
<1> QED
  BY <1>5 DEF p, m, l

LEMMA PlanTakes ==
  ASSUME Basics, NEW s \in Service, BootPlan(s)
  PROVE  /\ \A j : Waits(boot'[s], j) \/ RunsNow(boot'[s], j) => j \in DOMAIN mem[s] /\ Missed(mem[s][j], now)
         /\ \A r \in boot'[s].cur : r.at = now
         /\ boot'[s].results = {}
         /\ boot'[s].stage = "final" \/ \A j \in Range(boot'[s].late) : ~Holds(boot'[s], j)
<1> DEFINE J == {j \in DOMAIN mem[s] \ boot[s].skip : Missed(mem[s][j], now)}
<1>1. PICK missed \in SetToSeqs(J) : PlanMissed(s, missed)
  BY DEF BootPlan, InOrder
<1>2. boot[s].stage = "plan"
  BY DEF BootPlan
<1>3. /\ mem \in [Service -> Stores] /\ boot \in [Service -> BatchSet(BootStages)]
      /\ now \in Moment /\ boot[s] \in BatchSet(BootStages) /\ BatchOK(boot[s], 1) /\ mem[s] \in Stores
  BY DEF Basics, Types, BatchesOK
<1>4. missed \in Seq(Jobs) /\ NoRepeats(missed) /\ \A i \in DOMAIN missed : missed[i] \in J
  <2>1. J \subseteq Jobs
    BY <1>3, StoreDomain
  <2> HIDE DEF J
  <2> QED
    BY <1>1, <2>1, SeqsOf
<1>5. boot[s].cur = {} /\ boot[s].queue = <<>> /\ boot[s].results = {}
  BY <1>2, <1>3 DEF BatchOK
<1> DEFINE n == IF Len(missed) < MaxMissedJobsPerRestart THEN Len(missed) ELSE MaxMissedJobsPerRestart
           chosen == SubSeq(missed, 1, n)
           late == SubSeq(missed, n + 1, Len(missed))
           b == [boot[s] EXCEPT !.late = late]
<1>6. boot' = IF missed = <<>> THEN [boot EXCEPT ![s].stage = "final"]
              ELSE [boot EXCEPT ![s] =
                      IF n = 0 THEN [b EXCEPT !.stage = "apply"] ELSE Begin([b EXCEPT !.stage = "run"], chosen, 1)]
  BY <1>1 DEF PlanMissed
<1>7. n \in Nat /\ n <= Len(missed)
  <2>1. Len(missed) \in Nat /\ MaxMissedJobsPerRestart \in Nat
    BY <1>4, LenProperties, CronInstance
  <2> QED
    BY <2>1
<1>8. CASE missed = <<>>
  <2> DEFINE c == [boot[s] EXCEPT !.stage = "final"]
  <2>1. boot'[s] = c
    BY <1>3, <1>6, <1>8
  <2>2. c.cur = {} /\ c.queue = <<>> /\ c.results = {} /\ c.stage = "final"
    BY <1>3, <1>5 DEF BatchSet
  <2> QED
    BY <2>1, <2>2 DEF Waits, RunsNow
<1>9. CASE missed # <<>>
  <2> DEFINE c == IF n = 0 THEN [b EXCEPT !.stage = "apply"] ELSE Begin([b EXCEPT !.stage = "run"], chosen, 1)
  <2>1. boot'[s] = c
    BY <1>3, <1>6, <1>9
  <2>2. /\ chosen \in Seq(Jobs) /\ NoRepeats(chosen)
        /\ \A i \in DOMAIN chosen : i \in DOMAIN missed /\ chosen[i] = missed[i]
        /\ late \in Seq(Jobs)
    <3> HIDE DEF n, J
    <3> QED
      BY <1>4, <1>7, Prefix
  <2>3. \A i \in DOMAIN chosen : i <= n /\ i \in Nat
    <3> HIDE DEF n, J
    <3>1. DOMAIN chosen = 1..Len(chosen) /\ Len(chosen) \in Nat
      BY <2>2, LenProperties
    <3>2. Len(chosen) <= n
      <4>1. 1 \in Int /\ n \in Int /\ \A i \in 1..n : missed[i] \in Jobs
        BY <1>4, <1>7, LenProperties, ElementOfSeq
      <4>2. Len(chosen) = IF 1 <= n THEN n - 1 + 1 ELSE 0
        BY <4>1, SubSeqProperties
      <4>3. CASE 1 <= n
        BY <1>7, <4>2, <4>3
      <4>4. CASE ~(1 <= n)
        BY <1>7, <4>2, <4>4
      <4> QED
        BY <4>3, <4>4
    <3> QED
      BY <1>7, <3>1, <3>2
  <2>4. \A i \in DOMAIN late : \E k \in DOMAIN missed : k > n /\ late[i] = missed[k]
    <3> HIDE DEF n, J
    <3> QED
      BY <1>4, <1>7, Suffix
  <2>5. \A i \in DOMAIN chosen, k \in DOMAIN late : chosen[i] # late[k]
    <3> SUFFICES ASSUME NEW i \in DOMAIN chosen, NEW k \in DOMAIN late, chosen[i] = late[k] PROVE FALSE
      OBVIOUS
    <3> HIDE DEF n, J, chosen, late
    <3>1. PICK m \in DOMAIN missed : m > n /\ late[k] = missed[m]
      BY <2>4
    <3>2. i \in DOMAIN missed /\ missed[i] = missed[m] /\ i <= n /\ i \in Nat
      BY <2>2, <2>3, <3>1
    <3>3. i = m
      BY <1>4, <3>1, <3>2 DEF NoRepeats
    <3> QED
      BY <1>7, <3>1, <3>2, <3>3
  <2>6. /\ b \in BatchSet(BootStages) /\ b.stage = "plan" /\ b.results = {} /\ b.late = late
        /\ b.cur = {} /\ b.queue = <<>>
    <3> HIDE DEF n, late
    <3> QED
      BY <1>2, <1>3, <1>5, <2>2 DEF BatchSet
  <2> HIDE DEF b, chosen, late, n
  <2>7. /\ \A j : Waits(c, j) \/ RunsNow(c, j) => \E i \in DOMAIN chosen : chosen[i] = j
        /\ \A r \in c.cur : r.at = now
        /\ c.results = {} /\ c.late = late
    <3>1. CASE n = 0
      <4>1. c = [b EXCEPT !.stage = "apply"]
        BY <3>1
      <4>2. c.cur = {} /\ c.queue = <<>> /\ c.results = {} /\ c.late = late
        BY <2>6, <4>1 DEF BatchSet
      <4> QED
        BY <4>2 DEF Waits, RunsNow
    <3>2. CASE n # 0
      <4> DEFINE b2 == [b EXCEPT !.stage = "run"]
      <4>1. c = Begin(b2, chosen, 1)
        BY <3>2
      <4>2. b2 \in BatchSet(BootStages) /\ b2.stage = "run" /\ b2.results = {} /\ b2.late = late
        BY <2>6 DEF BatchSet, BootStages
      <4> HIDE DEF c, b2
      <4>3. /\ c.results = b2.results /\ c.late = b2.late
            /\ \A j : Waits(c, j) \/ RunsNow(c, j) => \E i \in DOMAIN chosen : chosen[i] = j
        <5> HIDE DEF J
        <5>1. chosen \in Seq(Jobs) /\ NoRepeats(chosen) /\ now \in Moment /\ 1 \in Nat
          BY <1>3, <2>2
        <5> QED
          BY <4>1, <4>2, <5>1, BeginTyped
      <4>4. \A r \in c.cur : r.at = now
        BY <4>1, <4>2, BeginNow
      <4> QED
        BY <4>2, <4>3, <4>4
    <3> QED
      BY <3>1, <3>2
  <2> HIDE DEF c
  <2>8. \A j : Waits(c, j) \/ RunsNow(c, j) => j \in J
    BY <1>4, <2>2, <2>7
  <2>9. \A j \in Range(late) : ~Holds(c, j)
    BY <2>5, <2>7 DEF Holds, HasResult, Range
  <2> QED
    BY <2>1, <2>7, <2>8, <2>9
<1> QED
  BY <1>8, <1>9

LEMMA BootPlanPaced ==
  ASSUME Going, NEW s \in Service, BootPlan(s) PROVE Pacing'
<1>0. /\ Basics /\ current = 1 /\ Types /\ Types' /\ now \in Moment
      /\ Timed(mem[1]) /\ Copied /\ Paced /\ mem[1] \in Stores /\ boot \in [Service -> BatchSet(BootStages)]
  BY ServiceFacts DEF Going, Single, Pacing, StoresPaced, Basics, Types
<1>1. boot[s].stage = "plan" /\ UNCHANGED <<now, tick, manual>>
  BY DEF BootPlan
<1>2. s = 1
  BY <1>0, <1>1, BootActive
<1>3. StoresPaced' /\ RunsKept
  <2>1. (disk' = disk /\ mem' = mem) \/ \E J : Persist(s, MarkAll(mem[1], J))
    <3>1. PICK missed : PlanMissed(s, missed)
      BY DEF BootPlan
    <3> QED
      BY <1>2, <3>1 DEF PlanMissed
  <2>2. CASE disk' = disk /\ mem' = mem
    BY <1>1, <2>2, QuietPaced, DiskSame
  <2>3. ASSUME NEW J, Persist(s, MarkAll(mem[1], J)) PROVE StoresPaced' /\ RunsKept
    <3> DEFINE g == MarkAll(mem[1], J)
    <3>1. DOMAIN g = DOMAIN mem[1] /\ \A j \in DOMAIN g : SameJob(g[j], mem[1][j])
      BY <1>0, MarkAllSame, MarkAllTyped
    <3>2. Persist(s, g)
      BY <2>3
    <3> HIDE DEF g
    <3>3. Timed(g) /\ \A j \in DOMAIN g : Paces(mem[1], g, j) /\ SameRun(g[j], mem[1][j])
      BY <1>0, <3>1, SameStore
    <3> QED
      BY <1>1, <1>2, <3>1, <3>2, <3>3, FromMemoryPaced
  <2> QED
    BY <2>1, <2>2, <2>3
<1>4. now' >= now
  BY <1>1, NowSame
<1>5. /\ \A j : Waits(boot'[1], j) => j \in DOMAIN mem[1] /\ Missed(mem[1][j], now)
      /\ \A r \in boot'[1].cur : r.at = now
      /\ boot'[1].results = {}
      /\ boot'[1].stage = "final" \/ \A j \in Range(boot'[1].late) : ~Holds(boot'[1], j)
  BY <1>0, <1>2, PlanTakes
<1>6. Ordered(boot'[1], now')
  BY <1>1, <1>4, <1>5 DEF Ordered
<1>7. TickGoesOn /\ ManualOrdered'
  BY <1>1, <1>4, TickSame, ManualSame
<1>8. \A j \in DOMAIN mem[1] : /\ j \in DOMAIN disk /\ SameJob(mem[1][j], disk[j])
                               /\ j \in DOMAIN disk' => SameRun(disk'[j], disk[j])
  <2>1. ASSUME NEW J PROVE \A j \in DOMAIN mem[1] : SameJob(MarkAll(mem[1], J)[j], mem[1][j])
    BY <1>0, MarkAllSame
  <2>2. disk' = disk \/ \E J : disk' = MarkAll(mem[1], J)
    <3>1. PICK missed : PlanMissed(s, missed)
      BY DEF BootPlan
    <3> QED
      BY <1>2, <3>1 DEF PlanMissed, Persist
  <2> QED
    BY <1>0, <2>1, <2>2 DEF Copied, SameJob, SameRun
<1>9. QueuePaced'
  <2> SUFFICES ASSUME NEW j \in DOMAIN disk' \ (moved' \cup loose'), disk'[j].status = "error",
                      Waits(tick'[1], j) \/ Waits(boot'[1], j)
               PROVE  Rested(disk'[j], now')
    BY DEF QueuePaced
  <2>1. CASE Waits(tick'[1], j)
    BY <1>1, <1>3, <1>4, <2>1, WaitKept
  <2>2. CASE Waits(boot'[1], j)
    <3>1. /\ j \in DOMAIN mem[1] /\ Missed(mem[1][j], now) /\ mem[1][j] \in Job
          /\ j \in DOMAIN disk /\ SameJob(mem[1][j], disk[j]) /\ SameRun(disk'[j], disk[j])
      BY <1>0, <1>5, <1>8, <2>2, StoreJob
    <3>2. Backed(disk[j], now)
      BY <1>0, <3>1, MovedGrows DEF Paced
    <3>3. Backed(mem[1][j], now) /\ mem[1][j].status = "error"
      BY <3>1, <3>2, SameBacked DEF SameJob, SameRun
    <3>4. Rested(mem[1][j], now)
      BY <1>0, <3>1, <3>3, MissedRested
    <3>5. Rested(disk[j], now)
      BY <3>1, <3>4 DEF Rested, SameJob, SameRun
    <3> QED
      BY <1>0, <1>4, <3>1, <3>5, RestStays
  <2> QED
    BY <2>1, <2>2
<1>10. LateApart'
  BY <1>5 DEF LateApart, Holds
<1>11. RunsOrdered'
  BY <1>6, <1>7 DEF RunsOrdered, TickGoesOn
<1> QED
  BY <1>3, <1>9, <1>10, <1>11 DEF Pacing

LEMMA BootRunEndPaced ==
  ASSUME Going, NEW s \in Service, NEW r \in boot[s].cur, NEW status \in ResultStatus, BootRunEnd(s, r, status)
  PROVE  Pacing'
<1>0. /\ Basics /\ current = 1 /\ boot \in [Service -> BatchSet(BootStages)] /\ now \in Moment
      /\ boot[1] \in BatchSet(BootStages) /\ BatchOK(boot[1], 1) /\ Ordered(boot[1], now)
  BY ServiceFacts DEF Going, Single, Pacing, RunsOrdered, Basics, Types, BatchesOK
<1> DEFINE c == EndRun(boot[1], r, status)
<1>1. boot[s].stage = "run" /\ UNCHANGED <<now, disk, mem, tick, manual>>
  BY DEF BootRunEnd
<1>2. s = 1
  BY <1>0, <1>1, BootActive
<1>3. boot'[1] = c
  BY <1>0, <1>2 DEF BootRunEnd
<1>4. (\A j : Waits(c, j) => Waits(boot[1], j)) /\ Ordered(c, now) /\ c.late = boot[1].late
  BY <1>0, <1>2, EndRunPaced
<1>5. \A j : Holds(c, j) => Holds(boot[1], j)
  <2>1. {"run", "apply"} \subseteq BootStages /\ 1 \in Nat
    BY DEF BootStages
  <2> QED
    BY <1>0, <1>1, <1>2, <2>1, EndRunTyped
<1> HIDE DEF c
<1>6. BootGoesOn
  BY <1>1, <1>3, <1>4, <1>5 DEF BootGoesOn
<1>7. now' >= now
  BY <1>1, NowSame
<1>8. TickGoesOn /\ ManualOrdered' /\ RunsKept /\ StoresPaced'
  BY <1>1, <1>7, TickSame, ManualSame, DiskSame, QuietPaced
<1> QED
  BY <1>6, <1>7, <1>8, CalmPacing

LEMMA BootApplyPaced ==
  ASSUME Going, NEW s \in Service, BootApply(s) PROVE Pacing'
<1>0. /\ Basics /\ current = 1 /\ boot \in [Service -> BatchSet(BootStages)] /\ now \in Moment
      /\ disk \in Stores /\ Timed(disk) /\ Ordered(boot[1], now) /\ LateApart
      /\ boot[1] \in BatchSet(BootStages) /\ BatchOK(boot[1], 1)
  BY ServiceFacts DEF Going, Single, Pacing, StoresPaced, RunsOrdered, Basics, BatchesOK, Types
<1> DEFINE g == MaintenanceRecompute(Staggered(ApplyAll(disk, boot[1].results), boot[1].late), now, FALSE)
           c == [boot[1] EXCEPT !.stage = "final"]
<1>1. boot[s].stage = "apply" /\ Reread(s) /\ UNCHANGED <<now, manual>>
  BY DEF BootApply
<1>2. s = 1
  BY <1>0, <1>1, BootActive
<1>3. Persist(s, g) /\ boot'[1] = c
  BY <1>0, <1>2 DEF BootApply
<1>4. /\ boot[1].results \in SUBSET ResultSet /\ \A res \in boot[1].results : res.at <= res.ended
      /\ boot[1].late \in Seq(Jobs)
  BY <1>0 DEF BatchSet, Ordered
<1>5. /\ Timed(g)
      /\ \A j \in DOMAIN g :
           j \notin Range(boot[1].late) \/ (g[j].next = disk[j].next /\ \A res \in boot[1].results : res.job # j)
           => Paces(disk, g, j)
      /\ \A j \in DOMAIN g : (\A res \in boot[1].results : res.job # j) => SameRun(g[j], disk[j])
  BY <1>0, <1>4, CaughtUpPaced
<1>6. DOMAIN g \subseteq DOMAIN disk
  BY <1>0, <1>4, CaughtUpTyped
<1>7. c.queue = boot[1].queue /\ c.cur = boot[1].cur /\ c.results = boot[1].results /\ c.stage = "final"
  BY <1>0 DEF BatchSet
<1> HIDE DEF g, c
\* A job put off whose time has changed is in moved'.
<1>8. ASSUME NEW j \in DOMAIN g \ moved' PROVE Paces(disk, g, j)
  <2>1. CASE j \in Range(boot[1].late)
    <3>1. \A res \in boot[1].results : res.job # j
      BY <1>0, <1>1, <1>2, <2>1 DEF LateApart, Holds, HasResult
    <3>2. PutsOff(j)
      BY <1>1, <1>2, <1>3, <1>7, <2>1 DEF PutsOff
    <3>3. g[j].next = disk[j].next
      BY <1>3, <1>6, <1>8, <3>2, NotMoved DEF Persist
    <3> QED
      BY <1>5, <3>1, <3>3
  <2>2. CASE j \notin Range(boot[1].late)
    BY <1>5, <2>2
  <2> QED
    BY <2>1, <2>2
<1>9. StoresPaced'
  BY <1>1, <1>2, <1>3, <1>5, <1>8, PersistPaced
<1>10. RunsKept
  BY <1>1, <1>2, <1>3, <1>5, <1>6, NoResults DEF RunsKept, Persist
<1>11. now' >= now
  BY <1>1, NowSame
<1>12. TickGoesOn /\ BootGoesOn /\ ManualOrdered'
  BY <1>1, <1>2, <1>3, <1>7, <1>11, TickRereads, BootSmaller, ManualSame
<1> QED
  BY <1>9, <1>10, <1>11, <1>12, CalmPacing

LEMMA BootFinalPaced ==
  ASSUME Going, NEW s \in Service, BootFinal(s) PROVE Pacing'
<1>0. /\ Basics /\ current = 1 /\ boot \in [Service -> BatchSet(BootStages)] /\ now \in Moment
      /\ disk \in Stores /\ Timed(disk)
  BY DEF Going, Single, Pacing, StoresPaced, Basics, Types
<1> DEFINE g == RecomputeNextRuns(disk, now)
<1>1. /\ boot[s].stage = "final" /\ Persist(s, g) /\ Reread(s) /\ boot' = [boot EXCEPT ![s] = NoBatch("up")]
      /\ UNCHANGED <<now, manual>>
  BY DEF BootFinal
<1>2. s = 1
  BY <1>0, <1>1, BootActive
<1>3. \A j \in DOMAIN disk : HasTime(disk[j])
  BY <1>0 DEF Timed, HasTime
<1>4. DOMAIN g = DOMAIN disk
  BY <1>0, MomentTime, RecomputeTyped
<1>5. Timed(g) /\ \A j \in DOMAIN disk : SameRun(g[j], disk[j]) /\ (Backed(disk[j], now) => Backed(g[j], now))
  BY <1>0, <1>3, RecomputePaced
<1> HIDE DEF g
<1>6. \A j \in DOMAIN g : Paces(disk, g, j) /\ SameRun(g[j], disk[j])
  BY <1>4, <1>5 DEF Paces
<1>7. StoresPaced' /\ RunsKept
  BY <1>1, <1>2, <1>5, <1>6, FromDiskPaced
<1>8. now' >= now
  BY <1>1, NowSame
<1>9. boot'[1].queue = <<>> /\ boot'[1].cur = {} /\ boot'[1].results = {} /\ boot'[1].stage = "up"
  BY <1>0, <1>1, <1>2 DEF NoBatch
<1>10. TickGoesOn /\ BootGoesOn /\ ManualOrdered'
  BY <1>1, <1>2, <1>8, <1>9, TickRereads, BootReset, ManualSame
<1> QED
  BY <1>7, <1>8, <1>10, CalmPacing
-----------------------------------------------------------------------------
(* The requests of the clients. *)

LEMMA ClientCalm ==
  ASSUME Going, UNCHANGED <<now, tick, boot>>, StoresPaced', RunsKept, ManualOrdered' PROVE Pacing'
<1>1. now' >= now
  BY NowSame
<1> QED
  BY <1>1, TickSame, BootSame, CalmPacing

LEMMA AddJobPaced == ASSUME Going, NEW j \in Jobs, AddJob(j) PROVE Pacing'
<1>0. /\ Basics /\ current = 1 /\ now \in Moment /\ mem[1] \in Stores /\ Timed(mem[1]) /\ Copied /\ Unborn
      /\ Client = 1 /\ 1 \in Service
  BY ServiceFacts DEF Going, Single, Pacing, StoresPaced, Basics, Types
<1> DEFINE g == RecomputeNextRuns(WithJob(mem[1], j, NewJob(Kind[j], now)), now)
<1>1. j \in unborn /\ Persist(1, g) /\ UNCHANGED <<now, tick, boot, manual>>
  BY <1>0 DEF AddJob
<1>2. /\ j \notin DOMAIN mem[1] /\ j \notin DOMAIN disk /\ ~Holds(tick[1], j) /\ ~Holds(boot[1], j)
  BY <1>0, <1>1 DEF Unborn
<1>3. /\ Timed(g) /\ DOMAIN g = DOMAIN mem[1] \cup {j} /\ Backed(g[j], now)
      /\ \A i \in DOMAIN mem[1] : Paces(mem[1], g, i) /\ SameRun(g[i], mem[1][i])
  BY <1>0, <1>2, AddedPaced
<1> HIDE DEF g
<1>4. StoresPaced'
  BY <1>0, <1>1, <1>3, PersistPaced
<1>5. ~Waits(tick[1], j) /\ ~Waits(boot[1], j)
  <2>1. BatchOK(tick[1], MaxConcurrentRuns) /\ BatchOK(boot[1], 1)
    BY <1>0 DEF Basics, BatchesOK
  <2> QED
    BY <1>2, <2>1, WaitsHolds
<1>6. \A i \in DOMAIN g : i # j => i \in DOMAIN disk /\ SameRun(g[i], disk[i])
  BY <1>0, <1>3 DEF Copied, SameJob, SameRun
<1>7. RunsKept
  BY <1>1, <1>5, <1>6 DEF RunsKept, Persist
<1>8. ManualOrdered'
  BY <1>1, NowSame, ManualSame
<1> QED
  BY <1>1, <1>4, <1>7, <1>8, ClientCalm

LEMMA UpdateJobPaced == ASSUME Going, NEW j \in Jobs, NEW patch, UpdateJob(j, patch) PROVE Pacing'
<1>0. /\ Basics /\ current = 1 /\ now \in Moment /\ mem[1] \in Stores /\ Timed(mem[1]) /\ Copied
      /\ Client = 1 /\ 1 \in Service /\ ops \in Nat
  BY ServiceFacts DEF Going, Single, Pacing, StoresPaced, Basics, Types
<1> DEFINE g == [mem[1] EXCEPT ![j] = Patched(@, patch)]
<1>1. j \in DOMAIN mem[1] /\ Persist(1, g) /\ Spend /\ UNCHANGED <<now, tick, boot, manual>>
  BY <1>0 DEF UpdateJob
<1>2. /\ Timed(g) /\ DOMAIN g = DOMAIN mem[1]
      /\ \A i \in DOMAIN mem[1] : SameRun(g[i], mem[1][i])
      /\ \A i \in DOMAIN mem[1] : g[i].next = mem[1][i].next => Paces(mem[1], g, i)
  BY <1>0, <1>1, UpdatedPaced
<1> HIDE DEF g
<1>3. ops' # ops /\ disk' = g
  BY <1>0, <1>1 DEF Spend, Persist
<1>4. ASSUME NEW i \in DOMAIN g \ moved' PROVE Paces(mem[1], g, i)
  <2>1. i \in DOMAIN disk /\ mem[1][i].next = disk[i].next
    BY <1>0, <1>2, <1>4 DEF Copied, SameJob
  <2>2. g[i].next = disk[i].next
    BY <1>3, <1>4, <2>1, NotMoved
  <2> QED
    BY <1>2, <1>4, <2>1, <2>2
<1>5. StoresPaced' /\ RunsKept
  BY <1>0, <1>1, <1>2, <1>4, FromMemoryPaced
<1>6. ManualOrdered'
  BY <1>1, NowSame, ManualSame
<1> QED
  BY <1>1, <1>5, <1>6, ClientCalm

LEMMA RemoveJobPaced == ASSUME Going, NEW j \in Jobs, RemoveJob(j) PROVE Pacing'
<1>0. /\ mem[1] \in Stores /\ Timed(mem[1]) /\ Client = 1 /\ 1 \in Service
  BY ServiceFacts DEF Going, Single, Pacing, StoresPaced, Basics, Types
<1> DEFINE g == Restrict(mem[1], DOMAIN mem[1] \ {j})
<1>1. Persist(1, g) /\ UNCHANGED <<now, tick, boot, manual>>
  BY <1>0 DEF RemoveJob
<1>2. DOMAIN g \subseteq DOMAIN mem[1] /\ \A i \in DOMAIN g : SameJob(g[i], mem[1][i])
  BY <1>0, RemovedSame
<1> HIDE DEF g
<1>3. Timed(g) /\ \A i \in DOMAIN g : Paces(mem[1], g, i) /\ SameRun(g[i], mem[1][i])
  BY <1>0, <1>2, SameStore
<1>4. StoresPaced' /\ RunsKept
  BY <1>0, <1>1, <1>2, <1>3, FromMemoryPaced
<1>5. ManualOrdered'
  BY <1>1, NowSame, ManualSame
<1> QED
  BY <1>1, <1>4, <1>5, ClientCalm

LEMMA MaintainedSame ==
  ASSUME Going
  PROVE  /\ Timed(Maintained) /\ DOMAIN Maintained = DOMAIN mem[1]
         /\ \A j \in DOMAIN Maintained : SameJob(Maintained[j], mem[1][j])
<1>1. mem[1] \in Stores /\ Timed(mem[1]) /\ now \in Moment /\ Client = 1
  BY ServiceFacts DEF Going, Single, Pacing, StoresPaced, Basics, Types
<1>2. LET g == MaintenanceRecompute(mem[1], now, FALSE)
      IN  Timed(g) /\ DOMAIN g = DOMAIN mem[1] /\ \A j \in DOMAIN mem[1] : SameJob(g[j], mem[1][j])
  BY <1>1, MaintenanceSame
<1> QED
  BY <1>1, <1>2 DEF Maintained

LEMMA ReadPaced == ASSUME Going, Read PROVE Pacing'
<1>0. /\ mem[1] \in Stores /\ Timed(mem[1]) /\ Client = 1 /\ 1 \in Service
  BY ServiceFacts DEF Going, Single, Pacing, StoresPaced, Basics, Types
<1>1. Persist(1, Maintained) /\ UNCHANGED <<now, tick, boot, manual>>
  BY <1>0 DEF Read
<1>2. /\ Timed(Maintained) /\ DOMAIN Maintained = DOMAIN mem[1]
      /\ \A j \in DOMAIN Maintained : SameJob(Maintained[j], mem[1][j])
  BY MaintainedSame
<1> DEFINE g == Maintained
<1> HIDE DEF g
<1>3. Persist(1, g) /\ Timed(g) /\ DOMAIN g \subseteq DOMAIN mem[1] /\ \A j \in DOMAIN g : SameJob(g[j], mem[1][j])
  BY <1>1, <1>2 DEF g
<1>4. \A i \in DOMAIN g : Paces(mem[1], g, i) /\ SameRun(g[i], mem[1][i])
  BY <1>0, <1>3, SameStore
<1>5. StoresPaced' /\ RunsKept
  BY <1>0, <1>1, <1>3, <1>4, FromMemoryPaced
<1>6. ManualOrdered'
  BY <1>1, NowSame, ManualSame
<1> QED
  BY <1>1, <1>5, <1>6, ClientCalm

\* The check of a manual run changes the store in the memory only.
LEMMA PreflightPaced ==
  ASSUME Going, mem' = [mem EXCEPT ![Client] = Maintained], UNCHANGED <<now, disk, tick, boot>>, ManualOrdered'
  PROVE  Pacing'
<1>1. /\ DOMAIN Maintained = DOMAIN mem[1] /\ \A j \in DOMAIN Maintained : SameJob(Maintained[j], mem[1][j])
  BY MaintainedSame
<1>2. mem'[1] = Maintained
  BY ServiceFacts DEF Going, Single, Basics, Types
<1> DEFINE g == Maintained
<1> HIDE DEF g
<1>3. mem'[1] = g /\ DOMAIN g \subseteq DOMAIN mem[1] /\ \A j \in DOMAIN g : SameJob(g[j], mem[1][j])
  BY <1>1, <1>2 DEF g
<1>4. StoresPaced'
  BY <1>3, MemoryPaced
<1> QED
  BY <1>4, DiskSame, ClientCalm

LEMMA EnqueueRunPaced == ASSUME Going, NEW j \in Jobs, NEW force, EnqueueRun(j, force) PROVE Pacing'
<1>1. manual'.stage \notin {"checked", "run", "finish"}
  <2>1. manual' \in {NoManual, [NoManual EXCEPT !.stage = "queued", !.job = j, !.force = force]}
    BY DEF EnqueueRun
  <2>2. NoManual.stage = "none" /\ [NoManual EXCEPT !.stage = "queued", !.job = j, !.force = force].stage = "queued"
    BY DEF NoManual
  <2> QED
    BY <2>1, <2>2
<1>2. ManualOrdered'
  BY <1>1 DEF ManualOrdered
<1> QED
  BY <1>2, PreflightPaced DEF EnqueueRun

-----------------------------------------------------------------------------
(* A manual run. *)

LEMMA RunCheckPaced == ASSUME Going, RunCheck PROVE Pacing'
<1>0. manual \in ManualSet /\ now \in Moment
  BY DEF Going, Single, Basics, Types
<1>1. now' = now /\ manual' \in {NoManual, [manual EXCEPT !.stage = "checked", !.at = now]}
  BY DEF RunCheck
<1>2. manual'.stage = "none" \/ (manual'.stage = "checked" /\ manual'.at = now)
  <2> DEFINE checked == [manual EXCEPT !.stage = "checked", !.at = now]
  <2>1. checked.stage = "checked" /\ checked.at = now
    BY <1>0 DEF ManualSet
  <2> QED
    BY <1>1, <2>1, NoManualTyped
<1>3. ManualOrdered'
  BY <1>0, <1>1, <1>2, MomentTime DEF ManualOrdered
<1> QED
  BY <1>3, PreflightPaced DEF RunCheck

LEMMA RunReservePaced == ASSUME Going, RunReserve PROVE Pacing'
<1>0. /\ mem[1] \in Stores /\ Timed(mem[1]) /\ Client = 1 /\ 1 \in Service /\ manual \in ManualSet /\ ManualOK
      /\ ManualOrdered
  BY ServiceFacts DEF Going, Single, Pacing, StoresPaced, RunsOrdered, Basics, Types
<1>1. manual.stage = "checked" /\ UNCHANGED <<now, tick, boot>>
  BY DEF RunReserve
<1>2. manual.at \in Moment /\ manual.at <= now
  BY <1>0, <1>1 DEF ManualOK, ManualOrdered
<1>3. CASE manual.job \in DOMAIN mem[1] /\ mem[1][manual.job].running = None
  <2> DEFINE g == [mem[1] EXCEPT ![manual.job] = Mark(@, manual.at)]
  <2>1. Persist(1, g) /\ manual' = [manual EXCEPT !.stage = "run"]
    BY <1>0, <1>3 DEF RunReserve
  <2>2. DOMAIN g = DOMAIN mem[1] /\ \A i \in DOMAIN g : SameJob(g[i], mem[1][i])
    BY <1>0, <1>2, <1>3, ReservedSame
  <2> HIDE DEF g
  <2>3. Timed(g) /\ \A i \in DOMAIN g : Paces(mem[1], g, i) /\ SameRun(g[i], mem[1][i])
    BY <1>0, <2>2, SameStore
  <2>4. StoresPaced' /\ RunsKept
    BY <1>0, <1>1, <2>1, <2>2, <2>3, FromMemoryPaced
  <2>5. manual'.stage = "run" /\ manual'.at = manual.at
    BY <1>0, <2>1 DEF ManualSet
  <2>6. ManualOrdered'
    BY <1>1, <1>2, <2>5 DEF ManualOrdered
  <2> QED
    BY <1>1, <2>4, <2>6, ClientCalm
<1>4. CASE ~(manual.job \in DOMAIN mem[1] /\ mem[1][manual.job].running = None)
  <2>1. manual' = NoManual /\ disk' = disk /\ mem' = mem
    BY <1>0, <1>4 DEF RunReserve
  <2>2. ManualOrdered'
    BY <2>1, NoManualTyped DEF ManualOrdered
  <2>3. StoresPaced' /\ RunsKept
    BY <1>1, <2>1, QuietPaced, DiskSame
  <2> QED
    BY <1>1, <2>2, <2>3, ClientCalm
<1> QED
  BY <1>3, <1>4

LEMMA ManualRunEndPaced == ASSUME Going, manual.stage = "run", NEW status, ManualRunEnd(status) PROVE Pacing'
<1>0. manual \in ManualSet /\ ManualOrdered
  BY DEF Going, Single, Pacing, RunsOrdered, Basics, Types
<1>1. /\ manual' = [manual EXCEPT !.stage = "finish", !.status = status, !.ended = now]
      /\ UNCHANGED <<now, disk, mem, tick, boot>>
  BY DEF ManualRunEnd
<1>2. manual'.stage = "finish" /\ manual'.at = manual.at /\ manual'.ended = now
  BY <1>0, <1>1 DEF ManualSet
<1>3. ManualOrdered'
  BY <1>0, <1>2 DEF ManualOrdered
<1>4. StoresPaced' /\ RunsKept
  BY <1>1, QuietPaced, DiskSame
<1> QED
  BY <1>1, <1>3, <1>4, ClientCalm

LEMMA RunFinishPaced == ASSUME Going, RunFinish PROVE Pacing'
<1>0. /\ mem[1] \in Stores /\ disk \in Stores /\ Timed(disk) /\ Client = 1 /\ 1 \in Service
      /\ manual \in ManualSet /\ ManualOK /\ ManualOrdered /\ now \in Moment
  BY ServiceFacts DEF Going, Single, Pacing, StoresPaced, RunsOrdered, Basics, Types
<1> DEFINE j == manual.job
           r == mem[1][j]
           result == ApplyResult(r, manual, manual.force)
           g == MaintenanceRecompute(Merged(disk, j, result, Deletes(r, manual)), now, TRUE)
<1>1. manual.stage = "finish" /\ manual' = NoManual /\ UNCHANGED <<now, boot>>
  BY DEF RunFinish
<1>2. ManualOrdered'
  BY <1>1, NoManualTyped DEF ManualOrdered
<1>3. now' >= now
  BY <1>1, NowSame
<1>4. BootGoesOn
  BY <1>1, <1>3, BootSame
<1>5. CASE j \in DOMAIN mem[1]
  <2>1. Persist(1, g) /\ Reread(1)
    BY <1>0, <1>5 DEF RunFinish
  <2>2. r \in Job
    BY <1>0, <1>5, StoreJob
  <2>3. /\ manual.at \in Time /\ manual.ended \in Moment /\ manual.ended \in Nat /\ manual.at <= manual.ended
        /\ manual.status \in ResultStatus /\ manual.force \in BOOLEAN
    BY <1>0, <1>1, MomentTime DEF ManualOK, ManualSet, ManualOrdered
  <2>4. result \in Job /\ HasTime(result) /\ Backed(result, now)
    <3> HIDE DEF r
    <3> QED
      BY <2>2, <2>3, ApplyResultTyped, ApplyResultPaced
  <2>5. Deletes(r, manual) \in BOOLEAN
    BY DEF Deletes
  <2>6. /\ Timed(g) /\ \A i \in DOMAIN g : Paces(disk, g, i)
        /\ \A i \in DOMAIN g : i # j => SameRun(g[i], disk[i])
    <3> HIDE DEF result, r, j
    <3> QED
      BY <1>0, <2>4, <2>5, FinishedPaced
  <2> HIDE DEF g
  <2>7. StoresPaced'
    BY <1>0, <1>1, <2>1, <2>6, PersistPaced
  <2>8. ManualHolds(j)
    BY <1>1 DEF ManualHolds
  <2>9. RunsKept
    BY <2>1, <2>6, <2>8, NoResults DEF RunsKept, Persist, Paces
  <2>10. TickGoesOn
    BY <1>0, <1>3, <2>1, TickRereads
  <2> QED
    BY <1>2, <1>3, <1>4, <2>7, <2>9, <2>10, CalmPacing
<1>6. CASE j \notin DOMAIN mem[1]
  <2>1. disk' = disk /\ mem' = mem /\ tick' = tick
    BY <1>0, <1>6 DEF RunFinish
  <2>2. StoresPaced' /\ RunsKept
    BY <1>1, <2>1, QuietPaced, DiskSame
  <2> QED
    BY <1>1, <1>2, <2>1, <2>2, ClientCalm
<1> QED
  BY <1>5, <1>6

-----------------------------------------------------------------------------
(* The process. *)

LEMMA CrashPaced == ASSUME Going, Crash PROVE Pacing'
<1>0. StoresPaced /\ moved \subseteq moved'
  BY MovedGrows DEF Going, Single, Pacing
<1>1. /\ disk' = disk /\ now' = now /\ DOMAIN mem'[1] = {} /\ manual' = NoManual
      /\ tick'[1] = NoBatch("idle") /\ boot'[1] = NoBatch("clear")
  BY ServiceFacts DEF Crash
<1>2. StoresPaced'
  BY <1>0, <1>1 DEF StoresPaced, Timed, Copied, Paced
<1>3. ManualOrdered'
  BY <1>1, NoManualTyped DEF ManualOrdered
<1>4. /\ tick'[1].queue = <<>> /\ tick'[1].cur = {} /\ tick'[1].results = {}
      /\ boot'[1].queue = <<>> /\ boot'[1].cur = {} /\ boot'[1].results = {} /\ boot'[1].stage = "clear"
  BY <1>1 DEF NoBatch
<1>5. now' >= now
  BY <1>1, NowSame
<1>6. TickGoesOn /\ BootGoesOn /\ RunsKept
  BY <1>1, <1>4, <1>5, TickReset, BootReset, DiskSame
<1> QED
  BY <1>2, <1>3, <1>5, <1>6, CalmPacing

LEMMA TimePassesPaced == ASSUME Going, TimePasses PROVE Pacing'
<1>0. StoresPaced /\ moved \subseteq moved' /\ now \in Moment
  BY MovedGrows DEF Going, Single, Pacing, Basics, Types
<1>1. now' = now + 1 /\ UNCHANGED <<disk, mem, tick, boot, manual>>
  BY DEF TimePasses
<1>2. now \in Nat /\ now' >= now
  BY <1>0, <1>1, MomentTime
<1>3. Paced'
  BY <1>0, <1>1, <1>2, BackedLater DEF StoresPaced, Paced
<1>4. StoresPaced'
  BY <1>0, <1>1, <1>3 DEF StoresPaced, Copied
<1>5. TickGoesOn /\ BootGoesOn /\ RunsKept /\ ManualOrdered'
  BY <1>1, <1>2, TickSame, BootSame, DiskSame, ManualSame
<1> QED
  BY <1>2, <1>4, <1>5, CalmPacing
-----------------------------------------------------------------------------
(* Every step, and the theorem. *)

LEMMA PacingNext == ASSUME Going, CronNext PROVE Pacing'
<1>1. ASSUME NEW s \in Service, TickStep(s) PROVE Pacing'
  <2>1. ASSUME NEW r \in tick[s].cur, NEW status \in Outcomes(r.job), TickRunEnd(s, r, status) PROVE Pacing'
    BY <2>1, TickRunEndPaced
  <2> QED
    BY <1>1, <2>1, TimerFiresPaced, TickCollectPaced, TickApplyPaced, TickEndPaced DEF TickStep
<1>2. ASSUME NEW s \in Service, BootStep(s) PROVE Pacing'
  <2>1. ASSUME NEW r \in boot[s].cur, NEW status \in Outcomes(r.job), BootRunEnd(s, r, status) PROVE Pacing'
    BY <2>1, OutcomesTyped, BootRunEndPaced
  <2> QED
    BY <1>2, <2>1, BootClearPaced, BootPlanPaced, BootApplyPaced, BootFinalPaced DEF BootStep
<1>3. ASSUME ManualStep PROVE Pacing'
  BY <1>3, RunCheckPaced, RunReservePaced, RunFinishPaced, ManualRunEndPaced DEF ManualStep
<1>4. ASSUME Request PROVE Pacing'
  <2>1. ASSUME NEW j \in Jobs, AddJob(j) \/ RemoveJob(j) PROVE Pacing'
    BY <2>1, AddJobPaced, RemoveJobPaced
  <2>2. ASSUME NEW j \in Jobs, NEW patch, UpdateJob(j, patch) PROVE Pacing'
    BY <2>2, UpdateJobPaced
  <2>3. ASSUME NEW j \in Jobs, NEW force, EnqueueRun(j, force) PROVE Pacing'
    BY <2>3, EnqueueRunPaced
  <2> QED
    BY <1>4, <2>1, <2>2, <2>3, ReadPaced DEF Request
<1>5. ~ReloadConfig
  BY DEF ReloadConfig, Going
<1> QED
  BY <1>1, <1>2, <1>3, <1>4, <1>5, CrashPaced, TimePassesPaced DEF CronNext

LEMMA BackoffNext == IInv /\ IInv' /\ BackoffInv /\ [CronNext]_cronVars => BackoffInv'
<1> SUFFICES ASSUME IInv, IInv', BackoffInv, [CronNext]_cronVars PROVE BackoffInv'
  OBVIOUS
<1>1. CASE CronNext
  <2>1. Basics /\ Basics' /\ Markers /\ Tracked /\ moved \subseteq Jobs /\ DOMAIN disk \subseteq Jobs /\ current' \in {1, 2}
    BY <1>1, StoreDomain DEF IInv, BackoffInv, CronNext, Basics, Types
  <2>2. moved' \subseteq Jobs
    BY <2>1 DEF Tracked
  <2>3. ASSUME moved' # Jobs PROVE current' = 1 /\ Pacing'
    <3>1. current' = 1 /\ moved # Jobs
      BY <2>1, <2>2, <2>3 DEF Tracked
    <3>2. Going
      BY <2>1, <3>1 DEF BackoffInv, Going, Single
    <3> QED
      BY <1>1, <3>1, <3>2, PacingNext
  <2> QED
    BY <2>2, <2>3 DEF BackoffInv
<1>2. CASE UNCHANGED cronVars
  <2>1. moved' = moved /\ current' = current /\ UNCHANGED <<now, disk, mem, tick, boot, manual, loose>>
    BY <1>2 DEF cronVars
  <2>2. Pacing => Pacing'
    BY <2>1 DEF Pacing, StoresPaced, Timed, Copied, Paced, QueuePaced, LateApart, RunsOrdered, ManualOrdered
  <2> QED
    BY <2>1, <2>2 DEF BackoffInv
<1> QED
  BY <1>1, <1>2

LEMMA NewJobPaced ==
  ASSUME NEW k \in Kinds, NEW t \in Nat
  PROVE  NewJob(k, t).status = "none" /\ (NewJob(k, t).enabled <=> NewJob(k, t).next # None)
<1> DEFINE r == [kind |-> k, enabled |-> TRUE, next |-> None, running |-> None, last |-> None,
                 status |-> "none", errors |-> 0]
           x == NextRun(r, t)
<1>1. r \in Job /\ r.status = "none" /\ r.enabled = TRUE
  BY NoneTime DEF Job, Statuses
<1>2. NewJob(k, t) = [r EXCEPT !.next = x]
  BY DEF NewJob
<1> HIDE DEF r
<1>3. x # None
  BY <1>1, NextRunSome
<1> HIDE DEF x
<1> QED
  BY <1>1, <1>2, <1>3 DEF Job

LEMMA InitBackoff == CronInit => BackoffInv
<1> SUFFICES ASSUME CronInit PROVE BackoffInv
  OBVIOUS
<1>1. /\ now = 1 /\ disk = [j \in Jobs \ unborn |-> NewJob(Kind[j], now)] /\ DOMAIN mem[1] = {}
      /\ tick[1] = NoBatch("idle") /\ boot[1] = NoBatch("clear") /\ manual = NoManual
      /\ current = 1 /\ moved = {}
  BY ServiceFacts DEF CronInit
<1>2. \A j \in Jobs \ unborn : disk[j].status = "none" /\ (disk[j].enabled <=> disk[j].next # None)
  BY <1>1, NewJobPaced, CronInstance
<1>3. StoresPaced
  BY <1>1, <1>2 DEF StoresPaced, Timed, Copied, Paced, Backed
<1>4. /\ tick[1].queue = <<>> /\ tick[1].cur = {} /\ tick[1].results = {}
      /\ boot[1].queue = <<>> /\ boot[1].cur = {} /\ boot[1].results = {} /\ boot[1].stage = "clear"
  BY <1>1 DEF NoBatch
<1>5. QueuePaced /\ LateApart
  BY <1>4 DEF QueuePaced, Waits, LateApart, Holds
<1>6. RunsOrdered
  BY <1>1, <1>4, NoManualTyped DEF RunsOrdered, Ordered, ManualOrdered
<1> QED
  BY <1>1, <1>3, <1>5, <1>6 DEF BackoffInv, Pacing

\* The steps that start no run.
NoneStart == \A x \in Service : tick'[x].cur \subseteq tick[x].cur /\ boot'[x].cur \subseteq boot[x].cur

LEMMA RereadStarts == ASSUME Types, NEW s, Reread(s) PROVE \A x \in Service : tick'[x].cur = tick[x].cur
<1>1. tick \in [Service -> BatchSet(TickStages)]
  BY DEF Types
<1>2. ASSUME NEW x \in Service PROVE [tick[x] EXCEPT !.own = FALSE].cur = tick[x].cur
  BY <1>1 DEF BatchSet
<1>3. \A x \in Service : tick'[x] \in {tick[x], [tick[x] EXCEPT !.own = FALSE]}
  BY <1>1 DEF Reread
<1> QED
  BY <1>2, <1>3

LEMMA QuietStarts == ASSUME tick' = tick, boot' = boot PROVE NoneStart
  BY DEF NoneStart

LEMMA TickStarts ==
  ASSUME Types, NEW s \in Service, TimerFires(s) \/ TickApply(s) \/ TickEnd(s) PROVE NoneStart
<1>1. tick \in [Service -> BatchSet(TickStages)] /\ boot' = boot
  BY DEF Types, TimerFires, TickApply, TickEnd
<1>2. PICK stage : tick' = [tick EXCEPT ![s] = NoBatch(stage)]
  BY DEF TimerFires, TickApply, TickEnd
<1>3. NoBatch(stage).cur = {}
  BY DEF NoBatch
<1>4. \A x \in Service : tick'[x] \in {tick[x], NoBatch(stage)}
  BY <1>1, <1>2
<1> QED
  BY <1>1, <1>3, <1>4 DEF NoneStart

LEMMA BootStarts ==
  ASSUME Types, NEW s \in Service, BootClear(s) \/ BootApply(s) \/ BootFinal(s) PROVE NoneStart
<1>1. boot \in [Service -> BatchSet(BootStages)] /\ boot[s] \in BatchSet(BootStages)
  BY DEF Types
<1>2. \A x \in Service : tick'[x].cur = tick[x].cur
  BY RereadStarts DEF BootClear, BootApply, BootFinal
<1>3. PICK c : boot' = [boot EXCEPT ![s] = c] /\ c.cur \subseteq boot[s].cur
  <2>1. CASE BootClear(s)
    <3> DEFINE marked == {j \in DOMAIN disk : disk[j].running # None}
               c == [NoBatch("plan") EXCEPT !.skip = marked]
    <3>1. boot' = [boot EXCEPT ![s] = c]
      BY <2>1 DEF BootClear
    <3>2. c.cur = {}
      BY DEF NoBatch
    <3> QED
      BY <3>1, <3>2
  <2>2. CASE BootApply(s)
    <3> DEFINE c == [boot[s] EXCEPT !.stage = "final"]
    <3>1. boot' = [boot EXCEPT ![s] = c]
      BY <2>2 DEF BootApply
    <3>2. c.cur = boot[s].cur
      BY <1>1 DEF BatchSet
    <3> QED
      BY <3>1, <3>2
  <2>3. CASE BootFinal(s)
    <3>1. NoBatch("up").cur = {}
      BY DEF NoBatch
    <3> QED
      BY <2>3, <3>1 DEF BootFinal
  <2> QED
    BY <2>1, <2>2, <2>3
<1>4. \A x \in Service : boot'[x] = boot[x] \/ (x = s /\ boot'[x] = c)
  BY <1>1, <1>3
<1> QED
  BY <1>2, <1>3, <1>4 DEF NoneStart

LEMMA OtherStarts == ASSUME Types, ManualStep \/ Request \/ ReloadConfig \/ Crash \/ TimePasses PROVE NoneStart
<1>1. CASE Request \/ TimePasses
  BY <1>1, QuietStarts DEF Request, AddJob, RemoveJob, UpdateJob, EnqueueRun, Read, TimePasses
<1>2. CASE ManualStep
  <2>1. CASE RunCheck \/ RunReserve \/ \E status : ManualRunEnd(status)
    BY <2>1, QuietStarts DEF RunCheck, RunReserve, ManualRunEnd
  <2>2. CASE RunFinish
    <3>1. boot' = boot /\ (tick' = tick \/ Reread(Client))
      BY <2>2 DEF RunFinish
    <3>2. \A x \in Service : tick'[x].cur \subseteq tick[x].cur
      BY <3>1, RereadStarts
    <3> QED
      BY <3>1, <3>2 DEF NoneStart
  <2> QED
    BY <1>2, <2>1, <2>2 DEF ManualStep
<1>3. CASE ReloadConfig
  <2>1. boot \in [Service -> BatchSet(BootStages)] /\ tick' = tick /\ boot' = [boot EXCEPT ![2] = NoBatch("clear")]
    BY <1>3 DEF Types, ReloadConfig
  <2>2. NoBatch("clear").cur = {}
    BY DEF NoBatch
  <2>3. \A x \in Service : boot'[x] \in {boot[x], NoBatch("clear")}
    BY <2>1
  <2> QED
    BY <2>1, <2>2, <2>3 DEF NoneStart
<1>4. CASE Crash
  <2>1. \A stage : NoBatch(stage).cur = {}
    BY DEF NoBatch
  <2>2. \A x \in Service : tick'[x].cur = {} /\ boot'[x].cur = {}
    BY <1>4, <2>1 DEF Crash
  <2> QED
    BY <2>2 DEF NoneStart
<1> QED
  BY <1>1, <1>2, <1>3, <1>4

\* A run that a step starts.
LEMMA StartsRested ==
  ASSUME IInv, BackoffInv, CronNext, NEW s \in Service,
         NEW r \in (tick'[s].cur \cup boot'[s].cur) \ (tick[s].cur \cup boot[s].cur),
         r.job \in DOMAIN disk \ (moved \cup loose), disk[r.job].status = "error"
  PROVE  Rested(disk[r.job], now)
<1>1. /\ Basics /\ Types /\ moved # Jobs /\ current = 1 /\ Pacing
      /\ tick \in [Service -> BatchSet(TickStages)] /\ boot \in [Service -> BatchSet(BootStages)]
      /\ disk[r.job] \in Job /\ now \in Moment
  BY StoreDomain, StoreJob DEF IInv, BackoffInv, Basics, Types
<1>2. Backed(disk[r.job], now) /\ Copied /\ QueuePaced /\ Ordered(tick[1], now) /\ Ordered(boot[1], now)
  BY <1>1 DEF Pacing, StoresPaced, RunsOrdered, Paced
<1>3. ~NoneStart
  BY DEF NoneStart
<1>4. ASSUME NEW x \in Service, TickCollect(x) PROVE Rested(disk[r.job], now)
  <2>1. x = 1 /\ boot' = boot
    BY <1>1, <1>4, TickActive DEF TickCollect
  <2>2. \A y \in Service : y # x => tick'[y] = tick[y]
    BY <1>1, <1>4 DEF TickCollect
  <2>3. s = x /\ RunsNow(tick'[x], r.job)
    BY <2>1, <2>2 DEF RunsNow
  <2>4. Runnable(disk[r.job], now)
    BY <1>1, <1>4, <2>3, CollectTakes
  <2> QED
    BY <1>1, <1>2, <2>4, DueRested DEF Runnable
<1>5. ASSUME NEW x \in Service, NEW q \in tick[x].cur, NEW status, TickRunEnd(x, q, status)
      PROVE  Rested(disk[r.job], now)
  <2>1. x = 1 /\ boot' = boot /\ tick' = [tick EXCEPT ![x] = EndRun(tick[x], q, status)]
    BY <1>1, <1>5, TickActive DEF TickRunEnd
  <2>2. r \in EndRun(tick[x], q, status).cur /\ r \notin tick[x].cur
    BY <1>1, <2>1
  <2>3. Waits(tick[1], r.job)
    BY <1>1, <1>2, <1>5, <2>1, <2>2, EndRunPaced
  <2> QED
    BY <1>2, <2>3 DEF QueuePaced
<1>6. ASSUME NEW x \in Service, BootPlan(x) PROVE Rested(disk[r.job], now)
  <2>1. x = 1 /\ tick' = tick
    BY <1>1, <1>6, BootActive DEF BootPlan
  <2>2. \A y \in Service : y # x => boot'[y] = boot[y]
    <3>1. PICK missed : PlanMissed(x, missed)
      BY <1>6 DEF BootPlan
    <3> QED
      BY <1>1, <3>1 DEF PlanMissed
  <2>3. s = x /\ RunsNow(boot'[x], r.job)
    BY <2>1, <2>2 DEF RunsNow
  <2>4. r.job \in DOMAIN mem[1] /\ Missed(mem[1][r.job], now)
    BY <1>1, <1>6, <2>1, <2>3, PlanTakes
  <2>5. mem[1][r.job] \in Job /\ SameJob(mem[1][r.job], disk[r.job])
    BY <1>1, <1>2, <2>4, StoreJob, ServiceFacts DEF Types, Copied
  <2>6. Backed(mem[1][r.job], now) /\ mem[1][r.job].status = "error"
    BY <1>2, <2>5, SameBacked DEF SameJob, SameRun
  <2>7. Rested(mem[1][r.job], now)
    BY <1>1, <2>4, <2>5, <2>6, MissedRested
  <2> QED
    BY <2>5, <2>7 DEF Rested, SameJob, SameRun
<1>7. ASSUME NEW x \in Service, NEW q \in boot[x].cur, NEW status, BootRunEnd(x, q, status)
      PROVE  Rested(disk[r.job], now)
  <2>1. x = 1 /\ tick' = tick /\ boot' = [boot EXCEPT ![x] = EndRun(boot[x], q, status)]
    BY <1>1, <1>7, BootActive DEF BootRunEnd
  <2>2. r \in EndRun(boot[x], q, status).cur /\ r \notin boot[x].cur
    BY <1>1, <2>1
  <2>3. Waits(boot[1], r.job)
    BY <1>1, <1>2, <1>7, <2>1, <2>2, EndRunPaced
  <2> QED
    BY <1>2, <2>3 DEF QueuePaced
<1>8. \/ \E x \in Service :
           \/ TickCollect(x) \/ BootPlan(x)
           \/ \E q \in tick[x].cur : \E status : TickRunEnd(x, q, status)
           \/ \E q \in boot[x].cur : \E status : BootRunEnd(x, q, status)
      \/ NoneStart
  BY <1>1, TickStarts, BootStarts, OtherStarts DEF CronNext, TickStep, BootStep
<1> QED
  BY <1>3, <1>4, <1>5, <1>6, <1>7, <1>8

\* The inductive invariant of the backoff holds.
LEMMA BackoffInvHolds == CronSpec => [](IInv /\ BackoffInv)
<1>1. CronSpec => []IInv
  BY InitInv, NextInv, PTL DEF CronSpec
<1> QED
  BY <1>1, InitBackoff, BackoffNext, PTL DEF CronSpec

\* After an error, neither a tick nor a catch-up starts a job before its backoff has passed,
\* across restarts: BackoffKept of the run cron_due, for every set of jobs, every list of
\* backoffs and every value of the other constants.
THEOREM BackoffHolds == CronSpec => BackoffKept
<1> DEFINE Kept ==
      \A s \in Service : \A r \in (tick'[s].cur \cup boot'[s].cur) \ (tick[s].cur \cup boot[s].cur) :
        r.job \in DOMAIN disk \ (moved \cup loose) /\ disk[r.job].status = "error"
          => now >= disk[r.job].last + ErrorBackoff(disk[r.job].errors)
<1>1. IInv /\ BackoffInv /\ [CronNext]_cronVars => [Kept]_cronVars
  <2> SUFFICES ASSUME IInv, BackoffInv, CronNext PROVE Kept
    OBVIOUS
  <2> QED
    BY StartsRested DEF Rested
<1>2. BackoffKept <=> [][Kept]_cronVars
  BY DEF BackoffKept
<1> HIDE DEF Kept
<1> QED
  BY <1>1, <1>2, BackoffInvHolds, PTL DEF CronSpec
=============================================================================
