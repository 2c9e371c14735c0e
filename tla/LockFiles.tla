----------------------------- MODULE LockFiles -----------------------------
(***************************************************************************)
(* The three lock files of the gateway, each a file created with "wx" that *)
(* names the process that created it:                                      *)
(*   "session"  agents/session-write-lock.ts, one transcript of a session; *)
(*   "file"     plugin-sdk/file-lock.ts, a store that processes share;     *)
(*   "gateway"  infra/gateway-lock.ts, one gateway per configuration.      *)
(* A behaviour is about one lock of one kind.  A task that finds the file  *)
(* reads it, judges whether its owner is gone, and removes it or waits;    *)
(* each of these steps is a separate call to the file system, so the file  *)
(* may be another one by the time of the next.                             *)
(***************************************************************************)
EXTENDS Naturals, FiniteSets

CONSTANTS
  Task,      \* calls of the acquire functions that may be in progress at once
  Process,   \* operating system processes, by pid
  LockKinds, \* the kinds of lock to consider
  Faults,    \* what may go wrong: subset of AllFaults
  MaxFaults, \* bound of the model: how many of them in a behaviour
  MaxStarts  \* bound of the model: times a process is started again

AllFaults == {"crash", "overstay", "signal", "sweep", "io"}

ASSUME LockInstance ==
  /\ IsFiniteSet(Task) /\ IsFiniteSet(Process) /\ Process \subseteq Nat \ {0}
  /\ LockKinds \subseteq {"session", "file", "gateway"}
  /\ Faults \subseteq AllFaults
  /\ MaxFaults \in Nat /\ MaxStarts \in Nat

VARIABLES
  kind,   \* the kind of the lock
  stamped,\* whether lock files record the start time of their process (Linux)
  file,   \* the lock file, or NoLock
  up,     \* the processes that run
  starts, \* how often each process has been started again, under the same pid
  held,   \* HELD_LOCKS of each process
  task,   \* what each task is doing
  closing,\* locks taken out of HELD_LOCKS whose file is not removed yet
  listens,\* processes that listen on the gateway's port
  faults, \* counts what MaxFaults bounds
  loose   \* history: a lock has been taken from a process that may be using it

lockVars == <<kind, stamped, file, up, starts, held, task, closing, listens, faults, loose>>

\* Creations of the file are told apart by an id; ids are used again.
LockId == Nat \ {0}
Lock == [id : LockId, by : Process, start : 0..MaxStarts, written : BOOLEAN, old : BOOLEAN]
NoLock == [id |-> 0]
Held == [id : LockId, count : Nat, over : BOOLEAN]
NoHeld == [id |-> 0]

Idle == [pc |-> "idle", proc |-> 0, own |-> 0, seen |-> NoLock]
ProcessOf(t) == task[t].proc
At(t, pc) == [task[t] EXCEPT !.pc = pc]
Again(t) == [task[t] EXCEPT !.pc = "open", !.seen = NoLock]
Goto(t, pc) == task' = [task EXCEPT ![t] = At(t, pc)]

UsedIds ==
  {file.id} \cup {task[t].own : t \in Task} \cup {task[t].seen.id : t \in Task}
    \cup {held[p].id : p \in Process} \cup {c[2] : c \in closing}
FreshId == CHOOSE i \in 1..Cardinality(UsedIds) + 1 : i \notin UsedIds

LockInit ==
  /\ kind \in LockKinds
  /\ stamped \in IF kind = "file" THEN {FALSE} ELSE BOOLEAN
  /\ file = NoLock
  /\ up = Process
  /\ starts = [p \in Process |-> 0]
  /\ held = [p \in Process |-> NoHeld]
  /\ task = [t \in Task |-> Idle]
  /\ closing = {}
  /\ listens = {}
  /\ faults = 0
  /\ loose = FALSE

Fault(f) == f \in Faults /\ faults < MaxFaults /\ faults' = faults + 1
----------------------------------------------------------------------------
(* What a lock file says of its owner.                                     *)

\* isPidAlive: a process that was started again has the pid of the old one.
PidAlive(l) == l.by \in up
Recycled(l) == stamped /\ l.start # starts[l.by]
OwnerAlive(l) == l.by \in up /\ l.start = starts[l.by]

\* The payload alone: "dead", "live" or "unknown" (then the age of the file decides).
OrphanSelf(t, l) == l.by = ProcessOf(t) /\ ~stamped /\ held[l.by] = NoHeld
SessionVerdict_EmptyIsDead(t, l) ==
  IF l = NoLock THEN "unknown"
  ELSE IF ~l.written \/ ~PidAlive(l) \/ Recycled(l) \/ l.old \/ OrphanSelf(t, l) THEN "dead" ELSE "live"
SessionVerdict(t, l) ==
  IF l = NoLock \/ ~l.written THEN "unknown"
  ELSE IF ~PidAlive(l) \/ Recycled(l) \/ l.old \/ OrphanSelf(t, l) THEN "dead" ELSE "live"
FileVerdict(t, l) ==
  IF l # NoLock /\ l.written /\ (~PidAlive(l) \/ l.old) THEN "dead" ELSE "unknown"
\* The probe of the port may time out, which counts as a closed port, and the start
\* time or the command line of the owner may be unreadable.
GatewayVerdicts(l) ==
  IF l = NoLock \/ ~l.written THEN {"unknown"}
  ELSE IF listens = {} \/ ~PidAlive(l) THEN {"dead"}
  ELSE {"dead", "unknown"} \cup IF Recycled(l) THEN {} ELSE {"live"}
Verdicts(t, l) ==
  CASE kind = "session" -> {SessionVerdict(t, l)}
    [] kind = "file"    -> {FileVerdict(t, l)}
    [] kind = "gateway" -> GatewayVerdicts(l)

\* The verdicts that may be passed on a process that still uses the lock.
Doubtful(t, l) ==
  \/ kind # "gateway" /\ l.old
  \/ kind = "session" /\ OrphanSelf(t, l)
  \/ kind = "gateway" /\ OwnerAlive(l)

\* The age by stat: a file that is gone is stale for the file lock only.
StaleByStat_OnlyGone == file = NoLock /\ kind = "file"
StaleByStat == IF file = NoLock THEN kind = "file" ELSE file.old
----------------------------------------------------------------------------
(* Acquiring.                                                              *)

Shared(p) == kind # "gateway" /\ held[p] # NoHeld

Acquire_Uncounted(t, p) ==
  /\ task[t] = Idle /\ p \in up
  /\ kind = "gateway" => \A u \in Task : ProcessOf(u) # p
  /\ \/ Shared(p) /\ task' = [task EXCEPT ![t] = [Idle EXCEPT !.pc = "hold", !.proc = p, !.own = held[p].id]]
     \/ /\ ~Shared(p) \/ kind = "session"
        /\ task' = [task EXCEPT ![t] = [Idle EXCEPT !.pc = "open", !.proc = p]]
  /\ UNCHANGED <<kind, stamped, file, up, starts, held, closing, listens, faults, loose>>

\* A task asks for the lock; file and session locks are shared by a process, but a
\* session lock that is asked for with allowReentrant: false has to be created anew.
Acquire(t, p) ==
  /\ task[t] = Idle /\ p \in up
  /\ kind = "gateway" => \A u \in Task : ProcessOf(u) # p
  /\ \/ /\ Shared(p)
        /\ held' = [held EXCEPT ![p].count = @ + 1]
        /\ task' = [task EXCEPT ![t] = [Idle EXCEPT !.pc = "hold", !.proc = p, !.own = held[p].id]]
     \/ /\ ~Shared(p) \/ kind = "session"
        /\ task' = [task EXCEPT ![t] = [Idle EXCEPT !.pc = "open", !.proc = p]]
        /\ UNCHANGED held
  /\ UNCHANGED <<kind, stamped, file, up, starts, closing, listens, faults, loose>>

\* open(lockPath, "wx"): creates an empty file, or fails with EEXIST.
Open(t) ==
  /\ task[t].pc = "open"
  /\ IF file = NoLock
     THEN /\ file' = [id |-> FreshId, by |-> ProcessOf(t), start |-> starts[ProcessOf(t)],
                      written |-> FALSE, old |-> FALSE]
          /\ task' = [task EXCEPT ![t].pc = "write", ![t].own = FreshId]
     ELSE Goto(t, "read") /\ UNCHANGED file
  /\ UNCHANGED <<kind, stamped, up, starts, held, closing, listens, faults, loose>>

\* The payload goes to the open handle, wherever the name points by now.
Write(t) ==
  /\ task[t].pc = "write"
  /\ file' = IF file.id = task[t].own THEN [file EXCEPT !.written = TRUE] ELSE file
  /\ Goto(t, "enter")
  /\ UNCHANGED <<kind, stamped, up, starts, held, closing, listens, faults, loose>>

\* The write fails: the session lock removes its file, the others leave it empty.
WriteFails(t) ==
  /\ Fault("io")
  /\ task[t].pc = "write"
  /\ IF kind = "session"
     THEN /\ closing' = closing \cup {<<ProcessOf(t), task[t].own>>}
          /\ Goto(t, "release")
     ELSE /\ task' = [task EXCEPT ![t] = Idle]
          /\ UNCHANGED closing
  /\ UNCHANGED <<kind, stamped, file, up, starts, held, listens, loose>>

\* The continuation of the write: HELD_LOCKS.set.
Enter(t) ==
  /\ task[t].pc = "enter"
  /\ held' = IF kind = "gateway" THEN held
             ELSE [held EXCEPT ![ProcessOf(t)] =
                     [id |-> task[t].own, count |-> 1, over |-> FALSE]]
  /\ Goto(t, "hold")
  /\ UNCHANGED <<kind, stamped, file, up, starts, closing, listens, faults, loose>>

\* readLockPayload.
Read(t) ==
  /\ task[t].pc \in {"read", "sweep"}
  /\ task' = [task EXCEPT ![t].pc = IF @ = "read" THEN "judge" ELSE "inspect", ![t].seen = file]
  /\ UNCHANGED <<kind, stamped, file, up, starts, held, closing, listens, faults, loose>>

Judge(t) ==
  /\ task[t].pc = "judge"
  /\ \E v \in Verdicts(t, task[t].seen) :
       /\ Goto(t, CASE v = "dead" -> "remove" [] v = "live" -> "wait" [] v = "unknown" -> "stat")
       /\ loose' = (loose \/ (v = "dead" /\ Doubtful(t, task[t].seen)))
  /\ UNCHANGED <<kind, stamped, file, up, starts, held, closing, listens, faults>>

\* The stat looks at the file that has the name now.
Stat(t) ==
  /\ task[t].pc = "stat"
  /\ task' = [task EXCEPT ![t].pc = IF StaleByStat THEN "remove" ELSE "wait", ![t].seen = file]
  /\ loose' = (loose \/ (file # NoLock /\ StaleByStat))
  /\ UNCHANGED <<kind, stamped, file, up, starts, held, closing, listens, faults>>

\* rm(lockPath, {force: true}) removes whatever has the name; then the task tries again,
\* if it has attempts and time left.
Remove(t) ==
  /\ task[t].pc \in {"remove", "clean"}
  /\ loose' = (loose \/ (file # NoLock /\ file.id # task[t].seen.id))
  /\ file' = NoLock
  /\ \E next \in {Idle} \cup IF task[t].pc = "remove" THEN {Again(t)} ELSE {} :
       task' = [task EXCEPT ![t] = next]
  /\ UNCHANGED <<kind, stamped, up, starts, held, closing, listens, faults>>

Retry(t) ==
  /\ task[t].pc = "wait"
  /\ task' = [task EXCEPT ![t] = Again(t)]
  /\ UNCHANGED <<kind, stamped, file, up, starts, held, closing, listens, faults, loose>>

\* The attempts or the time of the caller are used up.
GiveUp(t) ==
  /\ task[t].pc = "wait"
  /\ task' = [task EXCEPT ![t] = Idle]
  /\ UNCHANGED <<kind, stamped, file, up, starts, held, closing, listens, faults, loose>>

\* The gateway that has the lock opens its port some time later, and closes it before the release.
Listen(t) ==
  /\ kind = "gateway" /\ task[t].pc = "hold" /\ listens = {}
  /\ listens' = {ProcessOf(t)}
  /\ UNCHANGED <<kind, stamped, file, up, starts, held, task, closing, faults, loose>>

\* cleanStaleLockFiles, when a gateway starts or doctor runs: no look at the age of an empty file.
Sweep(t, p) ==
  /\ Fault("sweep") /\ kind = "session"
  /\ task[t] = Idle /\ p \in up /\ file # NoLock
  /\ task' = [task EXCEPT ![t] = [Idle EXCEPT !.pc = "sweep", !.proc = p]]
  /\ UNCHANGED <<kind, stamped, file, up, starts, held, closing, listens, loose>>

Inspect(t) ==
  LET l == task[t].seen
      stale == l = NoLock \/ ~l.written \/ ~PidAlive(l) \/ Recycled(l) \/ l.old
  IN  /\ task[t].pc = "inspect"
      /\ task' = [task EXCEPT ![t] = IF stale THEN At(t, "clean") ELSE Idle]
      /\ loose' = (loose \/ (stale /\ l # NoLock /\ OwnerAlive(l)))
      /\ UNCHANGED <<kind, stamped, file, up, starts, held, closing, listens, faults>>
----------------------------------------------------------------------------
(* Releasing.  The entry leaves HELD_LOCKS at once; the file goes later.   *)

Drop(p) ==
  /\ held' = [held EXCEPT ![p] = NoHeld]
  /\ closing' = closing \cup {<<p, held[p].id>>}

\* The session lock checks that its entry is still the one; the file lock takes any entry.
Entry(t) ==
  LET h == held[ProcessOf(t)]
  IN  IF kind = "session" /\ h.id # task[t].own THEN NoHeld ELSE h

Release(t) ==
  LET p == ProcessOf(t)
  IN  /\ task[t].pc = "hold"
      /\ CASE kind = "gateway" ->
                /\ closing' = closing \cup {<<p, task[t].own>>}
                /\ listens' = listens \ {p}
                /\ Goto(t, "release")
                /\ UNCHANGED held
           [] kind # "gateway" /\ Entry(t) = NoHeld ->
                /\ task' = [task EXCEPT ![t] = Idle]
                /\ UNCHANGED <<held, closing, listens>>
           [] kind # "gateway" /\ Entry(t) # NoHeld /\ held[p].count > 1 ->
                /\ held' = [held EXCEPT ![p].count = @ - 1]
                /\ task' = [task EXCEPT ![t] = Idle]
                /\ UNCHANGED <<closing, listens>>
           [] kind # "gateway" /\ Entry(t) # NoHeld /\ held[p].count <= 1 ->
                /\ Drop(p)
                /\ task' = [task EXCEPT ![t].pc = "release", ![t].own = held[p].id]
                /\ UNCHANGED listens
      /\ UNCHANGED <<kind, stamped, file, up, starts, faults, loose>>

\* close and rm of a lock that was dropped: the rm does not look whose file it is.
CloseDone(c) ==
  /\ c \in closing
  /\ closing' = closing \ {c}
  /\ file' = NoLock
  /\ task' = [t \in Task |-> IF ProcessOf(t) = c[1] /\ task[t].pc = "release" /\ task[t].own = c[2]
                             THEN Idle ELSE task[t]]
  /\ UNCHANGED <<kind, stamped, up, starts, held, listens, faults, loose>>

\* runLockWatchdogCheck: a lock held past its limit is released under its holder.
Watchdog(p) ==
  /\ kind = "session" /\ held[p] # NoHeld /\ held[p].over
  /\ Drop(p)
  /\ loose' = TRUE
  /\ UNCHANGED <<kind, stamped, file, up, starts, task, listens, faults>>

\* releaseAllLocksSync, on a termination signal; other listeners may keep the process up.
Signal(p) ==
  /\ Fault("signal") /\ kind = "session" /\ held[p] # NoHeld
  /\ file' = NoLock
  /\ held' = [held EXCEPT ![p] = NoHeld]
  /\ loose' = TRUE
  /\ UNCHANGED <<kind, stamped, up, starts, task, closing, listens>>
----------------------------------------------------------------------------
(* Time and processes.                                                     *)

\* Nobody will remove the file but a task that judges it.
Abandoned == \A t \in Task : task[t].pc \in {"write", "enter", "hold", "release"} => task[t].own # file.id

\* staleMs goes by for the file; maxHoldMs goes by for the holder.
GrowOld ==
  /\ file # NoLock /\ ~file.old
  /\ IF Abandoned THEN UNCHANGED faults ELSE Fault("overstay")
  /\ file' = [file EXCEPT !.old = TRUE]
  /\ UNCHANGED <<kind, stamped, up, starts, held, task, closing, listens, loose>>

Overstay(p) ==
  /\ Fault("overstay") /\ kind = "session"
  /\ held[p] # NoHeld /\ ~held[p].over
  /\ held' = [held EXCEPT ![p].over = TRUE]
  /\ UNCHANGED <<kind, stamped, file, up, starts, task, closing, listens, loose>>

Crash(p) ==
  /\ Fault("crash") /\ p \in up
  /\ up' = up \ {p}
  /\ held' = [held EXCEPT ![p] = NoHeld]
  /\ task' = [t \in Task |-> IF ProcessOf(t) = p THEN Idle ELSE task[t]]
  /\ closing' = {c \in closing : c[1] # p}
  /\ listens' = listens \ {p}
  /\ UNCHANGED <<kind, stamped, file, starts, loose>>

Start(p) ==
  /\ p \notin up /\ starts[p] < MaxStarts
  /\ up' = up \cup {p}
  /\ starts' = [starts EXCEPT ![p] = @ + 1]
  /\ UNCHANGED <<kind, stamped, file, held, task, closing, listens, faults, loose>>
----------------------------------------------------------------------------
Advance(t) == \/ Open(t) \/ Write(t) \/ Enter(t) \/ Read(t) \/ Judge(t) \/ Stat(t)
              \/ Remove(t) \/ Retry(t) \/ Inspect(t)

LockNext ==
  \/ \E t \in Task : Advance(t) \/ WriteFails(t) \/ GiveUp(t) \/ Listen(t) \/ Release(t)
  \/ \E t \in Task, p \in Process : Acquire(t, p) \/ Sweep(t, p)
  \/ \E c \in closing : CloseDone(c)
  \/ GrowOld
  \/ \E p \in Process : Watchdog(p) \/ Signal(p) \/ Overstay(p) \/ Crash(p) \/ Start(p)

\* Every call to the file system returns, a waiting task tries again, and time goes by.
LockSpec ==
  /\ LockInit /\ [][LockNext]_lockVars
  /\ \A t \in Task : WF_lockVars(Advance(t))
  /\ WF_lockVars(GrowOld)
----------------------------------------------------------------------------
LockTypeOK ==
  /\ kind \in LockKinds /\ stamped \in BOOLEAN /\ loose \in BOOLEAN /\ faults \in 0..MaxFaults
  /\ file \in Lock \cup {NoLock}
  /\ up \subseteq Process /\ listens \subseteq up
  /\ starts \in [Process -> 0..MaxStarts]
  /\ \A p \in Process : held[p] = NoHeld \/ held[p] \in Held
  /\ \A t \in Task :
       /\ task[t].pc \in {"idle", "open", "write", "enter", "hold", "release", "read", "judge",
                         "stat", "remove", "wait", "sweep", "inspect", "clean"}
       /\ task[t].proc \in Process \cup {0}
       /\ task[t].own \in LockId \cup {0}
       /\ task[t].seen \in Lock \cup {NoLock}
  /\ closing \subseteq Process \X LockId

Holders(p, i) == {t \in Task : ProcessOf(t) = p /\ task[t].pc = "hold" /\ task[t].own = i}

\* The count of a shared lock is the number of tasks that hold it, so that the last
\* release and no earlier one removes the file: whatever the watchdog, the signals and
\* the other processes do to a session lock, until a lock has been stolen for a file lock.
LocksInv ==
  /\ LockTypeOK
  /\ \A p \in Process :
       held[p] # NoHeld /\ (kind = "session" \/ ~loose)
         => held[p].count = Cardinality(Holders(p, held[p].id)) /\ held[p].count > 0

\* A task that holds the lock has the lock file, so that no task of another process holds
\* it too, unless the code has taken a lock from a process that still runs: by age, by the
\* watchdog, on a signal, by a sweep while the file was empty, because its port was closed or
\* did not answer, as an orphan of the own process, or because the file was another one than the one judged.
HolderHasFile == loose \/ \A t \in Task : task[t].pc = "hold" => task[t].own = file.id

Trying(t) == task[t].pc \in {"open", "read", "judge", "stat", "remove", "wait"}
LeftBehind == file # NoLock /\ ~OwnerAlive(file)

\* A lock file that a crash left behind, even an empty one, goes while a task asks for
\* the lock and does not give up.
DeadLockGoes == \A t \in Task : (Trying(t) /\ LeftBehind) ~> (~Trying(t) \/ ~LeftBehind \/ loose)

\* Two processes never hold the lock at once.
Exclusive ==
  \A t, u \in Task : task[t].pc = "hold" /\ task[u].pc = "hold" => ProcessOf(t) = ProcessOf(u)
=============================================================================
