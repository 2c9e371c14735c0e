------------------------- MODULE LockFilesProofs -------------------------
(***************************************************************************)
(* Safety of the lock files, for any tasks, processes, kinds of lock and   *)
(* faults.                                                                 *)
(*                                                                         *)
(* As long as no lock was taken from a process that may be using it        *)
(* (~loose), whoever writes, holds or removes its own lock is alive and    *)
(* has the file (Firm); a task that removes another's file has seen it     *)
(* with an owner that is gone for good.  The count of a shared lock is     *)
(* right even then, as every creation has an id of its own (Apart).        *)
(***************************************************************************)
EXTENDS LockFiles, FiniteSetTheorems, TLAPS

Pcs == {"idle", "open", "write", "enter", "hold", "release", "read", "judge", "stat", "remove",
        "wait", "sweep", "inspect", "clean"}

\* The task has created a file, or shares one.
Writing == {"write", "enter"}
Using == Writing \cup {"hold"}
Owning == Using \cup {"release"}

Files == Lock \cup {NoLock}
Tasks == [pc : Pcs, proc : Process \cup {0}, own : LockId \cup {0}, seen : Files]

Types ==
  /\ LockTypeOK
  /\ task \in [Task -> Tasks]
  /\ held \in [Process -> Held \cup {NoHeld}]
  /\ IsFiniteSet(closing)

\* Only processes that run have tasks, locks and removals under way; a gateway
\* asks for its lock in one task.
Placed ==
  /\ \A t \in Task : /\ task[t].pc = "idle" <=> ProcessOf(t) = 0
                     /\ task[t].pc # "idle" => ProcessOf(t) \in up
                     /\ task[t].pc \in Owning <=> task[t].own # 0
  /\ \A p \in Process : held[p] # NoHeld => p \in up /\ kind # "gateway"
  /\ \A c \in closing : c[1] \in up
  /\ kind = "gateway" => \A t, u \in Task : ProcessOf(t) = ProcessOf(u) /\ ProcessOf(t) # 0 => t = u

\* A file that was seen and has the id of the one that is there is that file, and
\* no file is of a later start of its process than the last one.
Seen(t) == task[t].seen
Begun(l) == l # NoLock => l.start <= starts[l.by]
Same(l) == l # NoLock /\ l.id = file.id => l.by = file.by /\ l.start = file.start
Recorded == Begun(file) /\ \A t \in Task : Begun(Seen(t)) /\ Same(Seen(t))

\* Nobody else has the id of a file that is being written.
Apart ==
  \A t \in Task : task[t].pc \in Writing =>
    /\ \A u \in Task \ {t} : task[u].own # task[t].own
    /\ \A p \in Process : held[p].id # task[t].own

CountOf(p) ==
  held[p] # NoHeld /\ (kind = "session" \/ ~loose)
    => held[p].count = Cardinality(Holders(p, held[p].id)) /\ held[p].count > 0
Counted == \A p \in Process : CountOf(p)

\* Process p runs and has the file of that id.
Has(p, id) == file.id = id /\ file.by = p /\ OwnerAlive(file)

Firm ==
  /\ \A t \in Task : task[t].pc \in Using => Has(ProcessOf(t), task[t].own)
  /\ \A p \in Process : held[p] # NoHeld => Has(p, held[p].id)
  /\ \A c \in closing : Has(c[1], c[2])
  /\ closing # {} => /\ \A t \in Task : task[t].pc \notin Using
                     /\ \A p \in Process : held[p] = NoHeld
  /\ \A t \in Task : task[t].pc \in {"remove", "clean"} /\ Seen(t) # NoLock => ~OwnerAlive(Seen(t))

LockInv == Types /\ Placed /\ Recorded /\ Apart /\ Counted /\ (~loose => Firm)

-----------------------------------------------------------------------------
\* What the type invariant says of files, locks and tasks.
LEMMA Records ==
  /\ \A l \in Lock : /\ l.id \in LockId /\ l.id # 0 /\ l # NoLock /\ l.by \in Process
                     /\ l.start \in 0..MaxStarts /\ l.written \in BOOLEAN /\ l.old \in BOOLEAN
  /\ NoLock.id = 0 /\ NoLock \in Files /\ \A l \in Files : l.id \in LockId \cup {0}
  /\ \A l \in Files : l # NoLock => l \in Lock
  /\ \A h \in Held : h.id \in LockId /\ h.id # 0 /\ h # NoHeld /\ h.count \in Nat /\ h.over \in BOOLEAN
  /\ NoHeld.id = 0
  /\ 0 \notin Process
BY LockInstance DEF Lock, NoLock, Files, Held, NoHeld, LockId

\* The fields of a task.
LEMMA TaskTypes ==
  ASSUME Types
  PROVE  \A t \in Task : /\ task[t] \in Tasks /\ task[t].pc \in Pcs /\ task[t].proc \in Process \cup {0}
                         /\ task[t].own \in LockId \cup {0} /\ task[t].seen \in Files
BY DEF Types, Tasks

\* A task that is not at work.
LEMMA IdleTask ==
  /\ Idle \in Tasks
  /\ Idle.pc = "idle" /\ Idle.proc = 0 /\ Idle.own = 0 /\ Idle.seen = NoLock
BY DEF Idle, Tasks, Pcs, Files

\* Only task t moves; it goes on at pc.
Moves(t) == task' \in [Task -> Tasks] /\ \A u \in Task \ {t} : task'[u] = task[u]

Goes(t, pc) ==
  /\ Moves(t) /\ task'[t].pc = pc
  /\ task'[t].proc = task[t].proc /\ task'[t].own = task[t].own /\ task'[t].seen = task[t].seen

\* A task becomes another record.
LEMMA NewTask ==
  ASSUME Types, NEW t \in Task, NEW n \in Tasks, task' = [task EXCEPT ![t] = n]
  PROVE  Moves(t) /\ task'[t] = n
BY DEF Types, Moves

\* A task goes on.
LEMMA GotoGoes ==
  ASSUME Types, NEW t \in Task, NEW pc \in Pcs, Goto(t, pc)
  PROVE  Goes(t, pc)
<1> DEFINE n == At(t, pc)
<1>1. /\ n \in Tasks /\ n.pc = pc
      /\ n.proc = task[t].proc /\ n.own = task[t].own /\ n.seen = task[t].seen
  BY TaskTypes DEF At, Tasks
<1>2. task' = [task EXCEPT ![t] = n]
  BY DEF Goto
<1> HIDE DEF n
<1> QED BY <1>1, <1>2, NewTask DEF Goes

\* The values of a function on a finite set.
LEMMA FiniteValues ==
  ASSUME NEW S, IsFiniteSet(S), NEW f, f = [x \in S |-> f[x]]
  PROVE  IsFiniteSet({f[x] : x \in S})
<1> DEFINE T == {f[x] : x \in S}
<1>1. f \in [S -> T]
  OBVIOUS
<1>2. \A y \in T : \E x \in S : f[x] = y
  OBVIOUS
<1>3. f \in Surjection(S, T)
  BY <1>1, <1>2 DEF Surjection
<1> HIDE DEF T
<1>4. IsFiniteSet(T)
  BY <1>3, FS_Surjection
<1> QED BY <1>4 DEF T

\* The first id that is not in use.
LEMMA Fresh ==
  ASSUME Types
  PROVE  FreshId \in LockId /\ FreshId \notin UsedIds
<1>1. IsFiniteSet(UsedIds)
  <2>1. IsFiniteSet({file.id})
    BY FS_Singleton
  <2>2. IsFiniteSet({task[t].own : t \in Task})
    <3> DEFINE f == [t \in Task |-> task[t].own]
    <3>1. {task[t].own : t \in Task} = {f[t] : t \in Task}
      OBVIOUS
    <3>2. f = [t \in Task |-> f[t]]
      OBVIOUS
    <3> HIDE DEF f
    <3>3. IsFiniteSet(Task)
      BY LockInstance
    <3>4. IsFiniteSet({f[t] : t \in Task})
      BY <3>2, <3>3, FiniteValues
    <3> QED BY <3>1, <3>4
  <2>3. IsFiniteSet({task[t].seen.id : t \in Task})
    <3> DEFINE f == [t \in Task |-> task[t].seen.id]
    <3>1. {task[t].seen.id : t \in Task} = {f[t] : t \in Task}
      OBVIOUS
    <3>2. f = [t \in Task |-> f[t]]
      OBVIOUS
    <3> HIDE DEF f
    <3>3. IsFiniteSet(Task)
      BY LockInstance
    <3>4. IsFiniteSet({f[t] : t \in Task})
      BY <3>2, <3>3, FiniteValues
    <3> QED BY <3>1, <3>4
  <2>4. IsFiniteSet({held[p].id : p \in Process})
    <3> DEFINE f == [p \in Process |-> held[p].id]
    <3>1. {held[p].id : p \in Process} = {f[p] : p \in Process}
      OBVIOUS
    <3>2. f = [p \in Process |-> f[p]]
      OBVIOUS
    <3> HIDE DEF f
    <3>3. IsFiniteSet(Process)
      BY LockInstance
    <3>4. IsFiniteSet({f[p] : p \in Process})
      BY <3>2, <3>3, FiniteValues
    <3> QED BY <3>1, <3>4
  <2>5. IsFiniteSet({c[2] : c \in closing})
    <3> DEFINE f == [c \in closing |-> c[2]]
    <3>1. {c[2] : c \in closing} = {f[c] : c \in closing}
      OBVIOUS
    <3>2. f = [c \in closing |-> f[c]]
      OBVIOUS
    <3> HIDE DEF f
    <3>3. IsFiniteSet(closing)
      BY DEF Types
    <3>4. IsFiniteSet({f[c] : c \in closing})
      BY <3>2, <3>3, FiniteValues
    <3> QED BY <3>1, <3>4
  <2> QED BY <2>1, <2>2, <2>3, <2>4, <2>5, FS_Union DEF UsedIds
<1> DEFINE n == Cardinality(UsedIds)
<1>2. n \in Nat
  BY <1>1, FS_CardinalityType
<1>3. \E i \in 1..n + 1 : i \notin UsedIds
  <2> SUFFICES ASSUME 1..n + 1 \subseteq UsedIds PROVE FALSE
    OBVIOUS
  <2>1. Cardinality(1..n + 1) = n + 1
    BY <1>2, FS_Interval
  <2>2. Cardinality(1..n + 1) <= n
    BY <1>1, FS_Subset
  <2> QED BY <1>2, <2>1, <2>2
<1>4. FreshId \in 1..n + 1 /\ FreshId \notin UsedIds
  BY <1>3 DEF FreshId
<1> QED BY <1>2, <1>4 DEF LockId

-----------------------------------------------------------------------------
\* What a step may do to whatever the invariant speaks of: the effects below.
Judged == {"remove", "clean"}

\* A process holds nothing any more, or a lock of that id and count.
OnlyHeld(p) == held' \in [Process -> Held \cup {NoHeld}] /\ \A q \in Process \ {p} : held'[q] = held[q]
Frees(p) == OnlyHeld(p) /\ held'[p] = NoHeld
Holds(p, id, n) == OnlyHeld(p) /\ held'[p] # NoHeld /\ held'[p].id = id /\ held'[p].count = n

\* The file is the same one, written or older.
Renews ==
  /\ file' \in Files /\ file'.id = file.id
  /\ file # NoLock => file' # NoLock /\ file'.by = file.by /\ file'.start = file.start

\* A task without a file of its own goes on.
Turns(t) ==
  /\ Moves(t) /\ UNCHANGED <<kind, file, up, starts, held, closing>>
  /\ task[t].pc \notin Owning /\ task'[t].pc \notin Owning /\ task'[t].own = 0
  /\ \/ task'[t].pc = "idle" /\ task'[t].proc = 0
     \/ /\ task'[t].pc # "idle" /\ task'[t].proc \in up
        /\ \/ task'[t].proc = task[t].proc
           \/ kind = "gateway" => \A u \in Task : task[u].proc # task'[t].proc
  /\ task'[t].seen \in {task[t].seen, file, NoLock}
  /\ loose => loose'
  /\ task'[t].pc \in Judged /\ task'[t].seen # NoLock => loose' \/ ~OwnerAlive(task'[t].seen)

\* It shares the lock that its process holds; or creates a file.
Shares(t, p) ==
  /\ Moves(t) /\ UNCHANGED <<kind, file, up, starts, closing, loose>>
  /\ task[t].pc = "idle" /\ p \in up /\ kind # "gateway" /\ held[p] # NoHeld
  /\ task'[t].pc = "hold" /\ task'[t].proc = p
  /\ task'[t].own = held[p].id /\ task'[t].seen = NoLock
  /\ Holds(p, held[p].id, held[p].count + 1)

Creates(t) ==
  /\ Moves(t) /\ UNCHANGED <<kind, up, starts, held, closing, loose>>
  /\ task[t].pc = "open" /\ task'[t].pc = "write" /\ task'[t].own = file'.id
  /\ task'[t].proc = task[t].proc /\ task'[t].seen = task[t].seen
  /\ file = NoLock /\ file' \in Lock /\ file'.id \notin UsedIds
  /\ file'.by = ProcessOf(t) /\ file'.start = starts[ProcessOf(t)]

\* The file is written, or is not.
Writes(t) ==
  /\ task[t].pc = "write" /\ Goes(t, "enter") /\ Renews
  /\ UNCHANGED <<kind, up, starts, held, closing, loose>>

Fails(t) ==
  /\ task[t].pc = "write" /\ UNCHANGED <<kind, file, up, starts, held, loose>>
  /\ \/ Goes(t, "release") /\ closing' = closing \cup {<<ProcessOf(t), task[t].own>>}
     \/ Moves(t) /\ task'[t] = Idle /\ UNCHANGED closing

\* The task has the lock; and releases it.
Enters(t) ==
  /\ task[t].pc = "enter" /\ Goes(t, "hold")
  /\ UNCHANGED <<kind, file, up, starts, closing, loose>>
  /\ \/ kind = "gateway" /\ UNCHANGED held
     \/ kind # "gateway" /\ Holds(ProcessOf(t), task[t].own, 1)

Leaves(t) ==
  /\ task[t].pc = "hold" /\ Moves(t) /\ task'[t] = Idle
  /\ UNCHANGED <<kind, file, up, starts, closing, loose>>
  /\ LET p == ProcessOf(t) IN
       \/ /\ UNCHANGED held
          /\ held[p] = NoHeld \/ (kind = "session" /\ held[p].id # task[t].own)
       \/ /\ held[p] # NoHeld /\ (kind = "session" => held[p].id = task[t].own)
          /\ held[p].count > 1 /\ Holds(p, held[p].id, held[p].count - 1)

Closes(t) ==
  /\ task[t].pc = "hold" /\ Moves(t)
  /\ UNCHANGED <<kind, file, up, starts, loose>>
  /\ task'[t].pc = "release" /\ task'[t].proc = task[t].proc /\ task'[t].seen = task[t].seen
  /\ closing' = closing \cup {<<ProcessOf(t), task'[t].own>>}
  /\ LET p == ProcessOf(t) IN
       \/ kind = "gateway" /\ UNCHANGED held /\ task'[t].own = task[t].own
       \/ /\ held[p] # NoHeld /\ (kind = "session" => held[p].id = task[t].own)
          /\ held[p].count <= 1 /\ Frees(p) /\ task'[t].own = held[p].id

\* A file is removed: one that was judged, or one that was released.
Removes(t) ==
  /\ task[t].pc \in Judged /\ Moves(t) /\ file' = NoLock
  /\ UNCHANGED <<kind, up, starts, held, closing>>
  /\ task'[t].own = 0 /\ task'[t].seen = NoLock
  /\ \/ task'[t].pc = "open" /\ task'[t].proc = task[t].proc
     \/ task'[t].pc = "idle" /\ task'[t].proc = 0
  /\ loose => loose'
  /\ loose' \/ file = NoLock \/ file.id = task[t].seen.id

Closed(c) ==
  /\ c \in closing /\ closing' = closing \ {c} /\ file' = NoLock
  /\ UNCHANGED <<kind, up, starts, held, loose>>
  /\ task' \in [Task -> Tasks]
  /\ \A t \in Task : task'[t] = task[t] \/ (task[t].pc = "release" /\ task'[t] = Idle)

\* The lock is taken from a process; time goes by; a process dies or starts.
Loses(p) ==
  /\ kind = "session" /\ held[p] # NoHeld /\ Frees(p) /\ loose'
  /\ UNCHANGED <<kind, up, starts, task>>
  /\ file' \in {file, NoLock}
  /\ closing' \in {closing, closing \cup {<<p, held[p].id>>}}

Ages ==
  /\ Renews /\ UNCHANGED <<kind, up, starts, task, closing, loose>>
  /\ held' \in [Process -> Held \cup {NoHeld}]
  /\ \A p \in Process : \/ held'[p] = held[p]
                        \/ /\ held[p] # NoHeld /\ held'[p] # NoHeld
                           /\ held'[p].id = held[p].id /\ held'[p].count = held[p].count

Crashes(p) ==
  /\ p \in up /\ up' = up \ {p} /\ Frees(p)
  /\ task' \in [Task -> Tasks]
  /\ \A t \in Task : task'[t] = IF ProcessOf(t) = p THEN Idle ELSE task[t]
  /\ closing' = {c \in closing : c[1] # p}
  /\ UNCHANGED <<kind, file, starts, loose>>

Starts(p) ==
  /\ p \notin up /\ up' = up \cup {p}
  /\ starts' \in [Process -> 0..MaxStarts] /\ starts'[p] = starts[p] + 1
  /\ \A q \in Process \ {p} : starts'[q] = starts[q]
  /\ UNCHANGED <<kind, file, held, task, closing, loose>>

Effect ==
  \/ \E t \in Task : \/ Turns(t) \/ Creates(t) \/ Writes(t) \/ Fails(t) \/ Enters(t)
                     \/ Leaves(t) \/ Closes(t) \/ Removes(t)
                     \/ \E p \in Process : Shares(t, p)
  \/ \E c \in closing : Closed(c)
  \/ Ages
  \/ \E p \in Process : Loses(p) \/ Crashes(p) \/ Starts(p)

-----------------------------------------------------------------------------
\* What the invariant says of a process and its lock.
LEMMA HeldTypes ==
  ASSUME Types
  PROVE  /\ \A p \in Process : held[p] \in Held \cup {NoHeld}
         /\ held \in [Process -> Held \cup {NoHeld}] /\ starts \in [Process -> 0..MaxStarts]
         /\ file \in Files /\ up \subseteq Process /\ loose \in BOOLEAN /\ stamped \in BOOLEAN
         /\ kind \in {"session", "file", "gateway"}
BY LockInstance DEF Types, LockTypeOK, Files

\* Acquire: a lock is shared, or will be asked for.
LEMMA AcquireEffect ==
  ASSUME Types, Placed, NEW t \in Task, NEW p \in Process, Acquire(t, p)
  PROVE  Turns(t) \/ Shares(t, p)
<1> DEFINE n(pc, own) == [Idle EXCEPT !.pc = pc, !.proc = p, !.own = own]
<1>1. /\ task[t] = Idle /\ p \in up /\ UNCHANGED <<kind, file, up, starts, closing, loose>>
      /\ kind = "gateway" => \A u \in Task : task[u].proc # p
  BY DEF Acquire, ProcessOf
<1>2. CASE /\ Shared(p) /\ held' = [held EXCEPT ![p].count = @ + 1]
           /\ task' = [task EXCEPT ![t] = n("hold", held[p].id)]
  <2>1. held[p] \in Held /\ kind # "gateway" /\ held[p] # NoHeld
    BY <1>2, HeldTypes DEF Shared
  <2>2. /\ held' = [held EXCEPT ![p] = [held[p] EXCEPT !.count = held[p].count + 1]]
        /\ task' = [task EXCEPT ![t] = n("hold", held[p].id)]
    BY <1>2
  <2>3. /\ n("hold", held[p].id) \in Tasks /\ n("hold", held[p].id).pc = "hold"
        /\ n("hold", held[p].id).proc = p /\ n("hold", held[p].id).own = held[p].id
        /\ n("hold", held[p].id).seen = NoLock
    BY <2>1, Records DEF Idle, Tasks, Pcs, Files
  <2> DEFINE h == [held[p] EXCEPT !.count = held[p].count + 1]
  <2>4. h \in Held /\ h.id = held[p].id /\ h.count = held[p].count + 1
    BY <2>1 DEF Held
  <2> HIDE DEF n, h
  <2>5. Holds(p, held[p].id, held[p].count + 1)
    BY <2>2, <2>4, HeldTypes, Records DEF Holds, OnlyHeld, h
  <2>6. Moves(t) /\ task'[t] = n("hold", held[p].id)
    BY <2>2, <2>3, NewTask
  <2> QED BY <1>1, <2>1, <2>3, <2>5, <2>6, IdleTask DEF Shares
<1>3. CASE task' = [task EXCEPT ![t] = [Idle EXCEPT !.pc = "open", !.proc = p]] /\ UNCHANGED held
  <2> DEFINE m == [Idle EXCEPT !.pc = "open", !.proc = p]
  <2>1. /\ m \in Tasks /\ m.pc = "open" /\ m.proc = p /\ m.own = 0 /\ m.seen = NoLock
    BY DEF Idle, Tasks, Pcs, Files
  <2>2. task' = [task EXCEPT ![t] = m] /\ UNCHANGED held
    BY <1>3
  <2> HIDE DEF m
  <2>3. Moves(t) /\ task'[t] = m
    BY <2>1, <2>2, NewTask
  <2> QED BY <1>1, <2>1, <2>2, <2>3, IdleTask DEF Turns, Owning, Using, Writing, Judged
<1> QED BY <1>2, <1>3 DEF Acquire

\* Open: a file is created, or is there and will be read.
LEMMA OpenEffect ==
  ASSUME Types, Placed, NEW t \in Task, Open(t)
  PROVE  Turns(t) \/ Creates(t)
<1>1. /\ task[t].pc = "open" /\ UNCHANGED <<kind, up, starts, held, closing, loose>>
      /\ task[t].own = 0 /\ task[t].proc \in up
  BY DEF Open, Placed, Owning, Using, Writing, ProcessOf
<1>2. CASE file = NoLock
  <2> DEFINE n == [task[t] EXCEPT !.pc = "write", !.own = FreshId]
             l == [id |-> FreshId, by |-> ProcessOf(t), start |-> starts[ProcessOf(t)],
                   written |-> FALSE, old |-> FALSE]
  <2>1. FreshId \in LockId /\ FreshId \notin UsedIds
    BY Fresh
  <2>2. /\ n \in Tasks /\ n.pc = "write" /\ n.own = FreshId /\ n.proc = task[t].proc
        /\ n.seen = task[t].seen
    BY <2>1, TaskTypes DEF Tasks, Pcs
  <2>3. task' = [task EXCEPT ![t] = n] /\ file' = l
    BY <1>2 DEF Open
  <2>4. l \in Lock /\ l.id = FreshId /\ l.by = ProcessOf(t) /\ l.start = starts[ProcessOf(t)]
    BY <1>1, <2>1, HeldTypes DEF Lock, ProcessOf
  <2> HIDE DEF n, l
  <2>5. Moves(t) /\ task'[t] = n
    BY <2>2, <2>3, NewTask
  <2> QED BY <1>1, <1>2, <2>1, <2>2, <2>3, <2>4, <2>5 DEF Creates
<1>3. CASE file # NoLock
  <2>1. Goes(t, "read") /\ UNCHANGED file
    BY <1>3, GotoGoes DEF Open, Pcs
  <2> QED BY <1>1, <2>1 DEF Turns, Goes, Owning, Using, Writing, Judged
<1> QED BY <1>2, <1>3

\* The record of a task that begins again or stops.
LEMMA AgainTask ==
  ASSUME Types, NEW t \in Task
  PROVE  /\ Again(t) \in Tasks /\ Again(t).pc = "open" /\ Again(t).seen = NoLock
         /\ Again(t).proc = task[t].proc /\ Again(t).own = task[t].own
BY TaskTypes DEF Again, Tasks, Pcs, Files

\* Write, and its failure.
LEMMA WriteEffects ==
  ASSUME Types, Placed, NEW t \in Task
  PROVE  /\ Write(t) => Writes(t)
         /\ WriteFails(t) => Fails(t)
<1>1. ASSUME Write(t) PROVE Writes(t)
  <2>1. Goes(t, "enter")
    BY <1>1, GotoGoes DEF Write, Pcs
  <2>2. Renews
    <3>1. CASE file.id = task[t].own
      <4>1. task[t].own # 0
        BY <1>1 DEF Write, Placed, Owning, Using, Writing
      <4>2. file \in Lock
        BY <3>1, <4>1, HeldTypes, Records
      <4> DEFINE l == [file EXCEPT !.written = TRUE]
      <4>3. l \in Lock /\ l.id = file.id /\ l.by = file.by /\ l.start = file.start
        BY <4>2 DEF Lock
      <4>4. file' = l
        BY <1>1, <3>1 DEF Write
      <4> HIDE DEF l
      <4> QED BY <4>3, <4>4, Records DEF Renews, Files
    <3>2. CASE file.id # task[t].own
      BY <1>1, <3>2, HeldTypes DEF Write, Renews
    <3> QED BY <3>1, <3>2
  <2> QED BY <1>1, <2>1, <2>2 DEF Write, Writes
<1>2. ASSUME WriteFails(t) PROVE Fails(t)
  <2>1. task[t].pc = "write" /\ UNCHANGED <<kind, file, up, starts, held, loose>>
    BY <1>2 DEF WriteFails
  <2>2. CASE kind = "session"
    <3>1. Goes(t, "release")
      BY <1>2, <2>2, GotoGoes DEF WriteFails, Pcs
    <3> QED BY <1>2, <2>1, <2>2, <3>1 DEF WriteFails, Fails
  <2>3. CASE kind # "session"
    <3>1. Moves(t) /\ task'[t] = Idle
      BY <1>2, <2>3, IdleTask, NewTask DEF WriteFails
    <3> QED BY <1>2, <2>1, <2>3, <3>1 DEF WriteFails, Fails
  <2> QED BY <2>2, <2>3
<1> QED BY <1>1, <1>2

\* Enter: the lock is recorded as held.
LEMMA EnterEffect ==
  ASSUME Types, Placed, NEW t \in Task, Enter(t)
  PROVE  Enters(t)
<1> DEFINE p == ProcessOf(t)
           h == [id |-> task[t].own, count |-> 1, over |-> FALSE]
<1>1. task[t].pc = "enter" /\ p \in Process /\ task[t].own # 0
  BY HeldTypes DEF Enter, Placed, Owning, Using, Writing
<1>2. h \in Held /\ h.id = task[t].own /\ h.count = 1
  BY <1>1, TaskTypes DEF Held
<1>3. IF kind = "gateway" THEN held' = held ELSE held' = [held EXCEPT ![p] = h]
  BY DEF Enter
<1>4. Goes(t, "hold") /\ UNCHANGED <<kind, file, up, starts, closing, loose>>
  BY GotoGoes DEF Enter, Pcs
<1> HIDE DEF h
<1>5. kind # "gateway" => Holds(p, task[t].own, 1)
  BY <1>1, <1>2, <1>3, HeldTypes, Records DEF Holds, OnlyHeld
<1> QED BY <1>1, <1>3, <1>4, <1>5 DEF Enters

\* The file is read; it is judged by what was read, or by its age.
LEMMA JudgeEffects ==
  ASSUME Types, Placed, NEW t \in Task
  PROVE  /\ Read(t) => Turns(t)
         /\ Judge(t) => Turns(t)
         /\ Stat(t) => Turns(t)
         /\ Inspect(t) => Turns(t)
<1> USE DEF Owning, Using, Writing, Judged
<1>1. ASSUME Read(t) PROVE Turns(t)
  <2>1. task[t].pc \in {"read", "sweep"} /\ UNCHANGED <<kind, file, up, starts, held, closing, loose>>
    BY <1>1 DEF Read
  <2> DEFINE n == [task[t] EXCEPT !.pc = IF task[t].pc = "read" THEN "judge" ELSE "inspect",
                                  !.seen = file]
  <2>2. /\ n \in Tasks /\ n.pc \in {"judge", "inspect"} /\ n.seen = file
        /\ n.proc = task[t].proc /\ n.own = task[t].own
    BY <2>1, TaskTypes, HeldTypes DEF Tasks, Pcs
  <2>3. task' = [task EXCEPT ![t] = n]
    BY <1>1 DEF Read
  <2> HIDE DEF n
  <2>4. Moves(t) /\ task'[t] = n
    BY <2>2, <2>3, NewTask
  <2> QED BY <2>1, <2>2, <2>4 DEF Turns, Placed, ProcessOf
<1>2. ASSUME Judge(t) PROVE Turns(t)
  <2> DEFINE l == task[t].seen
  <2>1. PICK v \in Verdicts(t, l) :
          /\ Goto(t, CASE v = "dead" -> "remove" [] v = "live" -> "wait" [] v = "unknown" -> "stat")
          /\ loose' = (loose \/ (v = "dead" /\ Doubtful(t, l)))
    BY <1>2 DEF Judge
  <2> DEFINE pc == CASE v = "dead" -> "remove" [] v = "live" -> "wait" [] v = "unknown" -> "stat"
  <2>2. /\ task[t].pc = "judge" /\ UNCHANGED <<kind, file, up, starts, held, closing>>
        /\ loose' = (loose \/ (v = "dead" /\ Doubtful(t, l)))
    BY <1>2, <2>1 DEF Judge
  <2>3. v \in {"dead", "live", "unknown"}
    BY HeldTypes DEF Verdicts, SessionVerdict, FileVerdict, GatewayVerdicts
  <2>4. v = "dead" => Doubtful(t, l) \/ ~OwnerAlive(l)
    BY HeldTypes DEF Verdicts, SessionVerdict, FileVerdict, GatewayVerdicts, Doubtful, OwnerAlive,
                     PidAlive, Recycled
  <2>5. pc \in {"remove", "wait", "stat"} /\ (pc = "remove" => v = "dead")
    BY <2>3
  <2>6. Goto(t, pc)
    BY <2>1
  <2> HIDE DEF pc
  <2>7. Goes(t, pc)
    BY <2>5, <2>6, GotoGoes DEF Pcs
  <2>8. loose => loose'
    BY <2>2
  <2>9. pc = "remove" => loose' \/ ~OwnerAlive(l)
    BY <2>2, <2>4, <2>5
  <2>10. task'[t].pc \in {"remove", "wait", "stat"} /\ task'[t].seen = l
    BY <2>5, <2>7 DEF Goes
  <2>11. task'[t].pc \in Judged /\ task'[t].seen # NoLock => loose' \/ ~OwnerAlive(task'[t].seen)
    BY <2>7, <2>9, <2>10 DEF Goes
  <2>12. task'[t].proc \in up /\ task'[t].own = 0
    BY <2>2, <2>7 DEF Placed, ProcessOf, Goes
  <2> QED BY <2>2, <2>7, <2>8, <2>10, <2>11, <2>12 DEF Turns, Goes
<1>3. ASSUME Stat(t) PROVE Turns(t)
  <2>1. /\ task[t].pc = "stat" /\ UNCHANGED <<kind, file, up, starts, held, closing>>
        /\ loose' = (loose \/ (file # NoLock /\ StaleByStat))
    BY <1>3 DEF Stat
  <2> DEFINE n == [task[t] EXCEPT !.pc = IF StaleByStat THEN "remove" ELSE "wait", !.seen = file]
  <2>2. /\ n \in Tasks /\ n.pc = (IF StaleByStat THEN "remove" ELSE "wait") /\ n.seen = file
        /\ n.proc = task[t].proc /\ n.own = task[t].own
    BY TaskTypes, HeldTypes DEF Tasks, Pcs
  <2>3. task' = [task EXCEPT ![t] = n]
    BY <1>3 DEF Stat
  <2> HIDE DEF n
  <2>4. Moves(t) /\ task'[t] = n
    BY <2>2, <2>3, NewTask
  <2>5. n.pc \in {"remove", "wait"} /\ (n.pc = "remove" /\ file # NoLock => loose') /\ (loose => loose')
    BY <2>1, <2>2
  <2> QED BY <2>1, <2>2, <2>4, <2>5 DEF Turns, Placed, ProcessOf
<1>4. ASSUME Inspect(t) PROVE Turns(t)
  <2> DEFINE l == task[t].seen
             stale == l = NoLock \/ ~l.written \/ ~PidAlive(l) \/ Recycled(l) \/ l.old
  <2>1. /\ task[t].pc = "inspect" /\ UNCHANGED <<kind, file, up, starts, held, closing>>
        /\ loose' = (loose \/ (stale /\ l # NoLock /\ OwnerAlive(l)))
    BY <1>4 DEF Inspect
  <2>2. task' = [task EXCEPT ![t] = IF stale THEN At(t, "clean") ELSE Idle]
    BY <1>4 DEF Inspect
  <2> HIDE DEF stale
  <2>3. loose => loose'
    BY <2>1
  <2>4. CASE stale
    <3>1. Goes(t, "clean")
      BY <2>2, <2>4, GotoGoes DEF Goto, Pcs
    <3>2. l # NoLock => loose' \/ ~OwnerAlive(l)
      BY <2>1, <2>4
    <3>3. task'[t].seen # NoLock => loose' \/ ~OwnerAlive(task'[t].seen)
      BY <3>1, <3>2 DEF Goes
    <3> QED BY <2>1, <2>3, <3>1, <3>3 DEF Turns, Placed, ProcessOf, Goes
  <2>5. CASE ~stale
    <3>1. Moves(t) /\ task'[t] = Idle
      BY <2>2, <2>5, IdleTask, NewTask
    <3> QED BY <2>1, <2>3, <3>1, IdleTask DEF Turns
  <2> QED BY <2>4, <2>5
<1> QED BY <1>1, <1>2, <1>3, <1>4

\* A task tries again, gives up, or looks at a file of the sessions directory.
LEMMA WaitEffects ==
  ASSUME Types, Placed, NEW t \in Task
  PROVE  /\ Retry(t) => Turns(t)
         /\ GiveUp(t) => Turns(t)
         /\ \A p \in Process : Sweep(t, p) => Turns(t)
<1> USE DEF Owning, Using, Writing, Judged
<1>1. ASSUME Retry(t) PROVE Turns(t)
  <2>1. Moves(t) /\ task'[t] = Again(t)
    BY <1>1, AgainTask, NewTask DEF Retry
  <2> QED BY <1>1, <2>1, AgainTask DEF Retry, Turns, Placed, ProcessOf
<1>2. ASSUME GiveUp(t) PROVE Turns(t)
  <2>1. Moves(t) /\ task'[t] = Idle
    BY <1>2, IdleTask, NewTask DEF GiveUp
  <2> QED BY <1>2, <2>1, IdleTask DEF GiveUp, Turns
<1>3. ASSUME NEW p \in Process, Sweep(t, p) PROVE Turns(t)
  <2> DEFINE m == [Idle EXCEPT !.pc = "sweep", !.proc = p]
  <2>1. /\ m \in Tasks /\ m.pc = "sweep" /\ m.proc = p /\ m.own = 0 /\ m.seen = NoLock
    BY DEF Idle, Tasks, Pcs, Files
  <2>2. task' = [task EXCEPT ![t] = m]
    BY <1>3 DEF Sweep
  <2> HIDE DEF m
  <2>3. Moves(t) /\ task'[t] = m
    BY <2>1, <2>2, NewTask
  <2> QED BY <1>3, <2>1, <2>3, IdleTask DEF Sweep, Turns
<1> QED BY <1>1, <1>2, <1>3

\* Remove: the name goes, whichever file has it.
LEMMA RemoveEffect ==
  ASSUME Types, Placed, NEW t \in Task, Remove(t)
  PROVE  Removes(t)
<1>1. /\ task[t].pc \in Judged /\ file' = NoLock /\ UNCHANGED <<kind, up, starts, held, closing>>
      /\ loose' = (loose \/ (file # NoLock /\ file.id # task[t].seen.id))
  BY DEF Remove, Judged
<1>2. (loose => loose') /\ (loose' \/ file = NoLock \/ file.id = task[t].seen.id)
  BY <1>1
<1>3. CASE task[t].pc = "remove" /\ task' = [task EXCEPT ![t] = Again(t)]
  <2>1. Moves(t) /\ task'[t] = Again(t)
    BY <1>3, AgainTask, NewTask
  <2>2. task[t].own = 0
    BY <1>3 DEF Placed, Owning, Using, Writing
  <2> QED BY <1>1, <1>2, <2>1, <2>2, AgainTask DEF Removes
<1>4. CASE task' = [task EXCEPT ![t] = Idle]
  <2>1. Moves(t) /\ task'[t] = Idle
    BY <1>4, IdleTask, NewTask
  <2> QED BY <1>1, <1>2, <2>1, IdleTask DEF Removes
<1> QED BY <1>3, <1>4 DEF Remove

\* Release, of a gateway's lock or of a shared one.
LEMMA ReleaseEffect ==
  ASSUME Types, Placed, NEW t \in Task, Release(t)
  PROVE  (Leaves(t) \/ Closes(t)) /\ listens' \subseteq listens
<1> DEFINE p == ProcessOf(t)
<1>1. /\ task[t].pc = "hold" /\ p \in Process
      /\ UNCHANGED <<kind, file, up, starts, loose>>
  BY HeldTypes DEF Release, Placed
<1>2. CASE kind = "gateway"
  <2>1. /\ Goes(t, "release") /\ closing' = closing \cup {<<p, task[t].own>>} /\ UNCHANGED held
        /\ listens' = listens \ {p}
    BY <1>2, GotoGoes DEF Release, Pcs
  <2> QED BY <1>1, <1>2, <2>1 DEF Closes, Goes
<1>3. CASE kind # "gateway" /\ Entry(t) = NoHeld
  <2>1. task' = [task EXCEPT ![t] = Idle] /\ UNCHANGED <<held, closing, listens>>
    BY <1>3 DEF Release
  <2>2. Moves(t) /\ task'[t] = Idle
    BY <2>1, IdleTask, NewTask
  <2>3. held[p] = NoHeld \/ (kind = "session" /\ held[p].id # task[t].own)
    BY <1>3 DEF Entry
  <2> QED BY <1>1, <2>1, <2>2, <2>3 DEF Leaves
<1>4. CASE kind # "gateway" /\ Entry(t) # NoHeld
  <2>1. /\ held[p] \in Held /\ held[p] # NoHeld /\ (kind = "session" => held[p].id = task[t].own)
        /\ held[p].count \in Nat /\ held[p].id \in LockId
    BY <1>1, <1>4, HeldTypes, Records DEF Entry
  <2>2. CASE held[p].count > 1
    <3> DEFINE h == [held[p] EXCEPT !.count = held[p].count - 1]
    <3>1. ~(held[p].count <= 1)
      BY <2>1, <2>2
    <3>2. /\ held' = [held EXCEPT ![p] = h] /\ task' = [task EXCEPT ![t] = Idle]
          /\ UNCHANGED <<closing, listens>>
      BY <1>4, <2>2, <3>1 DEF Release
    <3>3. h \in Held /\ h.id = held[p].id /\ h.count = held[p].count - 1
      BY <2>1, <2>2 DEF Held
    <3> HIDE DEF h
    <3>4. Holds(p, held[p].id, held[p].count - 1)
      BY <1>1, <3>2, <3>3, HeldTypes, Records DEF Holds, OnlyHeld
    <3>5. Moves(t) /\ task'[t] = Idle
      BY <3>2, IdleTask, NewTask
    <3> QED BY <1>1, <2>1, <2>2, <3>2, <3>4, <3>5 DEF Leaves
  <2>3. CASE ~(held[p].count > 1)
    <3> DEFINE n == [task[t] EXCEPT !.pc = "release", !.own = held[p].id]
    <3>1. held[p].count <= 1
      BY <2>1, <2>3
    <3>2. /\ held' = [held EXCEPT ![p] = NoHeld] /\ task' = [task EXCEPT ![t] = n]
          /\ closing' = closing \cup {<<p, held[p].id>>} /\ UNCHANGED listens
      BY <1>4, <2>3, <3>1 DEF Release, Drop
    <3>3. /\ n \in Tasks /\ n.pc = "release" /\ n.own = held[p].id /\ n.proc = task[t].proc
          /\ n.seen = task[t].seen
      BY <2>1, TaskTypes DEF Tasks, Pcs
    <3> HIDE DEF n
    <3>4. Moves(t) /\ task'[t] = n
      BY <3>2, <3>3, NewTask
    <3>5. Frees(p)
      BY <1>1, <3>2, HeldTypes DEF Frees, OnlyHeld
    <3> QED BY <1>1, <2>1, <3>1, <3>2, <3>3, <3>4, <3>5 DEF Closes
  <2> QED BY <2>2, <2>3
<1> QED BY <1>2, <1>3, <1>4

\* CloseDone: the file that was released goes, or whatever has its name.
LEMMA CloseEffect ==
  ASSUME Types, NEW c \in closing, CloseDone(c)
  PROVE  Closed(c)
<1>1. task' = [t \in Task |-> IF ProcessOf(t) = c[1] /\ task[t].pc = "release" /\ task[t].own = c[2]
                              THEN Idle ELSE task[t]]
  BY DEF CloseDone
<1>2. task' \in [Task -> Tasks]
  BY <1>1, TaskTypes, IdleTask
<1>3. \A t \in Task : task'[t] = task[t] \/ (task[t].pc = "release" /\ task'[t] = Idle)
  BY <1>1
<1> QED BY <1>2, <1>3 DEF CloseDone, Closed

\* The watchdog and the signal take the lock from a process that may use it.
LEMMA LossEffects ==
  ASSUME Types, NEW p \in Process
  PROVE  /\ Watchdog(p) => Loses(p)
         /\ Signal(p) => Loses(p)
<1>1. held' = [held EXCEPT ![p] = NoHeld] => Frees(p)
  BY HeldTypes DEF Frees, OnlyHeld
<1>2. ASSUME Watchdog(p) PROVE Loses(p)
  BY <1>1, <1>2 DEF Watchdog, Drop, Loses
<1>3. ASSUME Signal(p) PROVE Loses(p)
  BY <1>1, <1>3 DEF Signal, Loses
<1> QED BY <1>2, <1>3

\* Time goes by, and a gateway listens.
LEMMA TimeEffects ==
  ASSUME Types
  PROVE  /\ GrowOld => Ages
         /\ \A p \in Process : Overstay(p) => Ages
         /\ \A t \in Task : Listen(t) => Ages
<1>1. UNCHANGED file => Renews
  BY HeldTypes DEF Renews
<1>2. ASSUME GrowOld PROVE Ages
  <2>1. file \in Lock
    BY <1>2, HeldTypes, Records DEF GrowOld
  <2> DEFINE l == [file EXCEPT !.old = TRUE]
  <2>2. l \in Lock /\ l.id = file.id /\ l.by = file.by /\ l.start = file.start
    BY <2>1 DEF Lock
  <2>3. file' = l /\ UNCHANGED <<kind, up, starts, held, task, closing, loose>>
    BY <1>2 DEF GrowOld
  <2> HIDE DEF l
  <2>4. Renews
    BY <2>2, <2>3, Records DEF Renews, Files
  <2> QED BY <2>3, <2>4, HeldTypes DEF Ages
<1>3. ASSUME NEW p \in Process, Overstay(p) PROVE Ages
  <2>1. held[p] \in Held /\ held[p] # NoHeld
    BY <1>3, HeldTypes DEF Overstay
  <2> DEFINE h == [held[p] EXCEPT !.over = TRUE]
  <2>2. h \in Held /\ h.id = held[p].id /\ h.count = held[p].count
    BY <2>1 DEF Held
  <2>3. held' = [held EXCEPT ![p] = h] /\ UNCHANGED <<kind, file, up, starts, task, closing, loose>>
    BY <1>3 DEF Overstay
  <2> HIDE DEF h
  <2> QED BY <1>1, <2>1, <2>2, <2>3, HeldTypes, Records DEF Ages
<1>4. ASSUME NEW t \in Task, Listen(t) PROVE Ages
  BY <1>1, <1>4, HeldTypes DEF Listen, Ages
<1> QED BY <1>2, <1>3, <1>4

\* A process dies, or starts again.
LEMMA ProcessEffects ==
  ASSUME Types, NEW p \in Process
  PROVE  /\ Crash(p) => Crashes(p)
         /\ Start(p) => Starts(p)
<1>1. ASSUME Crash(p) PROVE Crashes(p)
  <2>1. task' = [t \in Task |-> IF ProcessOf(t) = p THEN Idle ELSE task[t]]
    BY <1>1 DEF Crash
  <2>2. task' \in [Task -> Tasks]
    BY <2>1, TaskTypes, IdleTask
  <2>3. Frees(p)
    BY <1>1, HeldTypes DEF Crash, Frees, OnlyHeld
  <2> QED BY <1>1, <2>1, <2>2, <2>3 DEF Crash, Crashes
<1>2. ASSUME Start(p) PROVE Starts(p)
  <2>1. starts' = [starts EXCEPT ![p] = starts[p] + 1] /\ starts[p] < MaxStarts /\ starts[p] \in 0..MaxStarts
    BY <1>2, HeldTypes DEF Start
  <2>2. starts[p] + 1 \in 0..MaxStarts
    BY <2>1, LockInstance
  <2>3. /\ starts' \in [Process -> 0..MaxStarts] /\ starts'[p] = starts[p] + 1
        /\ \A q \in Process \ {p} : starts'[q] = starts[q]
    BY <2>1, <2>2, HeldTypes
  <2> QED BY <1>2, <2>3 DEF Start, Starts
<1> QED BY <1>1, <1>2

\* Every step has one of the effects.
LEMMA LockEffects ==
  ASSUME Types, Placed, LockNext
  PROVE  Effect
<1>1. ASSUME NEW t \in Task, Advance(t) PROVE Effect
  BY <1>1, OpenEffect, WriteEffects, EnterEffect, JudgeEffects, WaitEffects, RemoveEffect
     DEF Advance, Effect
<1>2. ASSUME NEW t \in Task, WriteFails(t) \/ GiveUp(t) \/ Listen(t) \/ Release(t) PROVE Effect
  BY <1>2, WriteEffects, WaitEffects, TimeEffects, ReleaseEffect DEF Effect
<1>3. ASSUME NEW t \in Task, NEW p \in Process, Acquire(t, p) \/ Sweep(t, p) PROVE Effect
  BY <1>3, AcquireEffect, WaitEffects DEF Effect
<1>4. ASSUME NEW c \in closing, CloseDone(c) PROVE Effect
  BY <1>4, CloseEffect DEF Effect
<1>5. CASE GrowOld
  BY <1>5, TimeEffects DEF Effect
<1>6. ASSUME NEW p \in Process, Watchdog(p) \/ Signal(p) \/ Overstay(p) \/ Crash(p) \/ Start(p)
      PROVE  Effect
  BY <1>6, LossEffects, TimeEffects, ProcessEffects DEF Effect
<1> QED BY <1>1, <1>2, <1>3, <1>4, <1>5, <1>6 DEF LockNext

-----------------------------------------------------------------------------
\* What no effect says: the variables that the invariant does not speak of.
LEMMA Bounded ==
  ASSUME Types, Placed, LockNext
  PROVE  stamped' \in BOOLEAN /\ loose' \in BOOLEAN /\ faults' \in 0..MaxFaults /\ listens' \subseteq up'
<1>1. stamped \in BOOLEAN /\ loose \in BOOLEAN /\ faults \in 0..MaxFaults /\ listens \subseteq up
  BY DEF Types, LockTypeOK
<1> DEFINE Steady == /\ stamped' = stamped /\ loose' \in BOOLEAN
                     /\ faults' = faults \/ (faults < MaxFaults /\ faults' = faults + 1)
<1>2. ASSUME NEW t \in Task, Advance(t) PROVE Steady
  <2>1. CASE Open(t) \/ Write(t) \/ Enter(t) \/ Read(t) \/ Retry(t)
    BY <1>1, <2>1 DEF Open, Write, Enter, Read, Retry
  <2>2. CASE Judge(t) \/ Stat(t) \/ Remove(t) \/ Inspect(t)
    BY <2>2 DEF Judge, Stat, Remove, Inspect
  <2> QED BY <1>2, <2>1, <2>2 DEF Advance
<1>3. ASSUME NEW t \in Task, WriteFails(t) \/ GiveUp(t) \/ Listen(t) \/ Release(t) PROVE Steady
  BY <1>1, <1>3 DEF WriteFails, GiveUp, Listen, Release, Fault
<1>4. ASSUME NEW t \in Task, NEW p \in Process, Acquire(t, p) \/ Sweep(t, p) PROVE Steady
  BY <1>1, <1>4 DEF Acquire, Sweep, Fault
<1>5. ASSUME GrowOld \/ \E c \in closing : CloseDone(c) PROVE Steady
  BY <1>1, <1>5 DEF GrowOld, CloseDone, Fault
<1>6. ASSUME NEW p \in Process, Watchdog(p) \/ Signal(p) \/ Overstay(p) \/ Crash(p) \/ Start(p)
      PROVE  Steady
  BY <1>1, <1>6 DEF Watchdog, Signal, Overstay, Crash, Start, Fault
<1> HIDE DEF Steady
<1>7. Steady
  BY <1>2, <1>3, <1>4, <1>5, <1>6 DEF LockNext
<1>8. stamped' \in BOOLEAN /\ loose' \in BOOLEAN
  BY <1>1, <1>7 DEF Steady
<1>9. faults' \in 0..MaxFaults
  <2>1. faults' = faults \/ (faults < MaxFaults /\ faults' = faults + 1)
    BY <1>7 DEF Steady
  <2> QED BY <1>1, <2>1, LockInstance
<1>10. listens' \subseteq up'
  <2>1. ASSUME NEW t \in Task, Listen(t) PROVE listens' \subseteq up'
    BY <2>1 DEF Listen, Placed
  <2>2. ASSUME NEW t \in Task, Release(t) PROVE listens' \subseteq up'
    <3>1. up' = up
      BY <2>2 DEF Release
    <3> QED BY <1>1, <2>2, <3>1, ReleaseEffect
  <2>3. ASSUME NEW p \in Process, Crash(p) \/ Start(p) PROVE listens' \subseteq up'
    BY <1>1, <2>3 DEF Crash, Start
  <2>4. CASE UNCHANGED <<up, listens>>
    BY <1>1, <2>4
  <2> QED BY <2>1, <2>2, <2>3, <2>4
          DEF LockNext, Advance, Open, Write, Enter, Read, Judge, Stat, Remove, Retry, Inspect,
              WriteFails, GiveUp, Acquire, Sweep, CloseDone, GrowOld, Watchdog, Signal, Overstay
<1> QED BY <1>8, <1>9, <1>10

\* Every effect keeps the types.
LEMMA EffectTypes ==
  ASSUME Types, Placed, Effect
  PROVE  /\ kind' = kind /\ file' \in Files /\ up' \subseteq Process
         /\ starts' \in [Process -> 0..MaxStarts]
         /\ task' \in [Task -> Tasks] /\ held' \in [Process -> Held \cup {NoHeld}]
         /\ closing' \subseteq Process \X LockId /\ IsFiniteSet(closing')
<1> DEFINE Goal == /\ kind' = kind /\ file' \in Files /\ up' \subseteq Process
                   /\ starts' \in [Process -> 0..MaxStarts]
                   /\ task' \in [Task -> Tasks] /\ held' \in [Process -> Held \cup {NoHeld}]
                   /\ closing' \subseteq Process \X LockId /\ IsFiniteSet(closing')
<1> SUFFICES Goal
  OBVIOUS
<1>1. closing \subseteq Process \X LockId /\ IsFiniteSet(closing) /\ task \in [Task -> Tasks]
  BY DEF Types, LockTypeOK
<1>2. \A p \in Process, i \in LockId :
        /\ closing \cup {<<p, i>>} \subseteq Process \X LockId
        /\ IsFiniteSet(closing \cup {<<p, i>>})
  <2> SUFFICES ASSUME NEW p \in Process, NEW i \in LockId
               PROVE  /\ closing \cup {<<p, i>>} \subseteq Process \X LockId
                      /\ IsFiniteSet(closing \cup {<<p, i>>})
    OBVIOUS
  <2>1. closing \cup {<<p, i>>} \subseteq Process \X LockId
    BY <1>1
  <2>2. IsFiniteSet(closing \cup {<<p, i>>})
    BY <1>1, FS_AddElement
  <2> QED BY <2>1, <2>2
<1>3. \A t \in Task : task[t].pc \in Owning => ProcessOf(t) \in Process /\ task[t].own \in LockId
  BY TaskTypes, HeldTypes DEF Placed, ProcessOf, Owning, Using, Writing
<1>4. \A D \in SUBSET closing : D \subseteq Process \X LockId /\ IsFiniteSet(D)
  BY <1>1, FS_Subset
<1>5. ASSUME NEW t \in Task, Turns(t) \/ Removes(t) PROVE Goal
  BY <1>1, <1>5, HeldTypes, Records DEF Turns, Removes, Moves
<1>6. ASSUME NEW t \in Task, Creates(t) PROVE Goal
  BY <1>1, <1>6, HeldTypes DEF Creates, Moves, Files
<1>7. ASSUME NEW t \in Task, Writes(t) PROVE Goal
  BY <1>1, <1>7, HeldTypes DEF Writes, Goes, Moves, Renews
<1>8. ASSUME NEW t \in Task, Fails(t) PROVE Goal
  <2>1. closing' \subseteq Process \X LockId /\ IsFiniteSet(closing')
    BY <1>1, <1>2, <1>3, <1>8 DEF Fails, Owning, Using, Writing
  <2> QED BY <1>8, <2>1, HeldTypes DEF Fails, Goes, Moves
<1>9. ASSUME NEW t \in Task, Enters(t) \/ Leaves(t) \/ \E p \in Process : Shares(t, p) PROVE Goal
  BY <1>1, <1>9, HeldTypes DEF Enters, Leaves, Shares, Goes, Moves, Holds, OnlyHeld
<1>10. ASSUME NEW t \in Task, Closes(t) PROVE Goal
  <2>1. ProcessOf(t) \in Process
    BY <1>3, <1>10 DEF Closes, Owning, Using
  <2>2. task'[t].own \in LockId
    <3>1. CASE task'[t].own = task[t].own
      BY <1>3, <1>10, <3>1 DEF Closes, Owning, Using
    <3>2. CASE task'[t].own = held[ProcessOf(t)].id /\ held[ProcessOf(t)] # NoHeld
      BY <2>1, <3>2, HeldTypes, Records
    <3> QED BY <1>10, <3>1, <3>2 DEF Closes
  <2>3. closing' \subseteq Process \X LockId /\ IsFiniteSet(closing')
    BY <1>2, <1>10, <2>1, <2>2 DEF Closes
  <2> QED BY <1>10, <2>3, HeldTypes DEF Closes, Moves, Frees, OnlyHeld
<1>11. ASSUME NEW c \in closing, Closed(c) PROVE Goal
  BY <1>4, <1>11, HeldTypes, Records DEF Closed
<1>12. CASE Ages
  BY <1>1, <1>12, HeldTypes DEF Ages, Renews
<1>13. ASSUME NEW p \in Process, Loses(p) PROVE Goal
  <2>1. held[p].id \in LockId
    BY <1>13, HeldTypes, Records DEF Loses
  <2>2. closing' \subseteq Process \X LockId /\ IsFiniteSet(closing')
    BY <1>1, <1>2, <1>13, <2>1 DEF Loses
  <2> QED BY <1>1, <1>13, <2>2, HeldTypes, Records DEF Loses, Frees, OnlyHeld
<1>14. ASSUME NEW p \in Process, Crashes(p) PROVE Goal
  <2>1. closing' \in SUBSET closing
    BY <1>14 DEF Crashes
  <2> QED BY <1>4, <1>14, <2>1, HeldTypes DEF Crashes, Frees, OnlyHeld
<1>15. ASSUME NEW p \in Process, Starts(p) PROVE Goal
  BY <1>1, <1>15, HeldTypes DEF Types, Starts
<1> HIDE DEF Goal
<1> QED BY <1>5, <1>6, <1>7, <1>8, <1>9, <1>10, <1>11, <1>12, <1>13, <1>14, <1>15 DEF Effect

\* So every step does.
LEMMA TypesPart ==
  ASSUME Types, Placed, LockNext
  PROVE  Types'
<1>1. /\ kind' \in LockKinds /\ file' \in Files /\ up' \subseteq Process
      /\ starts' \in [Process -> 0..MaxStarts]
      /\ task' \in [Task -> Tasks] /\ held' \in [Process -> Held \cup {NoHeld}]
      /\ closing' \subseteq Process \X LockId /\ IsFiniteSet(closing')
  BY LockEffects, EffectTypes DEF Types, LockTypeOK
<1>2. \A t \in Task : /\ task'[t].pc \in Pcs /\ task'[t].proc \in Process \cup {0}
                      /\ task'[t].own \in LockId \cup {0} /\ task'[t].seen \in Lock \cup {NoLock}
  BY <1>1 DEF Tasks, Files
<1>3. \A p \in Process : held'[p] = NoHeld \/ held'[p] \in Held
  BY <1>1
<1>4. LockTypeOK'
  BY <1>1, <1>2, <1>3, Bounded DEF LockTypeOK, Pcs, Files
<1> QED BY <1>1, <1>4 DEF Types

-----------------------------------------------------------------------------
\* Who is at work belongs to a process that runs.
LEMMA PlacedPart ==
  ASSUME Types, Placed, Effect
  PROVE  Placed'
<1> DEFINE TaskPlaced(t) == /\ task[t].pc = "idle" <=> ProcessOf(t) = 0
                            /\ task[t].pc # "idle" => ProcessOf(t) \in up
                            /\ task[t].pc \in Owning <=> task[t].own # 0
           One == kind = "gateway" => \A t, u \in Task : ProcessOf(t) = ProcessOf(u) /\ ProcessOf(t) # 0 => t = u
           Goal == /\ \A t \in Task : TaskPlaced(t)'
                   /\ \A p \in Process : held'[p] # NoHeld => p \in up' /\ kind' # "gateway"
                   /\ \A c \in closing' : c[1] \in up'
                   /\ One'
<1>1. /\ \A t \in Task : TaskPlaced(t)
      /\ \A p \in Process : held[p] # NoHeld => p \in up /\ kind # "gateway"
      /\ \A c \in closing : c[1] \in up
      /\ One
  BY DEF Placed
<1>2. SUFFICES Goal
  BY DEF Placed
<1> USE DEF Owning, Using, Writing, ProcessOf
<1>3. ASSUME NEW t \in Task, Turns(t) PROVE Goal
  BY <1>1, <1>3, Records, HeldTypes DEF Turns, Moves
<1>4. ASSUME NEW t \in Task, NEW p \in Process, Shares(t, p) PROVE Goal
  BY <1>1, <1>4, Records, HeldTypes DEF Shares, Moves, Holds, OnlyHeld
<1>5. ASSUME NEW t \in Task, Creates(t) PROVE Goal
  BY <1>1, <1>5, Records, HeldTypes DEF Creates, Moves
<1>6. ASSUME NEW t \in Task, Writes(t) PROVE Goal
  BY <1>1, <1>6, Records, HeldTypes DEF Writes, Goes, Moves
<1>7. ASSUME NEW t \in Task, Fails(t) PROVE Goal
  BY <1>1, <1>7, Records, HeldTypes, IdleTask DEF Fails, Goes, Moves
<1>8. ASSUME NEW t \in Task, Enters(t) PROVE Goal
  BY <1>1, <1>8, Records, HeldTypes DEF Enters, Goes, Moves, Holds, OnlyHeld
<1>9. ASSUME NEW t \in Task, Leaves(t) PROVE Goal
  BY <1>1, <1>9, Records, HeldTypes, IdleTask DEF Leaves, Moves, Holds, OnlyHeld
<1>10. ASSUME NEW t \in Task, Closes(t) PROVE Goal
  BY <1>1, <1>10, Records, HeldTypes DEF Closes, Moves, Frees, OnlyHeld
<1>11. ASSUME NEW t \in Task, Removes(t) PROVE Goal
  BY <1>1, <1>11, Records, HeldTypes DEF Removes, Moves, Judged
<1>12. ASSUME NEW c \in closing, Closed(c) PROVE Goal
  BY <1>1, <1>12, IdleTask DEF Closed
<1>13. CASE Ages
  BY <1>1, <1>13 DEF Ages
<1>14. ASSUME NEW p \in Process, Loses(p) PROVE Goal
  BY <1>1, <1>14 DEF Loses, Frees, OnlyHeld
<1>15. ASSUME NEW p \in Process, Crashes(p) PROVE Goal
  BY <1>1, <1>15, IdleTask DEF Crashes, Frees, OnlyHeld
<1>16. ASSUME NEW p \in Process, Starts(p) PROVE Goal
  BY <1>1, <1>16 DEF Starts
<1> HIDE DEF Goal
<1> QED BY <1>2, <1>3, <1>4, <1>5, <1>6, <1>7, <1>8, <1>9, <1>10, <1>11, <1>12, <1>13, <1>14, <1>15, <1>16 DEF Effect

\* A file that was seen is the one with its id that is there.
LEMMA RecordedPart ==
  ASSUME Types, Placed, Recorded, Effect
  PROVE  Recorded'
<1> DEFINE Kept(l) == Begun(l) /\ Same(l)
<1>1. Begun(file) /\ \A t \in Task : Kept(Seen(t))
  BY DEF Recorded
<1>2. Kept(NoLock) /\ Kept(NoLock)' /\ Kept(file)
  BY <1>1 DEF Begun, Same
<1>3. \A t \in Task : Seen(t) \in Files /\ Seen(t).id \in UsedIds
  BY TaskTypes DEF UsedIds, Seen
<1>4. SUFFICES Begun(file)' /\ \A t \in Task : Kept(Seen(t))'
  BY DEF Recorded
<1>5. ASSUME starts' = starts, Renews,
             \A t \in Task : task'[t].seen \in {task[t].seen, file, NoLock}
      PROVE  Begun(file)' /\ \A t \in Task : Kept(Seen(t))'
  BY <1>1, <1>2, <1>5, HeldTypes, Records DEF Renews, Begun, Same, Seen
<1>6. ASSUME starts' = starts, file' = NoLock, \A t \in Task : task'[t].seen \in {task[t].seen, NoLock}
      PROVE  Begun(file)' /\ \A t \in Task : Kept(Seen(t))'
  BY <1>1, <1>3, <1>6, Records DEF Begun, Same, Seen
<1>7. UNCHANGED file => Renews
  BY HeldTypes DEF Renews
<1>8. ASSUME NEW t \in Task, Turns(t) PROVE Begun(file)' /\ \A u \in Task : Kept(Seen(u))'
  BY <1>5, <1>7, <1>8 DEF Turns, Moves
<1>9. ASSUME NEW t \in Task, Creates(t) PROVE Begun(file)' /\ \A u \in Task : Kept(Seen(u))'
  <2>1. ProcessOf(t) \in Process /\ starts[ProcessOf(t)] \in 0..MaxStarts
    BY <1>9, HeldTypes DEF Creates, Placed
  <2>2. Begun(file)'
    BY <1>9, <2>1 DEF Creates, Begun
  <2>3. \A u \in Task : task'[u].seen = task[u].seen
    BY <1>9 DEF Creates, Moves
  <2> QED BY <1>1, <1>3, <1>9, <2>2, <2>3 DEF Creates, Begun, Same, Seen
<1>10. ASSUME NEW t \in Task, Writes(t) PROVE Begun(file)' /\ \A u \in Task : Kept(Seen(u))'
  BY <1>5, <1>10 DEF Writes, Goes, Moves
<1>11. ASSUME NEW t \in Task,
              Fails(t) \/ Enters(t) \/ Leaves(t) \/ Closes(t) \/ \E p \in Process : Shares(t, p)
       PROVE  Begun(file)' /\ \A u \in Task : Kept(Seen(u))'
  <2>1. UNCHANGED <<file, starts>>
    BY <1>11 DEF Fails, Enters, Leaves, Closes, Shares
  <2>2. \A u \in Task : task'[u].seen \in {task[u].seen, file, NoLock}
    BY <1>11, IdleTask DEF Fails, Enters, Leaves, Closes, Shares, Goes, Moves
  <2> QED BY <1>5, <1>7, <2>1, <2>2
<1>12. ASSUME NEW t \in Task, Removes(t) PROVE Begun(file)' /\ \A u \in Task : Kept(Seen(u))'
  BY <1>6, <1>12 DEF Removes, Moves
<1>13. ASSUME NEW c \in closing, Closed(c) PROVE Begun(file)' /\ \A u \in Task : Kept(Seen(u))'
  BY <1>6, <1>13, IdleTask DEF Closed
<1>14. CASE Ages
  BY <1>5, <1>14 DEF Ages
<1>15. ASSUME NEW p \in Process, Loses(p) PROVE Begun(file)' /\ \A u \in Task : Kept(Seen(u))'
  BY <1>5, <1>6, <1>7, <1>15 DEF Loses
<1>16. ASSUME NEW p \in Process, Crashes(p) PROVE Begun(file)' /\ \A u \in Task : Kept(Seen(u))'
  BY <1>5, <1>7, <1>16, IdleTask DEF Crashes
<1>17. ASSUME NEW p \in Process, Starts(p) PROVE Begun(file)' /\ \A u \in Task : Kept(Seen(u))'
  <2>1. \A q \in Process : starts[q] \in Nat /\ starts'[q] \in Nat /\ starts[q] <= starts'[q]
    BY <1>17, HeldTypes, LockInstance DEF Starts
  <2>2. ASSUME NEW l \in Files, Begun(l) PROVE Begun(l)'
    <3> SUFFICES ASSUME l # NoLock PROVE l.start <= starts'[l.by]
      BY DEF Begun
    <3>1. l.by \in Process /\ l.start \in Nat /\ l.start <= starts[l.by]
      BY <2>2, Records DEF Begun
    <3> QED BY <2>1, <3>1
  <2>3. UNCHANGED <<file, task>>
    BY <1>17 DEF Starts
  <2> QED BY <1>1, <1>3, <2>2, <2>3, HeldTypes DEF Begun, Same, Seen
<1> QED BY <1>8, <1>9, <1>10, <1>11, <1>12, <1>13, <1>14, <1>15, <1>16, <1>17 DEF Effect

\* The id of a file that is being written is new.
LEMMA ApartPart ==
  ASSUME Types, Placed, Apart, Effect
  PROVE  Apart'
<1> DEFINE Own(t) == task[t].own
           Alone(t) == /\ \A u \in Task \ {t} : Own(u) # Own(t)
                       /\ \A p \in Process : held[p].id # Own(t)
<1>1. /\ \A t \in Task : task[t].pc \in Writing => Alone(t) /\ Own(t) # 0
      /\ \A p \in Process : held[p].id \in UsedIds
      /\ \A t \in Task : Own(t) \in UsedIds
  BY DEF Apart, Placed, Owning, Using, UsedIds
<1>2. SUFFICES ASSUME NEW u \in Task, task'[u].pc \in Writing
               PROVE  Alone(u)'
  BY DEF Apart
<1> USE DEF Writing
<1>3. ASSUME task[u].pc \in Writing, Own(u)' = Own(u),
             \A v \in Task : Own(v)' \in {Own(v), 0} \cup {held[p].id : p \in Process},
             \A p \in Process : held'[p].id \in {held[p].id, 0}
      PROVE  Alone(u)'
  BY <1>1, <1>3
<1>4. ASSUME NEW t \in Task, Turns(t) \/ Removes(t) PROVE Alone(u)'
  BY <1>1, <1>2, <1>3, <1>4 DEF Turns, Removes, Moves, Owning, Using
<1>5. ASSUME NEW t \in Task, NEW p \in Process, Shares(t, p) PROVE Alone(u)'
  <2>1. task[u].pc \in Writing /\ Own(u)' = Own(u)
    BY <1>2, <1>5 DEF Shares, Moves
  <2>2. \A q \in Process : held'[q].id = held[q].id
    BY <1>5 DEF Shares, Holds, OnlyHeld
  <2>3. \A v \in Task : Own(v)' \in {Own(v), 0} \cup {held[q].id : q \in Process}
    BY <1>5 DEF Shares, Moves
  <2> QED BY <1>3, <2>1, <2>2, <2>3
<1>6. ASSUME NEW t \in Task, Creates(t) PROVE Alone(u)'
  BY <1>1, <1>2, <1>6 DEF Creates, Moves
<1>7. ASSUME NEW t \in Task, Writes(t) PROVE Alone(u)'
  BY <1>2, <1>3, <1>7 DEF Writes, Goes, Moves
<1>8. ASSUME NEW t \in Task, Fails(t) PROVE Alone(u)'
  BY <1>2, <1>3, <1>8, IdleTask DEF Fails, Goes, Moves
<1>9. ASSUME NEW t \in Task, Enters(t) PROVE Alone(u)'
  <2>1. u # t /\ task'[u] = task[u] /\ \A v \in Task : Own(v)' = Own(v)
    BY <1>2, <1>9 DEF Enters, Goes, Moves
  <2>2. \A p \in Process : held'[p].id \in {held[p].id, Own(t)}
    BY <1>9 DEF Enters, Holds, OnlyHeld
  <2> QED BY <1>1, <1>2, <2>1, <2>2
<1>10. ASSUME NEW t \in Task, Leaves(t) PROVE Alone(u)'
  <2>1. \A p \in Process : held'[p].id = held[p].id
    BY <1>10 DEF Leaves, Holds, OnlyHeld
  <2> QED BY <1>2, <1>3, <1>10, <2>1, IdleTask DEF Leaves, Moves
<1>11. ASSUME NEW t \in Task, Closes(t) PROVE Alone(u)'
  <2>1. ProcessOf(t) \in Process
    BY <1>11, HeldTypes DEF Closes, Placed
  <2>2. \A p \in Process : held'[p].id \in {held[p].id, 0}
    BY <1>11, Records DEF Closes, Frees, OnlyHeld
  <2>3. \A v \in Task : Own(v)' \in {Own(v), 0} \cup {held[p].id : p \in Process}
    BY <1>11, <2>1 DEF Closes, Moves
  <2>4. task[u].pc \in Writing /\ Own(u)' = Own(u)
    BY <1>2, <1>11 DEF Closes, Moves
  <2> QED BY <1>3, <2>2, <2>3, <2>4
<1>12. ASSUME NEW c \in closing, Closed(c) PROVE Alone(u)'
  BY <1>2, <1>3, <1>12, IdleTask DEF Closed
<1>13. CASE Ages
  BY <1>2, <1>3, <1>13 DEF Ages
<1>14. ASSUME NEW p \in Process, Loses(p) PROVE Alone(u)'
  BY <1>2, <1>3, <1>14, Records DEF Loses, Frees, OnlyHeld
<1>15. ASSUME NEW p \in Process, Crashes(p) PROVE Alone(u)'
  BY <1>2, <1>3, <1>15, Records, IdleTask DEF Crashes, Frees, OnlyHeld
<1>16. ASSUME NEW p \in Process, Starts(p) PROVE Alone(u)'
  BY <1>2, <1>3, <1>16 DEF Starts
<1> QED BY <1>4, <1>5, <1>6, <1>7, <1>8, <1>9, <1>10, <1>11, <1>12, <1>13, <1>14, <1>15, <1>16 DEF Effect

-----------------------------------------------------------------------------
\* The tasks that hold a lock are finite in number.
LEMMA HoldersFinite ==
  ASSUME NEW p, NEW i
  PROVE  IsFiniteSet(Holders(p, i)) /\ Cardinality(Holders(p, i)) \in Nat
<1>1. Holders(p, i) \in SUBSET Task
  BY DEF Holders
<1>2. IsFiniteSet(Holders(p, i))
  BY <1>1, LockInstance, FS_Subset
<1> QED BY <1>2, FS_CardinalityType

\* The count of a shared lock is the number of its holders.
LEMMA CountedPart ==
  ASSUME Types, Placed, Apart, Counted, ~loose => Firm, Effect, loose => loose'
  PROVE  Counted'
<1> SUFFICES ASSUME NEW p \in Process, held'[p] # NoHeld, kind' = "session" \/ ~loose'
             PROVE  /\ held'[p].count = Cardinality(Holders(p, held[p].id)')
                    /\ held'[p].count > 0
  BY DEF Counted, CountOf
<1>1. p # 0 /\ (kind' = kind => kind = "session" \/ ~loose)
  BY Records
<1>2. held[p] # NoHeld /\ kind' = kind =>
        held[p].count = Cardinality(Holders(p, held[p].id)) /\ held[p].count > 0
  BY <1>1 DEF Counted, CountOf
<1> DEFINE Goal == /\ held'[p].count = Cardinality(Holders(p, held[p].id)')
                   /\ held'[p].count > 0
<1> SUFFICES Goal
  OBVIOUS
\* The holders and the count stay as they are.
<1>3. ASSUME kind' = kind, held[p] # NoHeld, held'[p].id = held[p].id, held'[p].count = held[p].count,
             \A t \in Task : task'[t].pc = "hold" /\ task'[t].proc = p /\ task'[t].own = held[p].id
                        <=> task[t].pc = "hold" /\ task[t].proc = p /\ task[t].own = held[p].id
      PROVE  Goal
  <2>1. Holders(p, held[p].id)' = Holders(p, held[p].id)
    BY <1>3 DEF Holders, ProcessOf
  <2> QED BY <1>2, <1>3, <2>1
<1> USE DEF Owning, Using, Writing
<1>4. ASSUME NEW t \in Task, Turns(t) PROVE Goal
  BY <1>3, <1>4 DEF Turns, Moves
<1>5. ASSUME NEW t \in Task, NEW q \in Process, Shares(t, q) PROVE Goal
  <2>1. CASE q # p
    BY <1>3, <1>5, <2>1 DEF Shares, Moves, Holds, OnlyHeld
  <2>2. CASE q = p
    <3> DEFINE H == Holders(p, held[p].id)
    <3>1. held'[p].id = held[p].id /\ held'[p].count = held[p].count + 1
      BY <1>5, <2>2 DEF Shares, Holds
    <3>2. Holders(p, held[p].id)' = H \cup {t} /\ t \notin H
      BY <1>5, <2>2, <3>1 DEF Shares, Moves, Holders, ProcessOf
    <3>3. IsFiniteSet(H) /\ Cardinality(H) \in Nat
      BY HoldersFinite
    <3> HIDE DEF H
    <3>4. Cardinality(H \cup {t}) = Cardinality(H) + 1
      BY <3>2, <3>3, FS_AddElement
    <3>5. held[p].count = Cardinality(H)
      BY <1>2, <1>5, <2>2 DEF Shares, H
    <3> QED BY <3>1, <3>2, <3>3, <3>4, <3>5
  <2> QED BY <2>1, <2>2
<1>6. ASSUME NEW t \in Task, Creates(t) \/ Writes(t) PROVE Goal
  BY <1>3, <1>6 DEF Creates, Writes, Goes, Moves
<1>7. ASSUME NEW t \in Task, Fails(t) PROVE Goal
  BY <1>3, <1>7, IdleTask DEF Fails, Goes, Moves
<1>8. ASSUME NEW t \in Task, Enters(t) PROVE Goal
  <2>1. /\ task'[t].pc = "hold" /\ task'[t].proc = task[t].proc /\ task'[t].own = task[t].own
        /\ task[t].pc = "enter" /\ \A u \in Task \ {t} : task'[u] = task[u]
    BY <1>8 DEF Enters, Goes, Moves
  <2>2. CASE kind # "gateway" /\ ProcessOf(t) = p
    <3>1. held'[p].id = task[t].own /\ held'[p].count = 1
      BY <1>8, <2>2 DEF Enters, Holds
    <3>2. \A u \in Task \ {t} : task[u].own # task[t].own
      BY <2>1 DEF Apart
    <3>3. Holders(p, held[p].id)' = {t}
      BY <2>1, <2>2, <3>1, <3>2 DEF Holders, ProcessOf
    <3>4. Cardinality({t}) = 1
      BY FS_Singleton
    <3> QED BY <3>1, <3>3, <3>4
  <2>3. CASE kind # "gateway" /\ ProcessOf(t) # p
    BY <1>3, <1>8, <2>1, <2>3 DEF Enters, Holds, OnlyHeld, ProcessOf
  <2>4. CASE kind = "gateway"
    BY <1>8, <2>4 DEF Enters, Placed
  <2> QED BY <2>2, <2>3, <2>4
<1>9. ASSUME NEW t \in Task, Leaves(t) PROVE Goal
  <2> DEFINE q == ProcessOf(t)
  <2>1. /\ task[t].pc = "hold" /\ task'[t].pc = "idle" /\ UNCHANGED <<kind, file, loose>>
        /\ \A u \in Task \ {t} : task'[u] = task[u]
    BY <1>9, IdleTask DEF Leaves, Moves
  <2>2. CASE UNCHANGED held /\ (held[q] = NoHeld \/ (kind = "session" /\ held[q].id # task[t].own))
    <3>1. ProcessOf(t) # p \/ task[t].own # held[p].id
      BY <2>2
    <3> QED BY <1>3, <2>1, <2>2, <3>1 DEF ProcessOf
  <2>3. CASE /\ held[q] # NoHeld /\ (kind = "session" => held[q].id = task[t].own)
             /\ held[q].count > 1 /\ Holds(q, held[q].id, held[q].count - 1)
    <3>1. CASE q # p
      BY <1>3, <2>1, <2>3, <3>1 DEF Holds, OnlyHeld, ProcessOf
    <3>2. CASE q = p
      <4> DEFINE H == Holders(p, held[p].id)
      <4>1. held'[p].id = held[p].id /\ held'[p].count = held[p].count - 1
        BY <2>3, <3>2 DEF Holds
      <4>2. held[p].id = task[t].own
        <5>1. CASE kind = "session"
          BY <2>3, <3>2, <5>1
        <5>2. CASE kind # "session"
          BY <1>1, <2>1, <2>3, <3>2, <5>2 DEF Firm, Has
        <5> QED BY <5>1, <5>2
      <4>3. Holders(p, held[p].id)' = H \ {t} /\ t \in H
        BY <2>1, <3>2, <4>1, <4>2 DEF Holders, ProcessOf
      <4>4. IsFiniteSet(H) /\ Cardinality(H) \in Nat
        BY HoldersFinite
      <4> HIDE DEF H
      <4>5. Cardinality(H \ {t}) = Cardinality(H) - 1
        BY <4>3, <4>4, FS_RemoveElement
      <4>6. held[p].count = Cardinality(H) /\ held[p].count > 1
        BY <1>2, <2>1, <2>3, <3>2 DEF H
      <4> QED BY <4>1, <4>3, <4>4, <4>5, <4>6
    <3> QED BY <3>1, <3>2
  <2> QED BY <1>9, <2>2, <2>3 DEF Leaves
<1>10. ASSUME NEW t \in Task, Closes(t) PROVE Goal
  <2>1. ProcessOf(t) # p
    BY <1>10 DEF Closes, Frees, Placed
  <2> QED BY <1>3, <1>10, <2>1 DEF Closes, Moves, Frees, OnlyHeld, ProcessOf
<1>11. ASSUME NEW t \in Task, Removes(t) PROVE Goal
  BY <1>3, <1>11 DEF Removes, Moves, Judged
<1>12. ASSUME NEW c \in closing, Closed(c) PROVE Goal
  BY <1>3, <1>12, IdleTask DEF Closed
<1>13. CASE Ages
  BY <1>3, <1>13 DEF Ages
<1>14. ASSUME NEW q \in Process, Loses(q) PROVE Goal
  BY <1>3, <1>14 DEF Loses, Frees, OnlyHeld
<1>15. ASSUME NEW q \in Process, Crashes(q) PROVE Goal
  BY <1>1, <1>3, <1>15, IdleTask DEF Crashes, Frees, OnlyHeld, ProcessOf
<1>16. ASSUME NEW q \in Process, Starts(q) PROVE Goal
  BY <1>3, <1>16 DEF Starts
<1> HIDE DEF Goal
<1> QED BY <1>4, <1>5, <1>6, <1>7, <1>8, <1>9, <1>10, <1>11, <1>12, <1>13, <1>14, <1>15, <1>16 DEF Effect

-----------------------------------------------------------------------------
\* A step that leaves the file and its owner alone, moves one task at most and
\* lets it use nothing, keeps the lock firm.
LEMMA FirmPart ==
  ASSUME Types, Placed, Recorded, Apart, Counted, Firm, Effect, ~loose, ~loose'
  PROVE  Firm'
<1> DEFINE Task1 == \A t \in Task : task[t].pc \in Using => Has(ProcessOf(t), task[t].own)
           Held1 == \A p \in Process : held[p] # NoHeld => Has(p, held[p].id)
           Close1 == /\ \A c \in closing : Has(c[1], c[2])
                     /\ closing # {} => /\ \A t \in Task : task[t].pc \notin Using
                                        /\ \A p \in Process : held[p] = NoHeld
           Gone1 == \A t \in Task : task[t].pc \in Judged /\ Seen(t) # NoLock => ~OwnerAlive(Seen(t))
           Goal == Task1' /\ Held1' /\ Close1' /\ Gone1'
<1>1. Task1 /\ Held1 /\ Close1 /\ Gone1
  BY DEF Firm, Judged
<1>2. SUFFICES Goal
  BY DEF Firm, Judged
<1>3. UNCHANGED <<file, up, starts>> =>
        \A p, i : Has(p, i) => Has(p, i)'
  BY DEF Has, OwnerAlive
<1>4. UNCHANGED <<up, starts>> => \A l : ~OwnerAlive(l) => ~OwnerAlive(l)'
  BY DEF OwnerAlive
<1>5. \A p, i : Has(p, i) => file.id = i /\ file.by = p
  BY DEF Has
<1> USE DEF Owning, Using, Writing, Seen, ProcessOf, Judged, Has, OwnerAlive
\* When nobody has the file, nobody uses or removes it.
<1>0. ASSUME ~\E p \in Process, i \in LockId : Has(p, i)
      PROVE  /\ \A u \in Task : task[u].pc \notin Using
             /\ \A p \in Process : held[p] = NoHeld
             /\ closing = {}
  <2>1. \A u \in Task : task[u].pc \in Using => task[u].proc \in Process /\ task[u].own \in LockId
    BY TaskTypes, HeldTypes DEF Placed
  <2>2. \A p \in Process : held[p] # NoHeld => held[p].id \in LockId
    BY HeldTypes, Records
  <2>3. \A c \in closing : c[1] \in Process /\ c[2] \in LockId
    BY DEF Types, LockTypeOK
  <2> QED BY <1>0, <1>1, <2>1, <2>2, <2>3
<1>6. ASSUME NEW t \in Task, Turns(t) PROVE Goal
  <2>1. /\ UNCHANGED <<file, up, starts, held, closing>> /\ \A u \in Task \ {t} : task'[u] = task[u]
        /\ task'[t].pc \notin Using /\ task[t].pc \notin Using
    BY <1>6 DEF Turns, Moves
  <2>2. Task1' /\ Held1' /\ Close1'
    BY <1>1, <1>3, <2>1
  <2>3. task'[t].pc \in Judged /\ task'[t].seen # NoLock => ~OwnerAlive(task'[t].seen)
    BY <1>6 DEF Turns
  <2>4. task'[t].pc \in Judged /\ task'[t].seen # NoLock => ~OwnerAlive(Seen(t))'
    BY <2>1, <2>3 DEF OwnerAlive
  <2>5. Gone1'
    BY <1>1, <1>4, <2>1, <2>4
  <2> QED BY <2>2, <2>5
<1>7. ASSUME NEW t \in Task, NEW p \in Process, Shares(t, p) PROVE Goal
  <2>1. /\ UNCHANGED <<file, up, starts, closing>> /\ \A u \in Task \ {t} : task'[u] = task[u]
        /\ task'[t].pc = "hold" /\ task'[t].proc = p /\ task'[t].own = held[p].id
        /\ held[p] # NoHeld /\ held'[p].id = held[p].id
        /\ \A q \in Process \ {p} : held'[q] = held[q]
    BY <1>7 DEF Shares, Moves, Holds, OnlyHeld
  <2>2. Task1' /\ Held1'
    BY <1>1, <1>3, <2>1
  <2>3. closing = {}
    BY <1>1, <2>1
  <2>4. Close1' /\ Gone1'
    BY <1>1, <1>4, <2>1, <2>3
  <2> QED BY <2>2, <2>4
<1>8. ASSUME NEW t \in Task, Creates(t) PROVE Goal
  <2>1. /\ UNCHANGED <<up, starts, held, closing>> /\ \A u \in Task \ {t} : task'[u] = task[u]
        /\ task[t].pc = "open" /\ task'[t].pc = "write" /\ task'[t].own = file'.id
        /\ task'[t].proc = task[t].proc /\ task'[t].seen = task[t].seen
        /\ file = NoLock /\ file'.by = ProcessOf(t) /\ file'.start = starts[ProcessOf(t)]
    BY <1>8 DEF Creates, Moves
  <2>3. /\ \A u \in Task : task[u].pc \notin Using
        /\ \A p \in Process : held[p] = NoHeld
        /\ closing = {}
    BY <1>0, <2>1, Records DEF Has, LockId
  <2>4. ProcessOf(t) \in up
    BY <2>1 DEF Placed
  <2>5. Has(ProcessOf(t), task[t].own)'
    BY <2>1, <2>4 DEF Has, OwnerAlive
  <2> QED BY <1>1, <1>4, <2>1, <2>3, <2>5
<1>9. Renews /\ UNCHANGED <<up, starts>> => \A p, i : Has(p, i) /\ i # 0 => Has(p, i)'
  BY Records DEF Renews, Has, OwnerAlive
<1>10. /\ \A t \in Task : task[t].pc \in Using => task[t].own # 0
       /\ \A p \in Process : held[p] # NoHeld => held[p].id # 0
       /\ \A c \in closing : c[2] # 0
  BY HeldTypes, Records DEF Placed, Types, LockTypeOK, LockId
<1>11. ASSUME NEW t \in Task, Writes(t) PROVE Goal
  <2>1. /\ Renews /\ UNCHANGED <<up, starts, held, closing>> /\ \A u \in Task \ {t} : task'[u] = task[u]
        /\ task[t].pc = "write" /\ task'[t].pc = "enter" /\ task'[t].own = task[t].own
        /\ task'[t].proc = task[t].proc /\ task'[t].seen = task[t].seen
    BY <1>11 DEF Writes, Goes, Moves
  <2> QED BY <1>1, <1>4, <1>9, <1>10, <2>1
<1>12. ASSUME NEW t \in Task, Fails(t) PROVE Goal
  <2>1. /\ UNCHANGED <<file, up, starts, held>> /\ \A u \in Task \ {t} : task'[u] = task[u]
        /\ task[t].pc = "write" /\ task'[t].pc \in {"release", "idle"}
    BY <1>12, IdleTask DEF Fails, Goes, Moves
  <2>2. closing = {} /\ Has(ProcessOf(t), task[t].own)
    BY <1>1, <2>1
  <2>3. \A u \in Task \ {t} : task[u].pc \notin Using
    BY <1>1, <1>5, <2>1, <2>2 DEF Apart
  <2>4. \A p \in Process : held[p] = NoHeld
    BY <1>1, <1>5, <2>1, <2>2 DEF Apart
  <2>5. \A c \in closing' : c = <<ProcessOf(t), task[t].own>>
    BY <1>12, <2>2 DEF Fails
  <2> QED BY <1>1, <1>3, <1>4, <2>1, <2>2, <2>3, <2>4, <2>5
<1>13. ASSUME NEW t \in Task, Enters(t) PROVE Goal
  <2>1. /\ UNCHANGED <<file, up, starts, closing>> /\ \A u \in Task \ {t} : task'[u] = task[u]
        /\ task[t].pc = "enter" /\ task'[t].pc = "hold" /\ task'[t].own = task[t].own
        /\ task'[t].proc = task[t].proc /\ task'[t].seen = task[t].seen
    BY <1>13 DEF Enters, Goes, Moves
  <2>2. closing = {} /\ Has(ProcessOf(t), task[t].own)
    BY <1>1, <2>1
  <2>3. \A p \in Process : held'[p] = held[p] \/ (p = ProcessOf(t) /\ held'[p].id = task[t].own)
    BY <1>13 DEF Enters, Holds, OnlyHeld
  <2>4. Held1'
    BY <1>1, <1>3, <2>1, <2>2, <2>3
  <2> QED BY <1>1, <1>3, <1>4, <2>1, <2>2, <2>4
<1>14. ASSUME NEW t \in Task, Leaves(t) PROVE Goal
  <2>1. /\ UNCHANGED <<file, up, starts, closing>> /\ \A u \in Task \ {t} : task'[u] = task[u]
        /\ task[t].pc = "hold" /\ task'[t].pc = "idle"
    BY <1>14, IdleTask DEF Leaves, Moves
  <2>2. \A p \in Process : held'[p] = held[p] \/ (held[p] # NoHeld /\ held'[p].id = held[p].id)
    BY <1>14 DEF Leaves, Holds, OnlyHeld
  <2>3. closing = {}
    BY <1>1, <2>1
  <2>4. Held1'
    BY <1>1, <1>3, <2>1, <2>2
  <2> QED BY <1>1, <1>3, <1>4, <2>1, <2>3, <2>4
<1>15. ASSUME NEW t \in Task, Closes(t) PROVE Goal
  <2> DEFINE p == ProcessOf(t)
  <2>1. /\ UNCHANGED <<file, up, starts>> /\ \A u \in Task \ {t} : task'[u] = task[u]
        /\ task[t].pc = "hold" /\ task'[t].pc = "release"
    BY <1>15 DEF Closes, Moves
  <2>2. closing = {} /\ Has(p, task[t].own) /\ p \in Process
    BY <1>1, <2>1, HeldTypes DEF Placed
  <2>3. CASE kind = "gateway" /\ UNCHANGED held /\ task'[t].own = task[t].own
    <3>1. \A u \in Task \ {t} : task[u].pc \notin Using
      BY <1>1, <1>5, <2>2, <2>3, Records DEF Placed
    <3>2. \A q \in Process : held'[q] = NoHeld
      BY <2>3 DEF Placed
    <3> QED BY <1>1, <1>3, <1>4, <1>15, <2>1, <2>2, <2>3, <3>1, <3>2 DEF Closes
  <2>4. CASE held[p] # NoHeld /\ held[p].count <= 1 /\ Frees(p) /\ task'[t].own = held[p].id
    <3> DEFINE H == Holders(p, held[p].id)
    <3>1. Has(p, held[p].id) /\ held[p].id = task[t].own
      BY <1>1, <1>5, <2>2, <2>4
    <3>2. held[p].count = Cardinality(H) /\ held[p].count > 0
      BY <2>2, <2>4 DEF Counted, CountOf
    <3>3. t \in H /\ IsFiniteSet(H) /\ Cardinality(H) \in Nat
      <4>1. t \in H
        BY <2>1, <3>1 DEF Holders
      <4> QED BY <4>1, HoldersFinite
    <3>4. \A u \in Task : task[u].pc = "hold" => u \in H
      BY <1>1, <1>5, <3>1 DEF Holders
    <3> HIDE DEF H
    <3>5. \A u \in H : u = t
      <4> SUFFICES ASSUME NEW u \in H, u # t PROVE FALSE
        OBVIOUS
      <4>1. {t, u} \in SUBSET H
        BY <3>3
      <4>2. Cardinality({t, u}) = 2 /\ Cardinality({t, u}) <= Cardinality(H)
        <5>1. IsFiniteSet({t}) /\ Cardinality({t}) = 1
          BY FS_Singleton
        <5>2. u \notin {t} /\ Cardinality({t} \cup {u}) = Cardinality({t}) + 1
          BY <5>1, FS_AddElement
        <5>3. {t} \cup {u} = {t, u}
          OBVIOUS
        <5>4. Cardinality({t, u}) <= Cardinality(H)
          BY <3>3, <4>1, FS_Subset
        <5> QED BY <5>1, <5>2, <5>3, <5>4
      <4> QED BY <2>4, <3>2, <3>3, <4>2
    <3>6. \A u \in Task \ {t} : task[u].pc \notin Using
      <4>1. \A u \in Task : task[u].pc \notin Writing
        <5> SUFFICES ASSUME NEW u \in Task, task[u].pc \in Writing PROVE FALSE
          OBVIOUS
        <5>1. file.id = task[u].own /\ file.id = held[p].id
          BY <1>1, <3>1
        <5> QED BY <2>2, <5>1 DEF Apart
      <4> QED BY <3>4, <3>5, <4>1
    <3>7. \A q \in Process : held'[q] = NoHeld
      BY <1>1, <1>5, <2>4, <3>1 DEF Frees, OnlyHeld
    <3>8. \A c \in closing' : c = <<p, held[p].id>>
      BY <1>15, <2>2, <2>4 DEF Closes
    <3> QED BY <1>1, <1>3, <1>4, <2>1, <3>1, <3>6, <3>7, <3>8
  <2> QED BY <1>15, <2>3, <2>4 DEF Closes
<1>16. ASSUME NEW t \in Task, Removes(t) PROVE Goal
  <2>1. /\ UNCHANGED <<up, starts, held, closing>> /\ \A u \in Task \ {t} : task'[u] = task[u]
        /\ task[t].pc \in Judged /\ task'[t].pc \in {"open", "idle"} /\ task'[t].seen = NoLock
        /\ (file = NoLock \/ file.id = task[t].seen.id)
    BY <1>16 DEF Removes, Moves
  <2>2. file = NoLock \/ ~OwnerAlive(file)
    <3> SUFFICES ASSUME file # NoLock PROVE ~OwnerAlive(file)
      OBVIOUS
    <3>1. Seen(t) # NoLock /\ Seen(t).id = file.id
      BY <2>1, HeldTypes, Records
    <3>2. Seen(t).by = file.by /\ Seen(t).start = file.start
      BY <3>1 DEF Recorded, Same
    <3> QED BY <1>1, <2>1, <3>1, <3>2 DEF OwnerAlive
  <2>3. ~\E p \in Process, i \in LockId : Has(p, i)
    BY <2>2, Records DEF Has, LockId
  <2> QED BY <1>0, <1>1, <1>4, <2>1, <2>3
<1>17. ASSUME NEW c \in closing, Closed(c) PROVE Goal
  <2>1. \A d \in closing : d = c
    <3>1. \A d \in closing : d = <<d[1], d[2]>>
      BY DEF Types, LockTypeOK
    <3>2. \A d \in closing : d[1] = c[1] /\ d[2] = c[2]
      BY <1>1, <1>5
    <3> QED BY <3>1, <3>2
  <2>2. /\ closing' = {} /\ UNCHANGED <<up, starts, held>>
        /\ \A t \in Task : task'[t] = task[t] \/ (task[t].pc = "release" /\ task'[t].pc = "idle")
    BY <1>17, <2>1, IdleTask DEF Closed
  <2> QED BY <1>1, <1>4, <2>2
<1>18. ASSUME Ages PROVE Goal
  <2>1. /\ Renews /\ UNCHANGED <<up, starts, task, closing>>
        /\ \A p \in Process : \/ held'[p] = held[p]
                              \/ held[p] # NoHeld /\ held'[p] # NoHeld /\ held'[p].id = held[p].id
    BY <1>18 DEF Ages
  <2> QED BY <1>1, <1>4, <1>9, <1>10, <2>1
<1>19. ASSUME NEW p \in Process, Crashes(p) PROVE Goal
  <2>1. /\ UNCHANGED <<file, starts>> /\ up' = up \ {p}
        /\ \A u \in Task : (task'[u] = task[u] /\ task[u].proc # p) \/ task'[u].pc = "idle"
        /\ held'[p] = NoHeld /\ \A q \in Process \ {p} : held'[q] = held[q]
        /\ closing' = {c \in closing : c[1] # p}
    BY <1>19, IdleTask DEF Crashes, Frees, OnlyHeld
  <2>2. \A q, i : Has(q, i) /\ q # p => Has(q, i)'
    BY <2>1 DEF Has, OwnerAlive
  <2>3. \A l : ~OwnerAlive(l) => ~OwnerAlive(l)'
    BY <2>1 DEF OwnerAlive
  <2> QED BY <1>1, <2>1, <2>2, <2>3
<1>20. ASSUME NEW p \in Process, Starts(p) PROVE Goal
  <2>1. /\ UNCHANGED <<file, held, task, closing>> /\ p \notin up /\ up' = up \cup {p}
        /\ starts'[p] = starts[p] + 1 /\ \A q \in Process \ {p} : starts'[q] = starts[q]
    BY <1>20 DEF Starts
  <2>2. \A q, i : Has(q, i) => Has(q, i)'
    BY <2>1, HeldTypes DEF Has, OwnerAlive
  <2>3. ASSUME NEW t \in Task, Seen(t) # NoLock, ~OwnerAlive(Seen(t)) PROVE ~OwnerAlive(Seen(t))'
    <3> DEFINE l == task[t].seen
    <3>1. l.by \in Process /\ l.start <= starts[l.by] /\ starts[l.by] \in Nat /\ l.start \in Nat
      <4>1. l \in Lock /\ l.start <= starts[l.by]
        BY <2>3, TaskTypes, Records DEF Recorded, Begun
      <4>2. l.by \in Process /\ l.start \in 0..MaxStarts
        BY <4>1, Records
      <4>3. starts[l.by] \in 0..MaxStarts
        BY <4>2, HeldTypes
      <4> QED BY <4>1, <4>2, <4>3, LockInstance
    <3>2. CASE l.by = p
      BY <2>1, <3>1, <3>2 DEF OwnerAlive
    <3>3. CASE l.by # p
      BY <2>1, <2>3, <3>1, <3>3 DEF OwnerAlive
    <3> QED BY <3>2, <3>3
  <2> QED BY <1>1, <2>1, <2>2, <2>3
<1>21. ASSUME NEW p \in Process, Loses(p) PROVE Goal
  BY <1>21 DEF Loses
<1> HIDE DEF Goal
<1> QED BY <1>2, <1>6, <1>7, <1>8, <1>11, <1>12, <1>13, <1>14, <1>15, <1>16, <1>17, <1>18, <1>19,
           <1>20, <1>21 DEF Effect

-----------------------------------------------------------------------------
\* Nobody has the lock at first, and there is no file.
LEMMA LockInitInv == LockInit => LockInv
<1> SUFFICES ASSUME LockInit PROVE LockInv
  OBVIOUS
<1>1. /\ \A t \in Task : task[t] = Idle
      /\ \A p \in Process : held[p] = NoHeld /\ starts[p] = 0
      /\ file = NoLock /\ closing = {} /\ listens = {} /\ up = Process /\ loose = FALSE
  BY DEF LockInit
<1>2. Types
  <2>1. task \in [Task -> Tasks] /\ held \in [Process -> Held \cup {NoHeld}]
    BY IdleTask DEF LockInit
  <2>2. starts \in [Process -> 0..MaxStarts] /\ faults \in 0..MaxFaults
    BY LockInstance DEF LockInit
  <2>3. kind \in LockKinds /\ stamped \in BOOLEAN
    BY DEF LockInit
  <2>4. IsFiniteSet(closing)
    BY <1>1, FS_EmptySet
  <2>5. LockTypeOK
    BY <1>1, <2>2, <2>3, IdleTask DEF LockTypeOK
  <2> QED BY <2>1, <2>4, <2>5 DEF Types
<1>3. Placed
  BY <1>1, IdleTask, Records DEF Placed, ProcessOf, Owning, Using, Writing
<1>4. Recorded
  BY <1>1, IdleTask DEF Recorded, Begun, Same, Seen
<1>5. Apart /\ Counted /\ Firm
  BY <1>1, IdleTask DEF Apart, Counted, CountOf, Firm, Writing, Using
<1> QED BY <1>2, <1>3, <1>4, <1>5 DEF LockInv

\* And every step keeps the invariant.
LEMMA LockStep == LockInv /\ [LockNext]_lockVars => LockInv'
<1> SUFFICES ASSUME LockInv, [LockNext]_lockVars PROVE LockInv'
  OBVIOUS
<1>1. CASE LockNext
  <2> USE DEF LockInv
  <2>1. Effect
    BY <1>1, LockEffects
  <2>2. Types' /\ Placed' /\ Recorded' /\ Apart'
    BY <1>1, <2>1, TypesPart, PlacedPart, RecordedPart, ApartPart
  <2>3. loose => loose'
    BY <2>1 DEF Effect, Turns, Shares, Creates, Writes, Fails, Enters, Leaves, Closes, Removes, Closed,
                Ages, Loses, Crashes, Starts
  <2>4. Counted'
    BY <2>1, <2>3, CountedPart
  <2>5. ~loose' => Firm'
    BY <2>1, <2>3, FirmPart
  <2> QED BY <2>2, <2>4, <2>5
<1>2. CASE UNCHANGED lockVars
  <2> USE <1>2 DEF lockVars
  <2>1. Types'
    BY DEF LockInv, Types, LockTypeOK
  <2>2. Placed' /\ Recorded' /\ Apart'
    BY DEF LockInv, Placed, Recorded, Apart, ProcessOf, Begun, Same, Seen
  <2>3. Counted'
    BY DEF LockInv, Counted, CountOf, Holders, ProcessOf
  <2>4. ~loose' => Firm'
    BY DEF LockInv, Firm, Has, OwnerAlive, ProcessOf, Seen
  <2> QED BY <2>1, <2>2, <2>3, <2>4 DEF LockInv
<1> QED BY <1>1, <1>2

\* The invariant holds in every reachable state.
LEMMA LockInvariant == LockSpec => []LockInv
BY LockInitInv, LockStep, PTL DEF LockSpec

\* The state is well formed, and the count of a shared lock is the number of the
\* tasks that hold it, so that no release but the last one removes the file.
THEOREM CountIsHolders == LockSpec => []LocksInv
<1>1. LockInv => LocksInv
  BY DEF LockInv, Types, Counted, CountOf, LocksInv
<1> QED BY <1>1, LockInvariant, PTL

\* Unless the code has taken a lock from a process that may use it, a task that
\* holds the lock has the lock file.
THEOREM HolderHasTheFile == LockSpec => []HolderHasFile
<1>1. LockInv => HolderHasFile
  BY DEF LockInv, Firm, Has, Using, HolderHasFile
<1> QED BY <1>1, LockInvariant, PTL
=============================================================================
