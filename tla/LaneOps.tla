------------------------------- MODULE LaneOps -------------------------------
(***************************************************************************)
(* The state of one command lane (process/command-queue.ts, LaneState) and *)
(* the synchronous operations on it, as operators on a record.  Command-   *)
(* Queue and the modules that run work through lanes share them.           *)
(*                                                                         *)
(* Two fields of the code are represented by less than the code keeps:     *)
(*   - activeTaskIds holds numbers drawn once per dequeued entry; an entry *)
(*     is dequeued once, so the entry itself stands for its task id;       *)
(*   - `draining` is true only inside the synchronous extent of drainLane  *)
(*     (its try/finally clears it), so it is false in every state between  *)
(*     two callbacks and is not represented.                               *)
(***************************************************************************)
EXTENDS Integers, Sequences, FiniteSets

\* A lane as getLaneState creates it: idle, one task at a time.
IdleLane ==
  [queue |-> <<>>, active |-> {}, maxConcurrent |-> 1, generation |-> 0]

LaneState(Entry) ==
  [queue : Seq(Entry), active : SUBSET Entry,
   maxConcurrent : Nat \ {0}, generation : Nat]

Elements(q) == {q[i] : i \in DOMAIN q}

Smaller(a, b) == IF a <= b THEN a ELSE b

\* Mutant of AtLeastOne: the configured limit is taken as it is.
AtLeastOne_Unclamped(n) == n

\* Math.max(1, Math.floor(n)), for the whole numbers configuration may hold.
AtLeastOne(n) == IF n < 1 THEN 1 ELSE n

\* Mutant of FreeSlots: the loop's `<` written as `<=`.
FreeSlots_OneTooMany(s) ==
  IF Cardinality(s.active) <= s.maxConcurrent
    THEN Smaller(s.maxConcurrent - Cardinality(s.active) + 1, Len(s.queue))
    ELSE 0

\* How many entries the pump loop starts before its condition fails.
FreeSlots(s) ==
  IF Cardinality(s.active) < s.maxConcurrent
    THEN Smaller(s.maxConcurrent - Cardinality(s.active), Len(s.queue))
    ELSE 0

\* Mutant of Startable: entries are popped off the back.
Startable_Pop(s) == {s.queue[Len(s.queue) + 1 - i] : i \in 1..FreeSlots(s)}

\* The entries the pump loop shifts off the queue and starts, oldest first.
Startable(s) == {s.queue[i] : i \in 1..FreeSlots(s)}

\* drainLane / pump: start queued entries while the lane has a free slot.
Pump(s) ==
  [s EXCEPT !.queue  = SubSeq(@, FreeSlots(s) + 1, Len(@)),
            !.active = @ \union Startable(s)]

\* The entry pushed by enqueueCommandInLane, before it drains the lane.
Push(s, e) == [s EXCEPT !.queue = Append(@, e)]

\* completeTask for a task of the lane's current generation.
Complete(s, e) == [s EXCEPT !.active = @ \ {e}]

\* clearCommandLane: the queued entries are dropped, active tasks go on.
Clear(s) == [s EXCEPT !.queue = <<>>]

\* Mutants of Reset: the active ids are kept; the queue is thrown away too.
Reset_KeepsActive(s) == [s EXCEPT !.generation = @ + 1]
Reset_DropsQueue(s) ==
  [s EXCEPT !.generation = @ + 1, !.active = {}, !.queue = <<>>]

\* The first pass of resetAllLanes: forget the tasks of the old lifecycle.
Reset(s) == [s EXCEPT !.generation = @ + 1, !.active = {}]

=============================================================================
