------------------------ MODULE DeliveryQueueProofs ------------------------
(***************************************************************************)
(* Safety of the delivery queue, for any messages, payloads, retries and   *)
(* server starts.                                                          *)
(*                                                                         *)
(* A message that no recovery took from other hands has one holder at most *)
(* (OneHolder): the worker that is at work on it, or the recovery that has *)
(* read its entry.  What is on disk changes in that holder's steps only,   *)
(* so what it knows of the entry is true (Entries), and an entry leaves    *)
(* the queue when its message has been sent or put aside (Whole).          *)
(***************************************************************************)
EXTENDS DeliveryQueue, WellFoundedInduction, TLAPS

Points == {"idle", "over", "write", "send", "sendUnqueued", "ack", "unlink", "fail", "rewrite",
           "move", "list", "read", "next"}

\* Where a worker is while it is at work on its message.
Active == {"write", "send", "sendUnqueued", "ack", "unlink", "fail", "rewrite", "move"}

\* Where it has the entry of its message in the queue.
Queued == {"send", "ack", "fail", "rewrite", "move"}

Busy(w, m) == Msg(w) = m /\ work[w].at \in Active
Planned(k, m) == \E e \in plan[k] : e.message = m
Holds(w, m) == Busy(w, m) \/ \E k \in Recovery : w = Recover(k) /\ Planned(k, m)

Shape ==
  /\ DeliveryTypeOK
  /\ sent \in [Message -> SUBSET Nat]
  /\ \A w \in Worker : work[w].payload >= 1
  /\ \A m \in Message : Msg(Live(m)) = m /\ work[Live(m)].at \notin {"list", "read", "next", "move"}
  /\ \A k \in Recovery : work[Recover(k)].at \notin {"write", "sendUnqueued"}

\* Nothing is done to a message before it is accepted, and what is not written
\* to the queue is sent without an entry.
Known ==
  /\ json \cup failed \cup acked \subseteq accepted
  /\ \A k \in Recovery : \A m \in Message : Holds(Recover(k), m) => m \in accepted
  /\ \A m \in Message :
       /\ work[Live(m)].at \in {"idle", "write", "sendUnqueued"} => m \notin accepted
       /\ work[Live(m)].at \in Queued => m \in accepted
       /\ m \notin accepted => retries[m] = 0

\* A recovery reads each file once, and has an entry or works on it, not both.
PlanOf(k) ==
  /\ k > starts => work[Recover(k)].at = "idle"
  /\ work[Recover(k)].at \in {"idle", "over", "list"} => plan[k] = {}
  /\ \A e, f \in plan[k] : e.message = f.message => e = f
  /\ \A e \in plan[k] :
       /\ work[Recover(k)].at = "read" => [message |-> e.message, json |-> TRUE] \notin listed[k]
       /\ ~Busy(Recover(k), e.message)

Plans == \A k \in Recovery : PlanOf(k)

OneHolder ==
  \A m \in Message \ shared : \A v, w \in Worker : Holds(v, m) /\ Holds(w, m) => v = w

\* What is known of the entry of message m, and of the job of worker w on one:
\* it is in the queue as long as nothing has been decided, with retries left.
EntryOf(m) ==
  /\ m \in json => m \notin acked \cup failed
  /\ retries[m] <= MaxRetries

JobOf(w) ==
  /\ work[w].at \in Queued => Msg(w) \in json
  /\ work[w].at \in Queued \ {"move"} => retries[Msg(w)] < MaxRetries
  /\ work[w].at = "rewrite" => work[w].count = retries[Msg(w)] + 1

Entries ==
  /\ PlanIsFresh
  /\ \A m \in Message \ shared : EntryOf(m)
  /\ \A w \in Worker : Msg(w) \notin shared => JobOf(w)

\* What worker w has sent of its message: all the payloads before the one it is
\* at, and all there are when it acknowledges the message.
SentBy(w) ==
  Msg(w) \notin bestEffort =>
    /\ work[w].at \in {"idle", "write", "send", "sendUnqueued"} =>
         1..(work[w].payload - 1) \subseteq sent[Msg(w)]
    /\ work[w].at = "ack" /\ Msg(w) \notin aborted => sent[Msg(w)] = 1..Payloads[Msg(w)]

Whole == NotLost /\ \A w \in Worker : SentBy(w)

QueueInv == Shape /\ Known /\ Plans /\ OneHolder /\ Entries /\ Whole

-----------------------------------------------------------------------------
\* A worker is the delivery of a message or a recovery.
LEMMA Workers ==
  /\ \A m \in Message : Live(m) \in Worker /\ Live(m)[1] = "live" /\ Live(m)[2] = m
  /\ \A k \in Recovery :
       Recover(k) \in Worker /\ Recover(k)[1] = "recovery" /\ Recover(k)[2] = k
  /\ \A w \in Worker : \/ w[1] = "live" /\ w[2] \in Message /\ w = Live(w[2])
                       \/ w[1] = "recovery" /\ w[2] \in Recovery /\ w = Recover(w[2])
BY DEF Worker, Live, Recover

Jobs == [at : Points, message : Message, payload : Nat, partial : BOOLEAN, count : Nat]

\* What the type invariant says of the workers.
LEMMA WorkTypes ==
  ASSUME DeliveryTypeOK
  PROVE  /\ work \in [Worker -> Jobs]
         /\ \A w \in Worker :
              /\ work[w] \in Jobs /\ work[w].at \in Points /\ work[w].message \in Message
              /\ work[w].payload \in Nat /\ work[w].partial \in BOOLEAN /\ work[w].count \in Nat
<1>1. work \in [Worker -> Jobs]
  BY DEF DeliveryTypeOK, Jobs, Points
<1> QED BY <1>1 DEF Jobs

\* Only worker w moves; it goes on at b; or begins at b anew, with message m.
Moves(w) == work' \in [Worker -> Jobs] /\ \A v \in Worker \ {w} : work'[v] = work[v]

Goes(w, b) ==
  /\ Moves(w)
  /\ work'[w].at = b /\ work'[w].message = work[w].message

Anew(w, b, m) ==
  /\ Moves(w)
  /\ work'[w].at = b /\ work'[w].message = m /\ work'[w].payload = 1

\* A worker that goes on keeps its payload; one that ends begins anew.
LEMMA GotoGoes ==
  ASSUME DeliveryTypeOK, NEW w \in Worker, NEW b \in Points, Goto(w, b)
  PROVE  Goes(w, b) /\ work'[w].payload = work[w].payload
BY WorkTypes DEF Goto, Goes, Moves, Jobs

\* A new job for worker w.
LEMMA NewJob ==
  ASSUME DeliveryTypeOK, NEW w \in Worker, NEW b \in Points, NEW m \in Message,
         work' = [work EXCEPT ![w] = Job(b, m)]
  PROVE  Anew(w, b, m)
<1>1. Job(b, m) \in Jobs /\ Job(b, m).at = b /\ Job(b, m).message = m /\ Job(b, m).payload = 1
  BY DEF Job, Jobs
<1> QED BY <1>1, WorkTypes DEF Anew, Moves

\* A delivery that ends is over; a recovery goes on with its next entry.
LEMMA EndedGoes ==
  ASSUME DeliveryTypeOK, NEW w \in Worker, Ended(w)
  PROVE  /\ Goes(w, IF w[1] = "live" THEN "over" ELSE "next")
         /\ work'[w].payload = 1
<1> DEFINE b == IF w[1] = "live" THEN "over" ELSE "next"
           n == Job(b, Msg(w))
<1>1. work' = [work EXCEPT ![w] = n]
  BY DEF Ended, Over
<1>2. n \in Jobs /\ n.at = b /\ n.message = work[w].message /\ n.payload = 1
  BY WorkTypes DEF Job, Jobs, Points, Msg
<1> HIDE DEF n, b
<1> QED BY <1>1, <1>2, WorkTypes DEF Goes, Moves, b

-----------------------------------------------------------------------------
\* What a step of worker w on message m may do, to whatever the properties tell
\* apart: the eleven effects below.
QuietDisk == UNCHANGED <<json, retries, failed, accepted, acked>>

\* A live delivery begins; writes its entry; or goes on without one.
Begins(w) ==
  /\ w[1] = "live" /\ work[w].at = "idle" /\ Goes(w, "write")
  /\ work'[w].payload = work[w].payload
  /\ QuietDisk /\ UNCHANGED <<sent, aborted>>

Accepts(w) ==
  /\ w[1] = "live" /\ work[w].at = "write" /\ Goes(w, "send")
  /\ work'[w].payload = work[w].payload
  /\ json' = json \cup {Msg(w)} /\ accepted' = accepted \cup {Msg(w)}
  /\ UNCHANGED <<retries, failed, acked, sent, aborted>>

Refuses(w) ==
  /\ w[1] = "live" /\ work[w].at = "write" /\ Goes(w, "sendUnqueued")
  /\ work'[w].payload = work[w].payload
  /\ QuietDisk /\ UNCHANGED <<sent, aborted>>

\* A payload is sent, or a best-effort message goes on without it.
Talks(w) ==
  /\ Sending(w) /\ Goes(w, work[w].at)
  /\ work'[w].payload = work[w].payload + 1
  /\ \/ /\ work[w].payload <= Payloads[Msg(w)]
        /\ sent' = [sent EXCEPT ![Msg(w)] = @ \cup {work[w].payload}]
     \/ Msg(w) \in bestEffort /\ sent' = sent
  /\ QuietDisk /\ UNCHANGED aborted

\* The sending is over, with success or given up; or it has failed, or the
\* acknowledgement has.
Acknowledges(w) ==
  /\ work[w].at = "send" /\ Goes(w, "ack")
  /\ work'[w].payload = work[w].payload
  /\ work[w].payload > Payloads[Msg(w)] \/ Msg(w) \in aborted'
  /\ QuietDisk /\ UNCHANGED sent

Turns(w) ==
  /\ work[w].at \in {"send", "ack"}
  /\ Goes(w, "fail") \/ (w[1] = "recovery" /\ Goes(w, "move"))
  /\ work[w].at = "ack" => Goes(w, "fail")
  /\ work'[w].payload = work[w].payload
  /\ QuietDisk /\ UNCHANGED <<sent, aborted>>

\* The entry is read to count the failure, and written back; or it is removed,
\* or put aside.
Counts(w) ==
  /\ work[w].at = "fail" /\ Goes(w, "rewrite")
  /\ work'[w].payload = work[w].payload
  /\ work'[w].count = retries[Msg(w)] + 1
  /\ QuietDisk /\ UNCHANGED <<sent, aborted>>

EndsAt(w) == Goes(w, IF w[1] = "live" THEN "over" ELSE "next") /\ work'[w].payload = 1

Rewrites(w) ==
  /\ work[w].at = "rewrite" /\ EndsAt(w)
  /\ json' = json \cup {Msg(w)}
  /\ retries' = [retries EXCEPT ![Msg(w)] = work[w].count]
  /\ UNCHANGED <<failed, accepted, acked, sent, aborted>>

Removes(w) ==
  /\ work[w].at = "ack" /\ Goes(w, "unlink")
  /\ work'[w].payload = work[w].payload
  /\ json' = json \ {Msg(w)} /\ acked' = acked \cup {Msg(w)}
  /\ UNCHANGED <<retries, failed, accepted, sent, aborted>>

PutsAside(w) ==
  /\ work[w].at = "move" /\ EndsAt(w)
  /\ Msg(w) \in json /\ json' = json \ {Msg(w)} /\ failed' = failed \cup {Msg(w)}
  /\ UNCHANGED <<retries, accepted, acked, sent, aborted>>

\* Nothing more is done.
Leaves(w) ==
  /\ work[w].at \in Active \ {"write"} /\ EndsAt(w)
  /\ QuietDisk /\ UNCHANGED sent

Effect(w) ==
  /\ UNCHANGED <<bestEffort, starts, listed, plan, shared>>
  /\ marker' \subseteq Message /\ aborted \subseteq aborted' /\ aborted' \subseteq Message
  /\ \/ Begins(w) \/ Accepts(w) \/ Refuses(w) \/ Talks(w) \/ Acknowledges(w) \/ Turns(w)
     \/ Counts(w) \/ Rewrites(w) \/ Removes(w) \/ PutsAside(w) \/ Leaves(w)

\* The steps of a worker have these effects and no other.
LEMMA Effects ==
  ASSUME Shape, NEW w \in Worker,
         \/ WorkerStep(w)
         \/ \E m \in Message : w = Live(m) /\ (Deliver(m) \/ EnqueueDelivery(m) \/ Abort(m))
  PROVE  Effect(w)
<1>1. /\ DeliveryTypeOK /\ marker \subseteq Message /\ aborted \subseteq Message
      /\ Msg(w) \in Message
  BY WorkTypes DEF Shape, DeliveryTypeOK, Msg
<1>2. w[1] \in {"live", "recovery"}
  BY Workers
<1>3. work[w].at = "sendUnqueued" => w[1] = "live"
  BY Workers DEF Shape
<1>4. \A b \in Points : Goto(w, b) => Goes(w, b) /\ work'[w].payload = work[w].payload
  BY <1>1, GotoGoes
<1>5. Ended(w) => EndsAt(w)
  BY <1>1, EndedGoes DEF EndsAt
<1>6. Sending(w) => work[w].at \in {"send", "sendUnqueued"}
  BY DEF Sending, At
<1>7. ASSUME Caught(w), Sending(w), QuietDisk, UNCHANGED <<sent, aborted>>
      PROVE  Turns(w) \/ Leaves(w)
  <2>1. CASE work[w].at = "sendUnqueued"
    BY <1>3, <1>5, <1>7, <2>1 DEF Caught, At, Leaves, Active
  <2>2. CASE work[w].at = "send"
    BY <1>2, <1>4, <1>7, <2>2 DEF Caught, At, Turns, Points
  <2> QED BY <1>6, <1>7, <2>1, <2>2
<1>8. CASE \E m \in Message : w = Live(m) /\ Deliver(m)
  BY <1>1, <1>4, <1>8, Workers DEF Deliver, At, Effect, Begins, disk, history, QuietDisk, Points
<1>9. CASE \E m \in Message : w = Live(m) /\ EnqueueDelivery(m)
  <2>1. PICK m \in Message : w = Live(m) /\ EnqueueDelivery(m)
    BY <1>9
  <2>2. Msg(w) = m /\ w[1] = "live"
    BY <2>1, Workers DEF Shape
  <2> QED BY <1>1, <1>4, <2>1, <2>2
          DEF EnqueueDelivery, At, Effect, Accepts, Refuses, QuietDisk, Points
<1>10. CASE \E m \in Message : w = Live(m) /\ Abort(m)
  <2>1. PICK m \in Message : w = Live(m) /\ Abort(m)
    BY <1>10
  <2>2. Msg(w) = m /\ w[1] = "live"
    BY <2>1, Workers DEF Shape
  <2>3. Sending(w) /\ aborted' = aborted \cup {m}
    BY <2>1 DEF Abort, HasPayload
  <2>4. CASE work[w].at = "send"
    BY <1>1, <1>4, <2>1, <2>2, <2>3, <2>4
       DEF Abort, At, Effect, Acknowledges, QuietDisk, disk, Points
  <2>5. CASE work[w].at = "sendUnqueued"
    BY <1>1, <1>5, <2>1, <2>2, <2>3, <2>5
       DEF Abort, At, Effect, Leaves, Active, QuietDisk, disk
  <2> QED BY <1>6, <2>3, <2>4, <2>5
<1>11. CASE SendPayload(w) \/ PayloadFails(w)
  <2>1. Goes(w, work[w].at) /\ work'[w].payload = work[w].payload + 1
    BY <1>1, <1>11, WorkTypes DEF SendPayload, PayloadFails, Goes, Moves, Jobs
  <2>2. Sending(w) /\ work[w].payload <= Payloads[Msg(w)]
    BY <1>11 DEF SendPayload, PayloadFails, HasPayload
  <2> QED BY <1>1, <1>11, <2>1, <2>2
          DEF SendPayload, PayloadFails, Effect, Talks, QuietDisk, disk, history
<1>12. CASE DeliveryThrows(w)
  BY <1>1, <1>7, <1>12 DEF DeliveryThrows, Effect, QuietDisk, disk, history
<1>13. CASE Delivered(w)
  <2>1. CASE work[w].at = "sendUnqueued"
    BY <1>1, <1>5, <1>13, <2>1 DEF Delivered, At, Effect, Leaves, Active, QuietDisk, disk, history
  <2>2. CASE work[w].at = "send"
    BY <1>1, <1>4, <1>13, <2>2
       DEF Delivered, At, Effect, Acknowledges, Turns, QuietDisk, disk, history, Points
  <2> QED BY <1>6, <1>13, <2>1, <2>2 DEF Delivered
<1>14. CASE AckDelivery(w)
  <2>1. marker' \subseteq Message /\ work[w].at = "ack"
    BY <1>1, <1>14 DEF AckDelivery, At
  <2> QED BY <1>1, <1>2, <1>4, <1>5, <1>14, <2>1
          DEF AckDelivery, Effect, Removes, Leaves, Turns, Active, QuietDisk, Points
<1>15. CASE UnlinkMarker(w)
  BY <1>1, <1>5, <1>15 DEF UnlinkMarker, At, Effect, Leaves, Active, QuietDisk, history
<1>16. CASE FailDelivery(w)
  <2>1. CASE work' = [work EXCEPT ![w].at = "rewrite", ![w].count = retries[Msg(w)] + 1]
    <3>1. retries[Msg(w)] + 1 \in Nat
      BY <1>1 DEF DeliveryTypeOK
    <3>2. /\ Goes(w, "rewrite") /\ work'[w].payload = work[w].payload
          /\ work'[w].count = retries[Msg(w)] + 1
      BY <1>1, <2>1, <3>1, WorkTypes DEF Goes, Moves, Jobs, Points
    <3> QED BY <1>1, <1>16, <3>2 DEF FailDelivery, At, Effect, Counts, QuietDisk, disk, history
  <2>2. CASE Ended(w)
    BY <1>1, <1>5, <1>16, <2>2
       DEF FailDelivery, At, Effect, Leaves, Active, QuietDisk, disk, history
  <2> QED BY <1>16, <2>1, <2>2 DEF FailDelivery
<1>17. CASE RewriteEntry(w)
  BY <1>1, <1>5, <1>17 DEF RewriteEntry, At, Effect, Rewrites, Leaves, Active, QuietDisk, history
<1>18. CASE MoveToFailed(w)
  BY <1>1, <1>5, <1>18 DEF MoveToFailed, At, Effect, PutsAside, Leaves, Active, QuietDisk, history
<1> QED BY <1>8, <1>9, <1>10, <1>11, <1>12, <1>13, <1>14, <1>15, <1>16, <1>17, <1>18
        DEF WorkerStep

-----------------------------------------------------------------------------
\* What the type invariant says of the plans.
LEMMA PlanTypes ==
  ASSUME DeliveryTypeOK, NEW k \in Recovery, NEW e \in plan[k]
  PROVE  e.message \in Message /\ e.retries \in Nat /\ e \in Entry
<1>1. e \in Entry
  BY DEF DeliveryTypeOK
<1> QED BY <1>1 DEF Entry

\* A plan that is not empty has an oldest entry: the message numbers are
\* well-founded.
LEMMA OldestIsPlanned ==
  ASSUME DeliveryTypeOK, NEW k \in Recovery, plan[k] # {}
  PROVE  Oldest(k) \in plan[k]
<1> DEFINE Less == {p \in Nat \X Nat : p[1] < p[2]}
           T == {e.message : e \in plan[k]}
<1>1. IsWellFoundedOn(Less, Nat)
  BY NatLessThanWellFounded DEF OpToRel
<1>2. \A e \in plan[k] : e.message \in Nat
  BY PlanTypes, Messages
<1>3. T \subseteq Nat /\ T # {}
  BY <1>2
<1> HIDE DEF Less, T
<1>4. PICK x \in T : \A y \in T : <<y, x>> \notin Less
  BY <1>1, <1>3, WFMin
<1>5. \A y \in T : x <= y
  <2>1. \A i, j \in Nat : <<i, j>> \notin Less => j <= i
    BY DEF Less
  <2> QED BY <1>3, <1>4, <2>1
<1>6. PICK e \in plan[k] : e.message = x
  BY <1>4 DEF T
<1>7. \A f \in plan[k] : e.message <= f.message
  BY <1>5, <1>6 DEF T
<1> QED BY <1>7 DEF Oldest

\* What a step of recovery k may do.
RecoveryFrame ==
  /\ UNCHANGED <<bestEffort, json, retries, failed, starts, sent, accepted, aborted, acked>>
  /\ marker' \subseteq Message

\* It lists the directory; has read what it has listed.
Lists(k) ==
  /\ At(Recover(k), "list") /\ Goes(Recover(k), "read")
  /\ work'[Recover(k)].payload = work[Recover(k)].payload
  /\ listed' = [listed EXCEPT ![k] = Files]
  /\ UNCHANGED <<plan, shared>>

HasRead(k) ==
  /\ At(Recover(k), "read") /\ Goes(Recover(k), "next")
  /\ work'[Recover(k)].payload = work[Recover(k)].payload
  /\ UNCHANGED <<listed, plan, shared>>

\* It reads a file, or takes one off its listing.
Reads(k, m) ==
  LET file == [message |-> m, json |-> TRUE] IN
    /\ At(Recover(k), "read") /\ file \in listed[k] /\ m \in json
    /\ listed' = [listed EXCEPT ![k] = @ \ {file}]
    /\ plan' = [plan EXCEPT ![k] = @ \cup {[message |-> m, retries |-> retries[m]]}]
    /\ shared \subseteq shared' /\ shared' \subseteq shared \cup {m}
    /\ m \notin shared' => ~InOtherHands(k, m)
    /\ UNCHANGED work

Skips(k, f) ==
  /\ listed' = [listed EXCEPT ![k] = @ \ {f}]
  /\ shared \subseteq shared' /\ shared' \subseteq Message
  /\ UNCHANGED <<work, plan>>

\* It takes up an entry it has read, or leaves entries for another time.
Takes(k, e) ==
  /\ At(Recover(k), "next") /\ e \in plan[k]
  /\ plan' = [plan EXCEPT ![k] = @ \ {e}]
  /\ Anew(Recover(k), TakesUp(e), e.message)
  /\ UNCHANGED <<listed, shared>>

Defers(k, e) ==
  /\ At(Recover(k), "next") /\ e \in plan[k]
  /\ plan' = [plan EXCEPT ![k] = @ \ {e}]
  /\ UNCHANGED <<work, listed, shared>>

Stops(k) ==
  /\ At(Recover(k), "next")
  /\ plan' = [plan EXCEPT ![k] = {}]
  /\ Anew(Recover(k), "over", NoMessage)
  /\ UNCHANGED <<listed, shared>>

RecoveryEffect(k) ==
  /\ RecoveryFrame
  /\ \/ Lists(k) \/ HasRead(k) \/ Stops(k)
     \/ \E m \in Message : Reads(k, m) \/ \E j \in BOOLEAN : Skips(k, [message |-> m, json |-> j])
     \/ \E e \in plan[k] : Takes(k, e) \/ Defers(k, e)

\* Every step of a recovery has one of the effects.
LEMMA RecoveryEffects ==
  ASSUME Shape, NEW k \in Recovery, RecoveryStep(k)
  PROVE  RecoveryEffect(k)
<1>1. DeliveryTypeOK /\ Recover(k) \in Worker /\ marker \subseteq Message /\ shared \subseteq Message
  BY Workers DEF Shape, DeliveryTypeOK
<1>2. \A b \in Points : Goto(Recover(k), b) =>
        Goes(Recover(k), b) /\ work'[Recover(k)].payload = work[Recover(k)].payload
  BY <1>1, GotoGoes
<1>3. CASE ListFiles(k)
  BY <1>1, <1>2, <1>3
     DEF ListFiles, RecoveryEffect, RecoveryFrame, Lists, disk, history, Points
<1>4. CASE AllRead(k)
  BY <1>1, <1>2, <1>4
     DEF AllRead, RecoveryEffect, RecoveryFrame, HasRead, disk, history, Points
<1>5. ASSUME NEW m \in Message, CleanMarker(k, m)
      PROVE  RecoveryEffect(k)
  <2>1. Skips(k, [message |-> m, json |-> FALSE])
    BY <1>1, <1>5 DEF CleanMarker, Skips, history
  <2>2. RecoveryFrame
    BY <1>1, <1>5 DEF CleanMarker, RecoveryFrame, history
  <2> QED BY <2>1, <2>2 DEF RecoveryEffect
<1>6. ASSUME NEW m \in Message, ReadEntry(k, m)
      PROVE  RecoveryEffect(k)
  <2> DEFINE file == [message |-> m, json |-> TRUE]
  <2>1. RecoveryFrame
    BY <1>1, <1>6 DEF ReadEntry, RecoveryFrame, disk
  <2>2. CASE m \in json
    <3>1. Reads(k, m)
      BY <1>6, <2>2 DEF ReadEntry, Reads
    <3> QED BY <2>1, <3>1 DEF RecoveryEffect
  <2>3. CASE m \notin json
    <3>1. plan' = [plan EXCEPT ![k] = plan[k]] /\ plan \in [Recovery -> SUBSET Entry]
      BY <1>1, <1>6, <2>3 DEF ReadEntry, DeliveryTypeOK
    <3>2. plan' = plan
      BY <3>1
    <3>3. /\ listed' = [listed EXCEPT ![k] = @ \ {file}] /\ work' = work
          /\ shared \subseteq shared' /\ shared' \subseteq Message
      BY <1>1, <1>6 DEF ReadEntry
    <3>4. Skips(k, file)
      BY <3>2, <3>3 DEF Skips
    <3> QED BY <2>1, <3>4 DEF RecoveryEffect
  <2> QED BY <2>2, <2>3
<1>7. CASE TakeUpEntry(k)
  <2>1. Takes(k, Oldest(k)) /\ Oldest(k) \in plan[k]
    <3>1. Oldest(k) \in plan[k]
      BY <1>1, <1>7, OldestIsPlanned DEF TakeUpEntry
    <3>2. TakesUp(Oldest(k)) \in Points /\ Oldest(k).message \in Message
      BY <1>1, <3>1, PlanTypes DEF TakesUp, Points
    <3>3. Anew(Recover(k), TakesUp(Oldest(k)), Oldest(k).message)
      BY <1>1, <1>7, <3>2, NewJob DEF TakeUpEntry
    <3> QED BY <1>7, <3>1, <3>3 DEF TakeUpEntry, Takes, history
  <2>2. RecoveryFrame
    BY <1>1, <1>7 DEF TakeUpEntry, RecoveryFrame, disk, history
  <2> QED BY <2>1, <2>2 DEF RecoveryEffect
<1>8. CASE DeferEntry(k)
  <2>1. Defers(k, Oldest(k)) /\ Oldest(k) \in plan[k]
    BY <1>1, <1>8, OldestIsPlanned DEF DeferEntry, Defers, history
  <2>2. RecoveryFrame
    BY <1>1, <1>8 DEF DeferEntry, RecoveryFrame, disk, history
  <2> QED BY <2>1, <2>2 DEF RecoveryEffect
<1>9. CASE EndRecovery(k)
  <2>1. Anew(Recover(k), "over", NoMessage)
    BY <1>1, <1>9, NewJob, Messages DEF EndRecovery, Over, NoMessage, Points
  <2> QED BY <1>1, <1>9, <2>1
          DEF EndRecovery, RecoveryEffect, RecoveryFrame, Stops, disk, history
<1> QED BY <1>3, <1>4, <1>5, <1>6, <1>7, <1>8, <1>9 DEF RecoveryStep

\* What the start of a server does to the workers and the recoveries' plans.
LEMMA StartEffects ==
  ASSUME Shape, NEW crashed \in BOOLEAN, StartServer(crashed)
  PROVE  LET r == Recover(starts + 1)
         IN  /\ starts + 1 \in Recovery /\ starts' = starts + 1 /\ r \in Worker
             /\ work' \in [Worker -> Jobs] /\ work'[r].at = "list" /\ work'[r].payload = 1
             /\ \A w \in Worker \ {r} :
                  \/ work'[w] = work[w] /\ (crashed => work[w].at = "idle")
                  \/ /\ crashed /\ work[w].at # "idle"
                     /\ work'[w].at = "over" /\ work'[w].message = work[w].message
                     /\ work'[w].payload = 1
             /\ \A k \in Recovery : IF crashed THEN plan'[k] = {} ELSE plan'[k] = plan[k]
             /\ plan' \in [Recovery -> SUBSET Entry]
             /\ listed' \in [Recovery -> SUBSET [message : Message, json : BOOLEAN]]
             /\ \A k \in Recovery : listed'[k] \subseteq listed[k]
             /\ UNCHANGED <<disk, history>>
<1> DEFINE r == Recover(starts + 1)
<1>1. DeliveryTypeOK /\ NoMessage \in Message
  BY Messages DEF Shape, NoMessage
<1>2. starts + 1 \in Recovery /\ starts' = starts + 1
  BY <1>1, Bounds DEF DeliveryTypeOK, Recovery, StartServer
<1>3. r \in Worker
  BY <1>2, Workers
<1>4. Job("list", NoMessage) \in Jobs /\ Job("list", NoMessage).at = "list"
      /\ Job("list", NoMessage).payload = 1
  BY <1>1 DEF Job, Jobs, Points
<1>5. ASSUME NEW w \in Worker
      PROVE  /\ Over(Msg(w)) \in Jobs /\ Over(Msg(w)).at = "over"
             /\ Over(Msg(w)).message = work[w].message /\ Over(Msg(w)).payload = 1
             /\ work[w] \in Jobs
  BY <1>1, WorkTypes DEF Over, Job, Jobs, Points, Msg
<1> DEFINE new == [w \in Worker |->
       CASE w = r -> Job("list", NoMessage)
         [] w # r /\ crashed /\ ~At(w, "idle") -> Over(Msg(w))
         [] OTHER -> work[w]]
<1>6. work' = new
  BY DEF StartServer
<1>7. work' \in [Worker -> Jobs]
  BY <1>4, <1>5, <1>6
<1>8. work'[r] = Job("list", NoMessage)
  BY <1>3, <1>6
<1>9. ASSUME NEW w \in Worker \ {r}
      PROVE  \/ work'[w] = work[w] /\ (crashed => work[w].at = "idle")
             \/ crashed /\ work[w].at # "idle" /\ work'[w] = Over(Msg(w))
  BY <1>6 DEF At
<1>10. /\ \A k \in Recovery : IF crashed THEN plan'[k] = {} ELSE plan'[k] = plan[k]
       /\ \A k \in Recovery : listed'[k] \subseteq listed[k]
       /\ plan' \in [Recovery -> SUBSET Entry]
       /\ listed' \in [Recovery -> SUBSET [message : Message, json : BOOLEAN]]
  BY <1>1 DEF DeliveryTypeOK, StartServer
<1>11. UNCHANGED <<disk, history>>
  BY DEF StartServer
<1> HIDE DEF r, new
<1> QED BY <1>2, <1>3, <1>4, <1>5, <1>7, <1>8, <1>9, <1>10, <1>11 DEF r

\* Every step is of one of these kinds.
LEMMA DeliverySteps ==
  ASSUME Shape, [DeliveryNext]_dqVars
  PROVE  \/ UNCHANGED dqVars
         \/ \E w \in Worker : Effect(w)
         \/ \E crashed \in BOOLEAN : StartServer(crashed)
         \/ \E k \in Recovery : RecoveryEffect(k)
<1>1. ASSUME NEW m \in Message, Deliver(m) \/ EnqueueDelivery(m) \/ Abort(m)
      PROVE  \E w \in Worker : Effect(w)
  <2>1. Live(m) \in Worker
    BY Workers
  <2>2. Effect(Live(m))
    BY <1>1, <2>1, Effects
  <2> QED BY <2>1, <2>2
<1>2. ASSUME NEW w \in Worker, WorkerStep(w)
      PROVE  Effect(w)
  BY <1>2, Effects
<1> QED BY <1>1, <1>2, RecoveryEffects DEF DeliveryNext

-----------------------------------------------------------------------------
\* The state stays well formed.
LEMMA ShapePart ==
  ASSUME Shape, [DeliveryNext]_dqVars
  PROVE  Shape'
<1> DEFINE Files2 == [message : Message, json : BOOLEAN]
<1>1. /\ bestEffort \subseteq BestEffort /\ starts \in 0..MaxStarts
      /\ json \cup marker \cup failed \cup accepted \cup aborted \cup acked \cup shared \subseteq Message
      /\ retries \in [Message -> Nat]
      /\ work \in [Worker -> Jobs]
      /\ listed \in [Recovery -> SUBSET Files2]
      /\ plan \in [Recovery -> SUBSET Entry]
      /\ sent \in [Message -> SUBSET Nat] /\ \A m \in Message : sent[m] \subseteq 1..Payloads[m]
      /\ \A w \in Worker : /\ work[w].payload >= 1 /\ work[w].payload \in Nat
                           /\ work[w].message \in Message /\ work[w].count \in Nat
  BY WorkTypes DEF Shape, DeliveryTypeOK
<1>2. /\ \A m \in Message : Msg(Live(m)) = m
                            /\ work[Live(m)].at \notin {"list", "read", "next", "move"}
      /\ \A k \in Recovery : work[Recover(k)].at \notin {"write", "sendUnqueued"}
  BY DEF Shape
\* It is enough that each part of the state keeps its type.
<1>3. ASSUME bestEffort' \subseteq BestEffort, starts' \in 0..MaxStarts,
             (json \cup marker \cup failed \cup accepted \cup aborted \cup acked \cup shared)'
               \subseteq Message,
             retries' \in [Message -> Nat], work' \in [Worker -> Jobs],
             listed' \in [Recovery -> SUBSET Files2], plan' \in [Recovery -> SUBSET Entry],
             sent' \in [Message -> SUBSET Nat],
             \A m \in Message : sent'[m] \subseteq 1..Payloads[m],
             \A w \in Worker : work'[w].payload >= 1,
             \A m \in Message : work'[Live(m)].message = m
                                /\ work'[Live(m)].at \notin {"list", "read", "next", "move"},
             \A k \in Recovery : work'[Recover(k)].at \notin {"write", "sendUnqueued"}
      PROVE  Shape'
  BY <1>3 DEF Shape, DeliveryTypeOK, Jobs, Points, Msg
<1>4. CASE UNCHANGED dqVars
  BY <1>1, <1>2, <1>3, <1>4 DEF dqVars, disk, history, Msg
<1>5. ASSUME NEW w \in Worker, Effect(w)
      PROVE  Shape'
  <2>1. /\ work' \in [Worker -> Jobs]
        /\ \A v \in Worker \ {w} : work'[v] = work[v]
        /\ work'[w].message = work[w].message
    BY <1>5 DEF Effect, Begins, Accepts, Refuses, Talks, Acknowledges, Turns, Counts, Rewrites,
                Removes, PutsAside, Leaves, EndsAt, Goes, Moves
  <2>2. work'[w].payload \in {work[w].payload, work[w].payload + 1, 1}
    BY <1>5 DEF Effect, Begins, Accepts, Refuses, Talks, Acknowledges, Turns, Counts, Rewrites,
                Removes, PutsAside, Leaves, EndsAt
  <2>3. \/ work'[w].at = work[w].at
        \/ w[1] = "live" /\ work'[w].at \notin {"list", "read", "next", "move"}
        \/ w[1] = "recovery" /\ work'[w].at \notin {"write", "sendUnqueued"}
    BY <1>5, Workers DEF Effect, Begins, Accepts, Refuses, Talks, Acknowledges, Turns, Counts,
                Rewrites, Removes, PutsAside, Leaves, EndsAt, Goes, Moves
  <2>4. /\ \A m \in Message : work'[Live(m)].message = m
                              /\ work'[Live(m)].at \notin {"list", "read", "next", "move"}
        /\ \A k \in Recovery : work'[Recover(k)].at \notin {"write", "sendUnqueued"}
    BY <1>2, <2>1, <2>3, Workers DEF Msg
  <2>5. \A v \in Worker : work'[v].payload >= 1
    BY <1>1, <2>1, <2>2
  <2>6. (json \cup marker \cup failed \cup accepted \cup aborted \cup acked \cup shared)'
               \subseteq Message
    BY <1>1, <1>5 DEF Effect, Begins, Accepts, Refuses, Talks, Acknowledges, Turns, Counts,
                Rewrites, Removes, PutsAside, Leaves, QuietDisk, Msg
  <2>7. retries' \in [Message -> Nat]
    BY <1>1, <1>5 DEF Effect, Begins, Accepts, Refuses, Talks, Acknowledges, Turns, Counts,
                Rewrites, Removes, PutsAside, Leaves, QuietDisk, Msg
  <2>8. sent' \in [Message -> SUBSET Nat]
    BY <1>1, <1>5 DEF Effect, Begins, Accepts, Refuses, Talks, Acknowledges, Turns, Counts,
                Rewrites, Removes, PutsAside, Leaves, QuietDisk, Msg
  <2>9. \A m \in Message : sent'[m] \subseteq 1..Payloads[m]
    <3>1. CASE UNCHANGED sent
      BY <1>1, <3>1
    <3>2. CASE /\ work[w].payload <= Payloads[Msg(w)]
               /\ sent' = [sent EXCEPT ![Msg(w)] = @ \cup {work[w].payload}]
      <4>1. Payloads[Msg(w)] \in Nat /\ Msg(w) \in Message
        BY <1>1, Bounds DEF Msg
      <4>2. work[w].payload \in 1..Payloads[Msg(w)]
        BY <1>1, <3>2, <4>1
      <4> QED BY <1>1, <3>2, <4>2
    <3> QED BY <1>5, <3>1, <3>2 DEF Effect, Begins, Accepts, Refuses, Talks, Acknowledges, Turns,
                Counts, Rewrites, Removes, PutsAside, Leaves, QuietDisk
  <2> QED BY <1>1, <1>3, <1>5, <2>1, <2>4, <2>5, <2>6, <2>7, <2>8, <2>9 DEF Effect
<1>6. ASSUME NEW crashed \in BOOLEAN, StartServer(crashed)
      PROVE  Shape'
  <2> DEFINE r == Recover(starts + 1)
  <2>1. /\ starts + 1 \in Recovery /\ starts' = starts + 1 /\ r \in Worker
        /\ work' \in [Worker -> Jobs] /\ work'[r].at = "list" /\ work'[r].payload = 1
        /\ \A w \in Worker \ {r} :
             /\ work'[w].at \in {work[w].at, "over"} /\ work'[w].message = work[w].message
             /\ work'[w].payload \in {work[w].payload, 1}
        /\ plan' \in [Recovery -> SUBSET Entry]
        /\ listed' \in [Recovery -> SUBSET Files2]
        /\ UNCHANGED <<disk, history>>
    BY <1>6, StartEffects
  <2>2. starts' \in 0..MaxStarts
    BY <2>1, Bounds DEF Recovery
  <2>3. \A w \in Worker : work'[w].payload >= 1
    BY <1>1, <2>1
  <2>4. \A m \in Message : Live(m) \in Worker \ {r}
    BY <2>1, Workers
  <2>5. \A m \in Message : work'[Live(m)].message = m
                           /\ work'[Live(m)].at \notin {"list", "read", "next", "move"}
    BY <1>2, <2>1, <2>4 DEF Msg
  <2>6. \A k \in Recovery : work'[Recover(k)].at \notin {"write", "sendUnqueued"}
    BY <1>2, <2>1, Workers
  <2> HIDE DEF r, Files2
  <2> QED BY <1>1, <1>3, <2>1, <2>2, <2>3, <2>5, <2>6 DEF disk, history
<1>7. ASSUME NEW k \in Recovery, RecoveryEffect(k)
      PROVE  Shape'
  <2>1. Recover(k) \in Worker /\ NoMessage \in Message
    BY Workers, Messages DEF NoMessage
  <2>2. /\ work' \in [Worker -> Jobs]
        /\ \A w \in Worker \ {Recover(k)} : work'[w] = work[w]
        /\ work'[Recover(k)].payload >= 1
        /\ work'[Recover(k)].at \notin {"write", "sendUnqueued"}
    <3>1. \/ UNCHANGED work
          \/ /\ Goes(Recover(k), "read") \/ Goes(Recover(k), "next")
             /\ work'[Recover(k)].payload = work[Recover(k)].payload
          \/ \E b \in {"over", "move", "send"}, m \in Message : Anew(Recover(k), b, m)
      <4>1. ASSUME NEW e \in plan[k], Takes(k, e)
            PROVE  \E b \in {"over", "move", "send"}, m \in Message : Anew(Recover(k), b, m)
        <5>1. e.message \in Message /\ TakesUp(e) \in {"over", "move", "send"}
          BY PlanTypes DEF Shape, TakesUp
        <5> QED BY <4>1, <5>1 DEF Takes
      <4> QED BY <1>7, <2>1, <4>1
              DEF RecoveryEffect, Lists, HasRead, Stops, Reads, Skips, Defers
    <3>2. CASE UNCHANGED work
      BY <1>1, <1>2, <2>1, <3>2
    <3>3. CASE /\ Goes(Recover(k), "read") \/ Goes(Recover(k), "next")
               /\ work'[Recover(k)].payload = work[Recover(k)].payload
      BY <1>1, <2>1, <3>3 DEF Goes, Moves
    <3>4. CASE \E b \in {"over", "move", "send"}, m \in Message : Anew(Recover(k), b, m)
      BY <3>4 DEF Anew, Moves
    <3> QED BY <3>1, <3>2, <3>3, <3>4
  <2>3. /\ listed' \in [Recovery -> SUBSET Files2]
    <3>1. Files \subseteq Files2
      <4>1. \A m \in Message, b \in BOOLEAN : [message |-> m, json |-> b] \in Files2
        OBVIOUS
      <4> HIDE DEF Files2
      <4> QED BY <1>1, <4>1 DEF Files
    <3> HIDE DEF Files2
    <3> QED BY <1>1, <1>7, <3>1
            DEF RecoveryEffect, Lists, HasRead, Stops, Reads, Skips, Takes, Defers
  <2>4. plan' \in [Recovery -> SUBSET Entry]
    <3>1. \A m \in Message : [message |-> m, retries |-> retries[m]] \in Entry
      BY <1>1 DEF Entry
    <3>2. plan[k] \subseteq Entry
      BY <1>1
    <3>3. ASSUME NEW m \in Message, Reads(k, m)
          PROVE  \E new \in SUBSET Entry : plan' = [plan EXCEPT ![k] = new]
      BY <3>1, <3>2, <3>3 DEF Reads
    <3>4. ASSUME NEW e \in plan[k], Takes(k, e) \/ Defers(k, e)
          PROVE  \E new \in SUBSET Entry : plan' = [plan EXCEPT ![k] = new]
      BY <3>2, <3>4 DEF Takes, Defers
    <3>5. plan' = plan \/ \E new \in SUBSET Entry : plan' = [plan EXCEPT ![k] = new]
      BY <1>7, <3>3, <3>4 DEF RecoveryEffect, Lists, HasRead, Stops, Skips
    <3> QED BY <1>1, <3>5
  <2>5. shared' \subseteq Message
    BY <1>1, <1>7 DEF RecoveryEffect, Lists, HasRead, Stops, Reads, Skips, Takes, Defers
  <2>6. \A m \in Message : work'[Live(m)].message = m
                           /\ work'[Live(m)].at \notin {"list", "read", "next", "move"}
    BY <1>2, <2>2, Workers DEF Msg
  <2>7. \A j \in Recovery : work'[Recover(j)].at \notin {"write", "sendUnqueued"}
    BY <1>2, <2>2, Workers
  <2>8. \A w \in Worker : work'[w].payload >= 1
    BY <1>1, <2>2
  <2> HIDE DEF Files2
  <2> QED BY <1>1, <1>3, <1>7, <2>2, <2>3, <2>4, <2>5, <2>6, <2>7, <2>8
          DEF RecoveryEffect, RecoveryFrame
<1> QED BY <1>4, <1>5, <1>6, <1>7, DeliverySteps

-----------------------------------------------------------------------------
\* Who holds a message: a live delivery that is at work on it, or a recovery
\* that is, or has its entry.
LEMMA HoldsUse ==
  ASSUME NEW m \in Message
  PROVE  /\ \A n \in Message : Holds(Live(n), m) <=> Busy(Live(n), m)
         /\ \A k \in Recovery : Holds(Recover(k), m) <=> Busy(Recover(k), m) \/ Planned(k, m)
BY Workers DEF Holds

\* The points a worker passes in one step.
LEMMA EffectAt ==
  ASSUME NEW w \in Worker, Effect(w)
  PROVE  /\ Moves(w) /\ work'[w].message = work[w].message
         /\ UNCHANGED <<bestEffort, starts, listed, plan, shared>>
         /\ \/ Begins(w) /\ w[1] = "live" /\ work[w].at = "idle" /\ work'[w].at = "write"
            \/ Accepts(w) /\ w[1] = "live" /\ work[w].at = "write" /\ work'[w].at = "send"
            \/ Refuses(w) /\ w[1] = "live" /\ work[w].at = "write" /\ work'[w].at = "sendUnqueued"
            \/ Talks(w) /\ work[w].at \in {"send", "sendUnqueued"} /\ work'[w].at = work[w].at
            \/ Acknowledges(w) /\ work[w].at = "send" /\ work'[w].at = "ack"
            \/ Turns(w) /\ work[w].at \in {"send", "ack"} /\ work'[w].at \in {"fail", "move"}
            \/ Counts(w) /\ work[w].at = "fail" /\ work'[w].at = "rewrite"
            \/ Rewrites(w) /\ work[w].at = "rewrite" /\ work'[w].at \in {"over", "next"}
            \/ Removes(w) /\ work[w].at = "ack" /\ work'[w].at = "unlink"
            \/ PutsAside(w) /\ work[w].at = "move" /\ work'[w].at \in {"over", "next"}
            \/ Leaves(w) /\ work[w].at \in Active \ {"write"} /\ work'[w].at \in {"over", "next"}
         /\ w[1] = "live" => work'[w].at # "next"
         /\ w[1] = "recovery" => work'[w].at \notin {"over", "write"}
<1>1. \A b : Goes(w, b) => Moves(w) /\ work'[w].message = work[w].message /\ work'[w].at = b
  BY DEF Goes
<1>2. EndsAt(w) => /\ Moves(w) /\ work'[w].message = work[w].message
                   /\ work'[w].at = IF w[1] = "live" THEN "over" ELSE "next"
  BY <1>1 DEF EndsAt
<1>3. Sending(w) => work[w].at \in {"send", "sendUnqueued"}
  BY DEF Sending, At
<1> QED BY <1>1, <1>2, <1>3 DEF Effect, Begins, Accepts, Refuses, Talks, Acknowledges, Turns,
                Counts, Rewrites, Removes, PutsAside, Leaves

\* Nobody comes to hold a message but its live delivery when it begins, and a
\* recovery that reads its entry.
LEMMA HoldsEffect ==
  ASSUME NEW w \in Worker, Effect(w), NEW v \in Worker, NEW m \in Message, Holds(v, m)'
  PROVE  Holds(v, m) \/ (Begins(w) /\ v = w /\ m = Msg(w))
<1>1. CASE Busy(v, m)'
  <2>1. CASE v # w
    BY <1>1, <2>1, EffectAt DEF Busy, Holds, Msg, Moves
  <2>2. CASE v = w
    <3>1. Msg(w) = m /\ work'[w].at \in Active
      BY <1>1, <2>2, EffectAt DEF Busy, Msg
    <3>2. work[w].at \in Active \/ Begins(w)
      BY <3>1, EffectAt DEF Active
    <3> QED BY <2>2, <3>1, <3>2 DEF Holds, Busy
  <2> QED BY <2>1, <2>2
<1>2. CASE ~Busy(v, m)'
  BY <1>2, EffectAt DEF Holds, Planned
<1> QED BY <1>1, <1>2

\* A server start gives no message a holder, and after a crash none has one.
LEMMA HoldsStart ==
  ASSUME Shape, NEW crashed \in BOOLEAN, StartServer(crashed),
         NEW v \in Worker, NEW m \in Message, Holds(v, m)'
  PROVE  Holds(v, m) /\ ~crashed
<1> DEFINE r == Recover(starts + 1)
<1>1. /\ work'[r].at = "list"
      /\ \A w \in Worker \ {r} :
           \/ work'[w] = work[w] /\ (crashed => work[w].at = "idle")
           \/ work'[w].at = "over"
      /\ \A k \in Recovery : IF crashed THEN plan'[k] = {} ELSE plan'[k] = plan[k]
  BY StartEffects
<1>2. CASE Busy(v, m)'
  <2>1. work'[v].at \in Active /\ work'[v].message = m
    BY <1>2 DEF Busy, Msg
  <2>2. work'[v] = work[v] /\ (crashed => work[v].at = "idle")
    BY <1>1, <2>1 DEF Active
  <2>3. ~crashed /\ Busy(v, m)
    BY <2>1, <2>2 DEF Busy, Msg, Active
  <2> QED BY <2>3 DEF Holds
<1>3. CASE \E k \in Recovery : v = Recover(k) /\ Planned(k, m)'
  BY <1>1, <1>3 DEF Holds, Planned
<1> QED BY <1>2, <1>3 DEF Holds

\* In a step of a recovery between two entries, a message gets a holder when its
\* entry is read.
LEMMA HoldsRecovery ==
  ASSUME Shape, NEW k \in Recovery, RecoveryEffect(k),
         NEW v \in Worker, NEW m \in Message, Holds(v, m)'
  PROVE  Holds(v, m) \/ (Reads(k, m) /\ v = Recover(k))
<1> DEFINE r == Recover(k)
<1>1. r \in Worker /\ plan \in [Recovery -> SUBSET Entry]
  BY Workers DEF Shape, DeliveryTypeOK
<1>2. CASE Busy(v, m)'
  <2>1. work'[v].at \in Active /\ work'[v].message = m
    BY <1>2 DEF Busy, Msg
  <2>2. CASE work'[v] = work[v]
    BY <2>1, <2>2 DEF Holds, Busy, Msg
  <2>3. CASE work'[v] # work[v]
    <3>1. v = r /\ \E e \in plan[k] : Takes(k, e)
      <4>1. \A e \in plan[k] : Takes(k, e) => Moves(r)
        BY DEF Takes, Anew
      <4>2. \/ UNCHANGED work \/ Goes(r, "read") \/ Goes(r, "next") \/ Anew(r, "over", NoMessage)
            \/ \E e \in plan[k] : Takes(k, e)
        BY DEF RecoveryEffect, Lists, HasRead, Stops, Reads, Skips, Defers
      <4>3. v = r
        BY <2>3, <4>1, <4>2 DEF Goes, Anew, Moves
      <4> QED BY <2>1, <2>3, <4>2, <4>3 DEF Goes, Anew, Active
    <3>2. PICK e \in plan[k] : Takes(k, e)
      BY <3>1
    <3>3. e.message = m
      BY <2>1, <3>1, <3>2 DEF Takes, Anew
    <3> QED BY <3>1, <3>2, <3>3 DEF Holds, Planned
  <2> QED BY <2>2, <2>3
<1>3. ASSUME NEW j \in Recovery, v = Recover(j), Planned(j, m)'
      PROVE  Holds(v, m) \/ (Reads(k, m) /\ v = Recover(k))
  <2>1. PICK e \in plan'[j] : e.message = m
    BY <1>3 DEF Planned
  <2>2. CASE e \in plan[j]
    BY <1>3, <2>1, <2>2 DEF Holds, Planned
  <2>3. CASE e \notin plan[j]
    <3>1. ASSUME NEW n \in Message, Reads(k, n)
          PROVE  j = k /\ n = m
      <4>1. plan' = [plan EXCEPT ![k] = @ \cup {[message |-> n, retries |-> retries[n]]}]
        BY <3>1 DEF Reads
      <4>2. j = k /\ e = [message |-> n, retries |-> retries[n]]
        BY <1>1, <2>1, <2>3, <4>1
      <4> QED BY <2>1, <4>2
    <3>2. \E n \in Message : Reads(k, n)
      BY <1>1, <2>1, <2>3
         DEF RecoveryEffect, Lists, HasRead, Stops, Skips, Takes, Defers
    <3> QED BY <1>3, <3>1, <3>2
  <2> QED BY <2>2, <2>3
<1> QED BY <1>2, <1>3 DEF Holds

-----------------------------------------------------------------------------
\* Nothing is done to a message before it is accepted.
LEMMA KnownPart ==
  ASSUME Shape, Known, [DeliveryNext]_dqVars
  PROVE  Known'
<1> DEFINE Early == {"idle", "write", "sendUnqueued"}
<1>1. /\ json \cup failed \cup acked \subseteq accepted
      /\ \A k \in Recovery : \A m \in Message : Holds(Recover(k), m) => m \in accepted
      /\ \A m \in Message :
           /\ work[Live(m)].at \in Early => m \notin accepted
           /\ work[Live(m)].at \in Queued => m \in accepted
           /\ m \notin accepted => retries[m] = 0
  BY DEF Known
<1>2. /\ \A m \in Message : work[Live(m)].message = m
      /\ \A w \in Worker : work[w].message \in Message
      /\ json \subseteq Message /\ retries \in [Message -> Nat]
  BY WorkTypes DEF Shape, DeliveryTypeOK, Msg
<1>3. CASE UNCHANGED dqVars
  BY <1>3 DEF Known, Holds, Busy, Planned, Msg, dqVars, disk, history
<1>4. ASSUME NEW w \in Worker, Effect(w)
      PROVE  Known'
  <2> DEFINE m0 == Msg(w)
  <2>1. m0 \in Message
    BY <1>2 DEF Msg
  <2>2. work[w].at \in Queued => m0 \in accepted
    <3>1. CASE w[1] = "live"
      BY <1>1, <1>2, <3>1, Workers DEF Msg
    <3>2. CASE w[1] = "recovery"
      BY <1>1, <2>1, <3>2, Workers, HoldsUse DEF Busy, Active, Queued
    <3> QED BY <3>1, <3>2, Workers
  <2>3. \/ Accepts(w) /\ accepted' = accepted \cup {m0} /\ json' = json \cup {m0}
        \/ UNCHANGED accepted /\ (json' \subseteq json \/ (json' = json \cup {m0} /\ m0 \in accepted))
    BY <1>4, <2>2, EffectAt DEF Accepts, Begins, Refuses, Talks, Acknowledges, Turns, Counts,
                Rewrites, Removes, PutsAside, Leaves, QuietDisk, Queued
  <2>4. failed' \cup acked' \subseteq failed \cup acked \cup accepted
    BY <1>4, <2>2, EffectAt DEF Accepts, Begins, Refuses, Talks, Acknowledges, Turns, Counts,
                Rewrites, Removes, PutsAside, Leaves, QuietDisk, Queued
  <2>5. (json \cup failed \cup acked)' \subseteq accepted'
    BY <1>1, <2>3, <2>4
  <2>6. ASSUME NEW k \in Recovery, NEW m \in Message, Holds(Recover(k), m)'
        PROVE  m \in accepted'
    <3>1. Recover(k) \in Worker /\ Recover(k)[1] # "live"
      BY Workers
    <3>2. Holds(Recover(k), m)
      BY <1>4, <2>6, <3>1, HoldsEffect DEF Begins
    <3> QED BY <1>1, <2>3, <3>2
  <2>7. ASSUME NEW m \in Message
        PROVE  /\ work'[Live(m)].at \in Early => m \notin accepted'
               /\ work'[Live(m)].at \in Queued => m \in accepted'
    <3>1. Live(m) \in Worker /\ Live(m)[1] = "live"
      BY Workers
    <3>2. CASE w # Live(m)
      <4>1. work'[Live(m)] = work[Live(m)]
        BY <1>4, <3>1, <3>2, EffectAt DEF Moves
      <4>2. Accepts(w) => m0 # m
        BY <1>2, <2>1, <3>2, Workers DEF Accepts, Msg
      <4> QED BY <1>1, <2>3, <4>1, <4>2
    <3>3. CASE w = Live(m)
      <4>1. m0 = m
        BY <1>2, <3>3 DEF Msg
      <4>2. CASE Accepts(w)
        BY <1>4, <2>3, <3>3, <4>1, <4>2, EffectAt DEF Accepts, Goes, QuietDisk
      <4>3. CASE ~Accepts(w)
        <5>1. UNCHANGED accepted
          BY <2>3, <4>3
        <5>2. /\ work'[w].at \in Early => work[w].at \in Early
              /\ work'[w].at \in Queued => work[w].at \in Queued
          BY <1>4, <3>1, <3>3, <4>3, EffectAt DEF Queued, Active
        <5> QED BY <1>1, <3>3, <5>1, <5>2
      <4> QED BY <4>2, <4>3
    <3> QED BY <3>2, <3>3
  <2>8. ASSUME NEW m \in Message, m \notin accepted'
        PROVE  retries'[m] = 0
    <3>1. retries' = retries \/ (retries' = [retries EXCEPT ![m0] = work[w].count] /\ m0 \in accepted)
      BY <1>4, <2>2, EffectAt DEF Accepts, Begins, Refuses, Talks, Acknowledges, Turns, Counts,
                Rewrites, Removes, PutsAside, Leaves, QuietDisk, Queued
    <3> QED BY <1>1, <1>2, <2>3, <2>8, <3>1
  <2> QED BY <2>5, <2>6, <2>7, <2>8 DEF Known
<1>5. ASSUME NEW crashed \in BOOLEAN, StartServer(crashed)
      PROVE  Known'
  <2> DEFINE r == Recover(starts + 1)
  <2>1. /\ starts + 1 \in Recovery /\ UNCHANGED <<disk, history>>
        /\ \A w \in Worker \ {r} : work'[w] = work[w] \/ work'[w].at = "over"
    BY <1>5, StartEffects
  <2>2. UNCHANGED <<json, failed, acked, accepted, retries>>
    BY <2>1 DEF disk, history
  <2>3. \A m \in Message : Live(m) \in Worker \ {r}
    BY <2>1, Workers
  <2>4. \A k \in Recovery : \A m \in Message : Holds(Recover(k), m)' => m \in accepted'
    BY <1>1, <1>5, <2>2, Workers, HoldsStart
  <2>5. \A m \in Message :
           /\ work'[Live(m)].at \in Early => m \notin accepted'
           /\ work'[Live(m)].at \in Queued => m \in accepted'
           /\ m \notin accepted' => retries'[m] = 0
    BY <1>1, <2>1, <2>2, <2>3 DEF Queued
  <2> QED BY <1>1, <2>2, <2>4, <2>5 DEF Known
<1>6. ASSUME NEW k \in Recovery, RecoveryEffect(k)
      PROVE  Known'
  <2>1. UNCHANGED <<json, failed, acked, accepted, retries>>
    BY <1>6 DEF RecoveryEffect, RecoveryFrame
  <2>2. \A m \in Message : work'[Live(m)] = work[Live(m)]
    BY <1>6, Workers DEF RecoveryEffect, Lists, HasRead, Stops, Reads, Skips, Takes, Defers,
                         Goes, Anew, Moves
  <2>3. ASSUME NEW j \in Recovery, NEW m \in Message, Holds(Recover(j), m)'
        PROVE  m \in accepted'
    <3>1. Holds(Recover(j), m) \/ m \in json
      BY <1>6, <2>3, Workers, HoldsRecovery DEF Reads
    <3> QED BY <1>1, <2>1, <3>1
  <2> QED BY <1>1, <2>1, <2>2, <2>3 DEF Known
<1> QED BY <1>3, <1>4, <1>5, <1>6, DeliverySteps

-----------------------------------------------------------------------------
\* A recovery reads each file once and handles each entry once.
LEMMA PlansPart ==
  ASSUME Shape, Plans, [DeliveryNext]_dqVars
  PROVE  Plans'
<1> SUFFICES ASSUME NEW j \in Recovery PROVE PlanOf(j)'
  BY DEF Plans
<1> DEFINE q == Recover(j)
<1>1. PlanOf(j) /\ q \in Worker /\ q[1] = "recovery"
  BY Workers DEF Plans
<1>2. /\ plan \in [Recovery -> SUBSET Entry]
      /\ listed \in [Recovery -> SUBSET [message : Message, json : BOOLEAN]]
      /\ work[q].at \notin {"write", "sendUnqueued"} /\ starts \in Nat
  BY Bounds DEF Shape, DeliveryTypeOK
\* A recovery that does not move keeps its plan, or drops it.
<1>3. ASSUME work'[q] = work[q], plan'[j] = plan[j], listed'[j] \subseteq listed[j],
             starts' \in {starts, starts + 1}
      PROVE  PlanOf(j)'
  <2>1. j > starts' => j > starts
    BY <1>2, <1>3 DEF Recovery
  <2> QED BY <1>1, <1>3, <2>1 DEF PlanOf, Busy, Msg
<1>4. CASE UNCHANGED dqVars
  BY <1>3, <1>4 DEF dqVars
<1>5. ASSUME NEW w \in Worker, Effect(w)
      PROVE  PlanOf(j)'
  <2>1. UNCHANGED <<starts, listed, plan>>
    BY <1>5, EffectAt
  <2>2. CASE w # q
    BY <1>1, <1>3, <1>5, <2>1, <2>2, EffectAt DEF Moves
  <2>3. CASE w = q
    <3>1. work[q].at \in Active /\ work'[q].message = work[q].message
      BY <1>1, <1>2, <1>5, <2>3, EffectAt DEF Active
    <3>2. work'[q].at \notin {"idle", "over", "list", "read"}
      BY <1>1, <1>5, <2>3, <3>1, EffectAt DEF Active
    <3> QED BY <1>1, <2>1, <3>1, <3>2 DEF PlanOf, Busy, Msg, Active
  <2> QED BY <2>2, <2>3
<1>6. ASSUME NEW crashed \in BOOLEAN, StartServer(crashed)
      PROVE  PlanOf(j)'
  <2> DEFINE r == Recover(starts + 1)
  <2>1. /\ starts + 1 \in Recovery /\ starts' = starts + 1 /\ r \in Worker
        /\ work'[r].at = "list"
        /\ \A w \in Worker \ {r} : \/ work'[w] = work[w]
                                   \/ crashed /\ work[w].at # "idle" /\ work'[w].at = "over"
        /\ \A k \in Recovery : IF crashed THEN plan'[k] = {} ELSE plan'[k] = plan[k]
        /\ \A k \in Recovery : listed'[k] \subseteq listed[k]
    BY <1>6, StartEffects
  <2>2. CASE q = r
    <3>1. j = starts + 1
      BY <2>1, <2>2, Workers
    <3>2. plan[j] = {}
      BY <1>1, <1>2, <3>1 DEF PlanOf
    <3>3. plan'[j] = {} /\ ~(j > starts')
      BY <1>2, <2>1, <3>1, <3>2
    <3> QED BY <3>3 DEF PlanOf
  <2>3. CASE q # r /\ ~crashed
    BY <1>1, <1>3, <2>1, <2>3
  <2>4. CASE q # r /\ crashed
    <3>1. plan'[j] = {}
      BY <2>1, <2>4
    <3>2. work[q].at = "idle" => work'[q].at = "idle"
      BY <1>1, <2>1, <2>4
    <3>3. j > starts' => work'[q].at = "idle"
      <4>1. j > starts' => j > starts
        BY <1>2, <2>1 DEF Recovery
      <4> QED BY <1>1, <3>2, <4>1 DEF PlanOf
    <3> QED BY <3>1, <3>3 DEF PlanOf
  <2> QED BY <2>2, <2>3, <2>4
<1>7. ASSUME NEW k \in Recovery, RecoveryEffect(k)
      PROVE  PlanOf(j)'
  <2>1. UNCHANGED starts
    BY <1>7 DEF RecoveryEffect, RecoveryFrame
  <2>2. CASE j # k
    <3>1. q # Recover(k)
      BY <2>2, Workers
    <3>2. work'[q] = work[q]
      BY <1>1, <1>7, <3>1 DEF RecoveryEffect, Lists, HasRead, Stops, Reads, Skips, Takes, Defers,
                         Goes, Anew, Moves
    <3>3. plan'[j] = plan[j] /\ listed'[j] = listed[j]
      BY <1>2, <1>7, <2>2 DEF RecoveryEffect, Lists, HasRead, Stops, Reads, Skips, Takes, Defers
    <3> QED BY <1>3, <2>1, <3>2, <3>3
  <2>3. CASE j = k
    <3>1. CASE Lists(k)
      <4>1. plan'[j] = {} /\ work'[q].at = "read" /\ work[q].at = "list"
        BY <1>1, <2>3, <3>1 DEF Lists, At, Goes, PlanOf
      <4> QED BY <1>1, <2>1, <4>1 DEF PlanOf
    <3>2. CASE HasRead(k)
      <4>1. /\ plan'[j] = plan[j] /\ work'[q].at = "next" /\ work[q].at = "read"
        BY <2>3, <3>2 DEF HasRead, At, Goes
      <4> QED BY <1>1, <2>1, <4>1 DEF PlanOf, Busy, Active
    <3>3. CASE Stops(k)
      <4>1. plan'[j] = {} /\ work'[q].at = "over" /\ work'[q].at # "idle"
        BY <1>2, <2>3, <3>3 DEF Stops, Anew
      <4>2. work[q].at # "idle"
        BY <2>3, <3>3 DEF Stops, At
      <4> QED BY <1>1, <2>1, <4>1, <4>2 DEF PlanOf
    <3>4. ASSUME NEW m \in Message, Reads(k, m)
          PROVE  PlanOf(j)'
      <4> DEFINE file == [message |-> m, json |-> TRUE]
                 new == [message |-> m, retries |-> retries[m]]
      <4>1. /\ work[q].at = "read" /\ work'[q] = work[q] /\ file \in listed[j]
            /\ listed'[j] = listed[j] \ {file} /\ plan'[j] = plan[j] \cup {new}
            /\ new.message = m
        BY <1>2, <2>3, <3>4 DEF Reads, At
      <4>2. \A e \in plan[j] : e.message # m
        BY <1>1, <4>1 DEF PlanOf
      <4> HIDE DEF new
      <4>3. \A e, f \in plan'[j] : e.message = f.message => e = f
        BY <1>1, <4>1, <4>2 DEF PlanOf
      <4>4. \A e \in plan'[j] : [message |-> e.message, json |-> TRUE] \notin listed'[j]
        BY <1>1, <4>1 DEF PlanOf
      <4> QED BY <1>1, <2>1, <4>1, <4>3, <4>4 DEF PlanOf, Busy, Active
    <3>5. ASSUME NEW m \in Message, NEW b \in BOOLEAN, Skips(k, [message |-> m, json |-> b])
          PROVE  PlanOf(j)'
      <4>1. work'[q] = work[q] /\ plan'[j] = plan[j] /\ listed'[j] \subseteq listed[j]
        BY <1>2, <2>3, <3>5 DEF Skips
      <4> QED BY <1>3, <2>1, <4>1
    <3>6. ASSUME NEW e \in plan[k], Takes(k, e)
          PROVE  PlanOf(j)'
      <4>1. /\ work[q].at = "next" /\ plan'[j] = plan[j] \ {e}
            /\ work'[q].at \in {"send", "move"} /\ work'[q].message = e.message
        BY <1>2, <2>3, <3>6 DEF Takes, At, Anew, TakesUp
      <4>2. \A f \in plan'[j] : f.message # e.message
        BY <1>1, <2>3, <4>1 DEF PlanOf
      <4> QED BY <1>1, <2>1, <4>1, <4>2 DEF PlanOf, Busy, Msg
    <3>7. ASSUME NEW e \in plan[k], Defers(k, e)
          PROVE  PlanOf(j)'
      <4>1. /\ work[q].at = "next" /\ plan'[j] = plan[j] \ {e} /\ work'[q] = work[q]
        BY <1>2, <2>3, <3>7 DEF Defers, At
      <4> QED BY <1>1, <2>1, <4>1 DEF PlanOf, Busy, Active
    <3> QED BY <1>7, <3>1, <3>2, <3>3, <3>4, <3>5, <3>6, <3>7 DEF RecoveryEffect
  <2> QED BY <2>2, <2>3
<1> QED BY <1>4, <1>5, <1>6, <1>7, DeliverySteps

-----------------------------------------------------------------------------
\* A message no recovery took from other hands keeps one holder.
LEMMA HolderPart ==
  ASSUME Shape, Known, OneHolder, [DeliveryNext]_dqVars
  PROVE  OneHolder'
<1> SUFFICES ASSUME NEW m \in Message, m \notin shared', NEW u \in Worker, NEW v \in Worker,
                    Holds(u, m)', Holds(v, m)'
             PROVE  u = v
  BY DEF OneHolder
<1>1. m \notin shared => (Holds(u, m) /\ Holds(v, m) => u = v)
  BY DEF OneHolder
<1>2. CASE UNCHANGED dqVars
  BY <1>1, <1>2 DEF Holds, Busy, Planned, Msg, dqVars, history
<1>3. ASSUME NEW w \in Worker, Effect(w)
      PROVE  u = v
  <2>1. m \notin shared
    BY <1>3, EffectAt
  \* Nobody else holds a message whose delivery has not begun.
  <2>2. ASSUME Begins(w), m = Msg(w), NEW x \in Worker, Holds(x, m)
        PROVE  FALSE
    <3>1. w = Live(m) /\ work[w].at = "idle"
      BY <2>2, Workers DEF Begins, Shape
    <3>2. m \notin accepted
      BY <3>1 DEF Known
    <3>3. CASE x[1] = "recovery"
      BY <2>2, <3>2, <3>3, Workers DEF Known
    <3>4. CASE x[1] = "live"
      <4>1. PICK n \in Message : x = Live(n)
        BY <3>4, Workers
      <4>2. Busy(x, m)
        BY <2>2, <4>1, HoldsUse
      <4>3. n = m
        BY <4>1, <4>2 DEF Busy, Shape
      <4> QED BY <3>1, <4>1, <4>2, <4>3 DEF Busy, Active
    <3> QED BY <3>3, <3>4, Workers
  <2>3. \/ Holds(u, m)
        \/ Begins(w) /\ u = w /\ m = Msg(w)
    BY <1>3, HoldsEffect
  <2>4. \/ Holds(v, m)
        \/ Begins(w) /\ v = w /\ m = Msg(w)
    BY <1>3, HoldsEffect
  <2> QED BY <1>1, <2>1, <2>2, <2>3, <2>4
<1>4. ASSUME NEW crashed \in BOOLEAN, StartServer(crashed)
      PROVE  u = v
  <2>1. m \notin shared
    BY <1>4 DEF StartServer, history
  <2> QED BY <1>1, <1>4, <2>1, HoldsStart
<1>5. ASSUME NEW k \in Recovery, RecoveryEffect(k)
      PROVE  u = v
  <2>1. m \notin shared
    BY <1>5 DEF RecoveryEffect, Lists, HasRead, Stops, Reads, Skips, Takes, Defers
  <2>2. ASSUME Reads(k, m), NEW x \in Worker, Holds(x, m)
        PROVE  x = Recover(k)
    <3>1. ~InOtherHands(k, m)
      BY <2>2 DEF Reads
    <3>2. CASE Busy(x, m)
      BY <3>1, <3>2 DEF InOtherHands, Busy, Active, At
    <3>3. CASE \E j \in Recovery : x = Recover(j) /\ Planned(j, m)
      BY <3>1, <3>3 DEF InOtherHands, Planned
    <3> QED BY <2>2, <3>2, <3>3 DEF Holds
  <2>3. Holds(u, m) \/ (Reads(k, m) /\ u = Recover(k))
    BY <1>5, HoldsRecovery
  <2>4. Holds(v, m) \/ (Reads(k, m) /\ v = Recover(k))
    BY <1>5, HoldsRecovery
  <2> QED BY <1>1, <2>1, <2>2, <2>3, <2>4
<1> QED BY <1>2, <1>3, <1>4, <1>5, DeliverySteps

-----------------------------------------------------------------------------
\* The holder of a message that is not shared is alone with it.
LEMMA Alone ==
  ASSUME Shape, Plans, OneHolder, NEW w \in Worker, work[w].at \in Active, Msg(w) \notin shared
  PROVE  /\ \A v \in Worker \ {w} : Msg(v) = Msg(w) => work[v].at \notin Active
         /\ \A k \in Recovery : \A e \in plan[k] : e.message # Msg(w)
<1>1. Msg(w) \in Message \ shared /\ Holds(w, Msg(w))
  BY WorkTypes DEF Shape, Holds, Busy, Msg
<1>2. \A v \in Worker : Holds(v, Msg(w)) => v = w
  BY <1>1 DEF OneHolder
<1>3. \A v \in Worker \ {w} : Msg(v) = Msg(w) => work[v].at \notin Active
  BY <1>2 DEF Holds, Busy
<1>4. ASSUME NEW k \in Recovery, NEW e \in plan[k], e.message = Msg(w)
      PROVE  FALSE
  <2>1. Recover(k) \in Worker /\ Holds(Recover(k), Msg(w))
    BY <1>4, Workers DEF Holds, Planned
  <2>2. w = Recover(k)
    BY <1>2, <2>1
  <2>3. ~Busy(w, e.message)
    BY <1>4, <2>2 DEF Plans, PlanOf
  <2> QED BY <1>4, <2>3 DEF Busy
<1> QED BY <1>3, <1>4

\* A worker changes the entry of its own message only.
LEMMA EffectDisk ==
  ASSUME Shape, NEW w \in Worker, Effect(w), NEW m \in Message, m # Msg(w)
  PROVE  /\ (m \in json') = (m \in json) /\ (m \in acked') = (m \in acked)
         /\ (m \in failed') = (m \in failed) /\ retries'[m] = retries[m]
<1>1. retries \in [Message -> Nat]
  BY DEF Shape, DeliveryTypeOK
<1> QED BY <1>1, EffectAt DEF Accepts, Begins, Refuses, Talks, Acknowledges, Turns, Counts,
                Rewrites, Removes, PutsAside, Leaves, QuietDisk

\* The entry and the job of the worker that moves, when its message is not shared.
LEMMA MovedEntry ==
  ASSUME Shape, Known, Entries, NEW w \in Worker, Effect(w),
         NEW m \in Message, m = Msg(w), m \notin shared
  PROVE  EntryOf(m)' /\ JobOf(w)'
<1>1. m \in Message /\ Msg(w) = m /\ work[w].message = m /\ work'[w].message = m
  BY EffectAt DEF Msg
<1>2. /\ m \in json => m \notin acked \cup failed
      /\ retries[m] <= MaxRetries
      /\ work[w].at \in Queued => m \in json
      /\ work[w].at \in Queued \ {"move"} => retries[m] < MaxRetries
      /\ work[w].at = "rewrite" => work[w].count = retries[m] + 1
  BY <1>1 DEF Entries, EntryOf, JobOf
<1>3. /\ retries \in [Message -> Nat] /\ retries[m] \in Nat /\ MaxRetries \in Nat \ {0}
  BY <1>1, Bounds DEF Shape, DeliveryTypeOK
\* It is enough to look at the next values of a few expressions.
<1>4. ASSUME m \in json' => m \notin acked' \cup failed',
             retries'[m] <= MaxRetries,
             work'[w].at \in Queued => m \in json',
             work'[w].at \in Queued \ {"move"} => retries'[m] < MaxRetries,
             work'[w].at = "rewrite" => work'[w].count = retries'[m] + 1
      PROVE  EntryOf(m)' /\ JobOf(w)'
  BY <1>1, <1>4 DEF EntryOf, JobOf, Msg
<1>5. CASE Begins(w) \/ Refuses(w) \/ Leaves(w)
  <2>1. UNCHANGED <<json, acked, failed, retries>> /\ work'[w].at \notin Queued
    BY <1>5, EffectAt DEF Begins, Refuses, Leaves, Goes, EndsAt, QuietDisk, Queued
  <2> QED BY <1>2, <1>4, <2>1 DEF Queued
<1>6. CASE Accepts(w)
  <2>1. /\ json' = json \cup {m} /\ UNCHANGED <<acked, failed, retries>> /\ work'[w].at = "send"
    BY <1>1, <1>6 DEF Accepts, Goes
  <2>2. m \notin accepted
    BY <1>1, <1>6, Workers DEF Accepts, Known, Shape, Msg
  <2>3. m \notin acked \cup failed /\ retries[m] = 0
    BY <1>1, <2>2 DEF Known
  <2> QED BY <1>3, <1>4, <2>1, <2>3
<1>7. CASE Talks(w) \/ Acknowledges(w) \/ Turns(w)
  <2>1. /\ UNCHANGED <<json, acked, failed, retries>>
        /\ work'[w].at # "rewrite"
        /\ work'[w].at \in Queued => work[w].at \in Queued \ {"move"}
    BY <1>7 DEF Talks, Acknowledges, Turns, Goes, QuietDisk, Sending, At, Queued
  <2> QED BY <1>2, <1>4, <2>1
<1>8. CASE Counts(w)
  <2>1. /\ UNCHANGED <<json, acked, failed, retries>>
        /\ work'[w].count = retries[m] + 1 /\ work[w].at = "fail"
    BY <1>1, <1>8 DEF Counts, QuietDisk
  <2> QED BY <1>2, <1>4, <2>1 DEF Queued
<1>9. CASE Rewrites(w)
  <2>1. /\ json' = json \cup {m} /\ UNCHANGED <<acked, failed>>
        /\ retries'[m] = work[w].count /\ work[w].at = "rewrite" /\ work'[w].at \notin Queued
    BY <1>1, <1>3, <1>9 DEF Rewrites, EndsAt, Goes, Queued
  <2>2. retries'[m] = retries[m] + 1 /\ retries[m] < MaxRetries /\ m \in json
    BY <1>2, <2>1 DEF Queued
  <2>3. retries'[m] <= MaxRetries
    BY <1>3, <2>2
  <2> QED BY <1>2, <1>4, <2>1, <2>2, <2>3 DEF Queued
<1>10. CASE Removes(w) \/ PutsAside(w)
  <2>1. /\ m \notin json' /\ UNCHANGED retries /\ work'[w].at \notin Queued
    BY <1>1, <1>10 DEF Removes, PutsAside, EndsAt, Goes, Queued
  <2> QED BY <1>2, <1>4, <2>1 DEF Queued
<1> QED BY <1>5, <1>6, <1>7, <1>8, <1>9, <1>10 DEF Effect

\* What a holder and a recovery's plan know of the entries stays true.
LEMMA EntriesPart ==
  ASSUME Shape, Known, Plans, OneHolder, Entries, [DeliveryNext]_dqVars
  PROVE  Entries'
<1>1. /\ \A k \in Recovery : \A e \in plan[k] :
           e.message \notin shared => e.message \in json /\ retries[e.message] = e.retries
      /\ \A m \in Message \ shared : EntryOf(m)
      /\ \A w \in Worker : Msg(w) \notin shared => JobOf(w)
  BY DEF Entries, PlanIsFresh
<1>2. CASE UNCHANGED dqVars
  BY <1>2 DEF Entries, PlanIsFresh, EntryOf, JobOf, Msg, dqVars, disk, history
<1>3. ASSUME NEW w \in Worker, Effect(w)
      PROVE  Entries'
  <2>0. PICK m0 \in Message : m0 = work[w].message
    BY WorkTypes DEF Shape
  <2>1. /\ UNCHANGED <<plan, shared>> /\ work'[w].message = m0
        /\ \A v \in Worker \ {w} : work'[v] = work[v]
    BY <1>3, <2>0, EffectAt DEF Moves
  <2>2. \A m \in Message \ {m0} :
          /\ (m \in json') = (m \in json) /\ (m \in acked') = (m \in acked)
          /\ (m \in failed') = (m \in failed) /\ retries'[m] = retries[m]
    BY <1>3, <2>0, EffectDisk DEF Msg
  <2>3. CASE m0 \in shared
    <3>1. ASSUME NEW k \in Recovery, NEW e \in plan'[k], e.message \notin shared'
          PROVE  e.message \in json' /\ retries'[e.message] = e.retries
      BY <1>1, <2>1, <2>2, <2>3, <3>1, PlanTypes DEF Shape
    <3>2. ASSUME NEW m \in Message \ shared' PROVE EntryOf(m)'
      BY <1>1, <2>1, <2>2, <2>3 DEF EntryOf
    <3>3. ASSUME NEW v \in Worker, Msg(v)' \notin shared' PROVE JobOf(v)'
      <4>1. v # w /\ work'[v] = work[v] /\ Msg(v) \notin shared /\ Msg(v) \in Message
        BY <2>1, <2>3, <3>3, WorkTypes DEF Msg, Shape
      <4>2. Msg(v) # m0 /\ Msg(v)' = Msg(v) /\ JobOf(v)
        BY <1>1, <2>3, <4>1 DEF Msg
      <4> QED BY <2>2, <4>1, <4>2 DEF JobOf
    <3> QED BY <3>1, <3>2, <3>3 DEF Entries, PlanIsFresh
  <2>4. CASE m0 \notin shared
    \* Either nothing changes on disk or w is alone with its message.
    <3>1. \/ UNCHANGED <<json, acked, failed, retries>>
          \/ /\ \A v \in Worker \ {w} : Msg(v) = m0 => work[v].at \notin Active
             /\ \A k \in Recovery : \A e \in plan[k] : e.message # m0
      <4>1. CASE Begins(w)
        BY <4>1 DEF Begins, QuietDisk
      <4>2. CASE ~Begins(w)
        <5>1. work[w].at \in Active
          BY <1>3, <4>2, EffectAt DEF Active
        <5> QED BY <2>0, <2>4, <5>1, Alone DEF Msg
      <4> QED BY <4>1, <4>2
    <3>2. EntryOf(m0)' /\ JobOf(w)'
      BY <1>3, <2>0, <2>4, MovedEntry DEF Msg
    <3>3. ASSUME NEW k \in Recovery, NEW e \in plan'[k], e.message \notin shared'
          PROVE  e.message \in json' /\ retries'[e.message] = e.retries
      <4>1. e \in plan[k] /\ e.message \in Message /\ e.message \notin shared
        BY <2>1, <3>3, PlanTypes DEF Shape
      <4> QED BY <1>1, <2>2, <3>1, <4>1
    <3>4. ASSUME NEW m \in Message \ shared' PROVE EntryOf(m)'
      <4>1. CASE m = m0
        BY <3>2, <4>1
      <4>2. CASE m # m0
        BY <1>1, <2>1, <2>2, <4>2 DEF EntryOf
      <4> QED BY <4>1, <4>2
    <3>5. ASSUME NEW v \in Worker, Msg(v)' \notin shared' PROVE JobOf(v)'
      <4>1. CASE v = w
        BY <3>2, <4>1
      <4>2. CASE v # w
        <5>1. work'[v] = work[v] /\ Msg(v)' = Msg(v) /\ Msg(v) \in Message /\ JobOf(v)
          BY <1>1, <2>1, <3>5, <4>2, WorkTypes DEF Msg, Shape
        <5>2. CASE UNCHANGED <<json, acked, failed, retries>> \/ Msg(v) # m0
          BY <2>2, <5>1, <5>2 DEF JobOf
        <5>3. CASE work[v].at \notin Active
          BY <5>1, <5>3 DEF JobOf, Active, Queued
        <5> QED BY <3>1, <4>2, <5>2, <5>3
      <4> QED BY <4>1, <4>2
    <3> QED BY <3>3, <3>4, <3>5 DEF Entries, PlanIsFresh
  <2> QED BY <2>3, <2>4
<1>4. ASSUME NEW crashed \in BOOLEAN, StartServer(crashed)
      PROVE  Entries'
  <2>1. UNCHANGED <<json, acked, failed, retries, shared>>
    BY <1>4 DEF StartServer, disk, history
  <2>2. /\ \A v \in Worker : work'[v] = work[v] \/ work'[v].at \in {"over", "list"}
        /\ \A k \in Recovery : plan'[k] \subseteq plan[k]
    BY <1>4, StartEffects
  <2>3. ASSUME NEW v \in Worker, Msg(v)' \notin shared' PROVE JobOf(v)'
    BY <1>1, <2>1, <2>2, <2>3 DEF JobOf, Msg, Queued
  <2> QED BY <1>1, <2>1, <2>2, <2>3 DEF Entries, PlanIsFresh, EntryOf
<1>5. ASSUME NEW k \in Recovery, RecoveryEffect(k)
      PROVE  Entries'
  <2> DEFINE r == Recover(k)
  <2>1. UNCHANGED <<json, acked, failed, retries>> /\ shared \subseteq shared'
    BY <1>5 DEF RecoveryEffect, RecoveryFrame, Lists, HasRead, Stops, Reads, Skips, Takes, Defers
  <2>2. ASSUME NEW j \in Recovery, NEW e \in plan'[j], e.message \notin shared'
        PROVE  e.message \in json' /\ retries'[e.message] = e.retries
    <3>1. plan \in [Recovery -> SUBSET Entry]
      BY DEF Shape, DeliveryTypeOK
    <3>2. e \in plan[j] \/ \E m \in Message : m \in json /\ e = [message |-> m, retries |-> retries[m]]
      <4>1. CASE plan' = [plan EXCEPT ![k] = {}] \/ \E x : plan' = [plan EXCEPT ![k] = @ \ {x}]
        BY <3>1, <4>1
      <4>2. CASE UNCHANGED plan
        BY <4>2
      <4>3. CASE \E m \in Message : Reads(k, m)
        BY <3>1, <4>3 DEF Reads
      <4> QED BY <1>5, <4>1, <4>2, <4>3
              DEF RecoveryEffect, Lists, HasRead, Stops, Skips, Takes, Defers
    <3> QED BY <1>1, <2>1, <2>2, <3>2
  <2>3. ASSUME NEW v \in Worker, Msg(v)' \notin shared' PROVE JobOf(v)'
    <3>1. CASE work'[v] = work[v] \/ work'[v].at \notin Queued
      BY <1>1, <2>1, <2>3, <3>1 DEF JobOf, Msg, Queued
    <3>2. ASSUME NEW e \in plan[k], Takes(k, e), v = r
          PROVE  JobOf(v)'
      <4>1. /\ work'[v].at = TakesUp(e) /\ work'[v].message = e.message
            /\ e.message \in Message /\ e.retries \in Nat
        BY <3>2, PlanTypes DEF Takes, Anew, Shape
      <4>2. e.message \notin shared
        BY <2>1, <2>3, <4>1 DEF Msg
      <4>3. e.message \in json /\ retries[e.message] = e.retries
        BY <1>1, <4>2
      <4>4. (TakesUp(e) = "send" /\ e.retries < MaxRetries) \/ TakesUp(e) = "move"
        BY <4>1, Bounds DEF TakesUp
      <4> QED BY <2>1, <4>1, <4>3, <4>4 DEF JobOf, Msg
    <3>3. \/ work'[v] = work[v] \/ work'[v].at \notin Queued
          \/ \E e \in plan[k] : Takes(k, e) /\ v = r
      <4>1. \A e \in plan[k] : Takes(k, e) => Moves(r)
        BY DEF Takes, Anew
      <4>2. \/ UNCHANGED work \/ Goes(r, "read") \/ Goes(r, "next") \/ Anew(r, "over", NoMessage)
            \/ \E e \in plan[k] : Takes(k, e)
        BY <1>5 DEF RecoveryEffect, Lists, HasRead, Stops, Reads, Skips, Defers
      <4> QED BY <4>1, <4>2 DEF Goes, Anew, Moves, Queued
    <3> QED BY <3>1, <3>2, <3>3
  <2>4. \A m \in Message \ shared' : EntryOf(m)'
    BY <1>1, <2>1 DEF EntryOf
  <2> QED BY <2>2, <2>3, <2>4 DEF Entries, PlanIsFresh
<1> QED BY <1>2, <1>3, <1>4, <1>5, DeliverySteps

-----------------------------------------------------------------------------
\* What a worker has sent, when it moves.
LEMMA MovedSent ==
  ASSUME Shape, Shape', Whole, NEW w \in Worker, Effect(w)
  PROVE  SentBy(w)'
<1> DEFINE Sends == {"idle", "write", "send", "sendUnqueued"}
<1>1. PICK m \in Message : m = work[w].message
  BY WorkTypes DEF Shape
<1>2. /\ work'[w].message = m /\ bestEffort' = bestEffort /\ aborted \subseteq aborted'
  BY <1>1, EffectAt DEF Effect
<1>3. m \notin bestEffort =>
        /\ work[w].at \in Sends => 1..(work[w].payload - 1) \subseteq sent[m]
        /\ work[w].at = "ack" /\ m \notin aborted => sent[m] = 1..Payloads[m]
  BY <1>1 DEF Whole, SentBy, Msg
<1>4. /\ work[w].payload \in Nat /\ work[w].payload >= 1 /\ Payloads[m] \in Nat
      /\ sent \in [Message -> SUBSET Nat] /\ sent[m] \subseteq 1..Payloads[m]
  BY WorkTypes, Bounds DEF Shape, DeliveryTypeOK
\* It is enough to look at what is sent of m.
<1>5. ASSUME m \notin bestEffort =>
               /\ work'[w].at \in Sends => 1..(work'[w].payload - 1) \subseteq sent'[m]
               /\ work'[w].at = "ack" /\ m \notin aborted' => sent'[m] = 1..Payloads[m]
      PROVE  SentBy(w)'
  BY <1>2, <1>5 DEF SentBy, Msg
<1>6. CASE Begins(w) \/ Accepts(w) \/ Refuses(w)
  <2>1. /\ UNCHANGED sent /\ work'[w].payload = work[w].payload
        /\ work[w].at \in Sends /\ work'[w].at # "ack"
    BY <1>6 DEF Begins, Accepts, Refuses, Goes
  <2> QED BY <1>3, <1>5, <2>1
<1>7. CASE Talks(w)
  <2>1. /\ work[w].at \in Sends /\ work'[w].at # "ack" /\ work'[w].payload = work[w].payload + 1
    BY <1>7 DEF Talks, Goes, Sending, At
  <2>2. m \notin bestEffort => sent'[m] = sent[m] \cup {work[w].payload}
    BY <1>1, <1>4, <1>7 DEF Talks, Msg
  <2>3. work'[w].payload - 1 = work[w].payload
    BY <1>4, <2>1
  <2>4. 1..work[w].payload \subseteq 1..(work[w].payload - 1) \cup {work[w].payload}
    BY <1>4
  <2> QED BY <1>3, <1>5, <2>1, <2>2, <2>3, <2>4
<1>8. CASE Acknowledges(w)
  <2>1. /\ UNCHANGED sent /\ work[w].at \in Sends /\ work'[w].at = "ack"
        /\ work[w].payload > Payloads[m] \/ m \in aborted'
    BY <1>1, <1>8 DEF Acknowledges, Goes, Msg
  <2>2. ASSUME m \notin bestEffort, m \notin aborted'
        PROVE  sent'[m] = 1..Payloads[m]
    <3>1. work[w].payload > Payloads[m] /\ 1..(work[w].payload - 1) \subseteq sent[m]
      BY <1>3, <2>1, <2>2
    <3>2. 1..Payloads[m] \subseteq 1..(work[w].payload - 1)
      BY <1>4, <3>1
    <3> QED BY <1>4, <2>1, <3>1, <3>2
  <2> QED BY <1>5, <2>1, <2>2
<1>9. CASE Turns(w) \/ Counts(w) \/ Rewrites(w) \/ Removes(w) \/ PutsAside(w) \/ Leaves(w)
  <2>1. work'[w].at \notin Sends \cup {"ack"}
    BY <1>9 DEF Turns, Counts, Rewrites, Removes, PutsAside, Leaves, Goes, EndsAt
  <2> QED BY <1>5, <2>1
<1> QED BY <1>6, <1>7, <1>8, <1>9 DEF Effect

\* A message leaves the queue when it has been sent as a whole or is put aside.
LEMMA WholePart ==
  ASSUME Shape, Shape', Whole, [DeliveryNext]_dqVars
  PROVE  Whole'
<1>1. CASE UNCHANGED dqVars
  BY <1>1 DEF Whole, NotLost, SentBy, Msg, dqVars, disk, history
<1>2. ASSUME NEW w \in Worker, Effect(w)
      PROVE  Whole'
  <2>1. PICK m0 \in Message : m0 = work[w].message
    BY WorkTypes DEF Shape
  <2>2. /\ bestEffort' = bestEffort /\ aborted \subseteq aborted'
        /\ \A v \in Worker \ {w} : work'[v] = work[v]
    BY <1>2, EffectAt DEF Effect, Moves
  <2>3. \A m \in Message : sent[m] \subseteq sent'[m] /\ sent'[m] \subseteq 1..Payloads[m]
    <3>1. UNCHANGED sent \/ sent' = [sent EXCEPT ![m0] = @ \cup {work[w].payload}]
      BY <1>2, <2>1 DEF Effect, Begins, Accepts, Refuses, Talks, Acknowledges, Turns, Counts,
                        Rewrites, Removes, PutsAside, Leaves, QuietDisk, Msg
    <3>2. sent \in [Message -> SUBSET Nat]
      BY DEF Shape
    <3> QED BY <3>1, <3>2 DEF Shape, DeliveryTypeOK
  <2>4. ASSUME NEW v \in Worker PROVE SentBy(v)'
    <3>1. CASE v = w
      BY <1>2, <3>1, MovedSent
    <3>2. CASE v # w
      <4>1. work'[v] = work[v] /\ work[v].message \in Message /\ SentBy(v)
        BY <2>2, <3>2, WorkTypes DEF Shape, Whole
      <4> QED BY <2>2, <2>3, <4>1 DEF SentBy, Msg
    <3> QED BY <3>1, <3>2
  <2>5. ASSUME NEW m \in accepted', m \notin bestEffort', m \notin aborted'
        PROVE  m \in json' \cup failed' \/ sent'[m] = 1..Payloads[m]
    <3>1. m \in Message /\ m \notin bestEffort /\ m \notin aborted
      BY <2>2, <2>5 DEF Shape, DeliveryTypeOK
    <3>2. m \in accepted \/ m \in json'
      BY <1>2, <2>1, <2>5 DEF Effect, Begins, Accepts, Refuses, Talks, Acknowledges, Turns, Counts,
                        Rewrites, Removes, PutsAside, Leaves, QuietDisk, Msg
    <3>3. failed \subseteq failed' /\ (m \in json => m \in json' \cup failed' \/ (Removes(w) /\ m = m0))
      BY <1>2, <2>1 DEF Effect, Begins, Accepts, Refuses, Talks, Acknowledges, Turns, Counts,
                        Rewrites, Removes, PutsAside, Leaves, QuietDisk, Msg
    <3>4. ASSUME sent[m] = 1..Payloads[m]
          PROVE  sent'[m] = 1..Payloads[m]
      BY <2>3, <3>1, <3>4
    <3>5. ASSUME Removes(w), m = m0
          PROVE  sent[m] = 1..Payloads[m]
      BY <2>1, <3>1, <3>5 DEF Removes, Whole, SentBy, Msg
    <3>6. m \in accepted => m \in json \cup failed \/ sent[m] = 1..Payloads[m]
      BY <3>1 DEF Whole, NotLost
    <3> QED BY <3>2, <3>3, <3>4, <3>5, <3>6
  <2> QED BY <2>4, <2>5 DEF Whole, NotLost
<1>3. ASSUME NEW crashed \in BOOLEAN, StartServer(crashed)
      PROVE  Whole'
  <2>1. UNCHANGED <<json, failed, accepted, bestEffort, aborted, sent>>
    BY <1>3 DEF StartServer, disk, history
  <2>2. \A v \in Worker : work'[v] = work[v] \/ work'[v].at \in {"over", "list"}
    BY <1>3, StartEffects
  <2> QED BY <2>1, <2>2 DEF Whole, NotLost, SentBy, Msg
<1>4. ASSUME NEW k \in Recovery, RecoveryEffect(k)
      PROVE  Whole'
  <2>1. UNCHANGED <<json, failed, accepted, bestEffort, aborted, sent>>
    BY <1>4 DEF RecoveryEffect, RecoveryFrame
  <2>2. \A v \in Worker : \/ work'[v] = work[v] \/ work'[v].at \in {"over", "read", "next", "move"}
                          \/ work'[v].at = "send" /\ work'[v].payload = 1
    <3>1. \A e \in plan[k] : Takes(k, e) => Moves(Recover(k)) /\ work'[Recover(k)].payload = 1
                               /\ work'[Recover(k)].at \in {"send", "move"}
      BY DEF Takes, Anew, TakesUp
    <3>2. \/ UNCHANGED work \/ Goes(Recover(k), "read") \/ Goes(Recover(k), "next")
          \/ Anew(Recover(k), "over", NoMessage) \/ \E e \in plan[k] : Takes(k, e)
      BY <1>4 DEF RecoveryEffect, Lists, HasRead, Stops, Reads, Skips, Defers
    <3> QED BY <3>1, <3>2 DEF Goes, Anew, Moves
  <2>3. ASSUME NEW v \in Worker PROVE SentBy(v)'
    <3>1. CASE work'[v] = work[v]
      BY <2>1, <3>1 DEF Whole, SentBy, Msg
    <3>2. CASE work'[v].at \in {"over", "read", "next", "move"}
      BY <3>2 DEF SentBy
    <3>3. CASE work'[v].at = "send" /\ work'[v].payload = 1
      <4>1. 1..(work'[v].payload - 1) = {}
        BY <3>3
      <4> QED BY <3>3, <4>1 DEF SentBy
    <3> QED BY <2>2, <3>1, <3>2, <3>3
  <2> QED BY <2>1, <2>3 DEF Whole, NotLost
<1> QED BY <1>1, <1>2, <1>3, <1>4, DeliverySteps

-----------------------------------------------------------------------------
\* The queue starts in such a state, with what an earlier process has left.
LEMMA DeliveryInitInv == DeliveryInit => QueueInv
<1> SUFFICES ASSUME DeliveryInit PROVE QueueInv
  OBVIOUS
<1>1. NoMessage \in Message /\ LeftOver \subseteq Message /\ 0 \in Nat /\ LeftRetries \in Nat
      /\ LeftRetries <= MaxRetries /\ MaxRetries \in Nat \ {0} /\ MaxStarts \in Nat \ {0}
  BY Messages, Bounds DEF NoMessage
<1>2. \A m \in Message, b \in {"idle", "over"} :
        Job(b, m) \in Jobs /\ Job(b, m).at = b /\ Job(b, m).message = m /\ Job(b, m).payload = 1
  BY DEF Job, Jobs, Points
<1>3. /\ \A m \in Message : work[Live(m)] = IF m \in LeftOver THEN Over(m) ELSE Idle(m)
      /\ \A k \in Recovery : work[Recover(k)] = Idle(NoMessage)
  BY Workers DEF DeliveryInit
<1>4. /\ \A m \in Message : /\ work[Live(m)].message = m /\ work[Live(m)].payload = 1
                            /\ work[Live(m)].at = IF m \in LeftOver THEN "over" ELSE "idle"
                            /\ work[Live(m)] \in Jobs
      /\ \A k \in Recovery : /\ work[Recover(k)].at = "idle" /\ work[Recover(k)].payload = 1
                             /\ work[Recover(k)] \in Jobs
  BY <1>1, <1>2, <1>3 DEF Idle, Over
<1>5. \A w \in Worker : work[w] \in Jobs /\ work[w].payload = 1 /\ work[w].at \in {"idle", "over"}
  BY <1>4, Workers
<1>6. work \in [Worker -> Jobs]
  <2>1. \E f : work = [w \in Worker |-> f[w]]
    <3> DEFINE f == [w \in Worker |-> CASE w[1] = "recovery" -> Idle(NoMessage)
                             [] w[1] = "live" /\ w[2] \in LeftOver -> Over(w[2])
                             [] OTHER -> Idle(w[2])]
    <3>1. work = f
      BY DEF DeliveryInit
    <3> HIDE DEF f
    <3>2. work = [w \in Worker |-> f[w]]
      BY <3>1 DEF f
    <3> QED BY <3>2
  <2> QED BY <1>5, <2>1
<1>7. Shape
  <2>1. DeliveryTypeOK
    <3>1. \A m \in Message : sent[m] \subseteq 1..Payloads[m]
      BY DEF DeliveryInit
    <3>2. retries \in [Message -> Nat]
      BY <1>1 DEF DeliveryInit
    <3>3. work \in [Worker ->
            [at : {"idle", "over", "write", "send", "sendUnqueued", "ack", "unlink", "fail",
                   "rewrite", "move", "list", "read", "next"},
             message : Message, payload : Nat, partial : BOOLEAN, count : Nat]]
      BY <1>6 DEF Jobs, Points
    <3>4. /\ bestEffort \subseteq BestEffort /\ starts \in 0..MaxStarts
          /\ json \cup marker \cup failed \cup accepted \cup aborted \cup acked \cup shared
               \subseteq Message
      BY Messages, Bounds DEF DeliveryInit
    <3>5. /\ listed \in [Recovery -> SUBSET [message : Message, json : BOOLEAN]]
          /\ plan \in [Recovery -> SUBSET Entry]
      BY DEF DeliveryInit
    <3> QED BY <3>1, <3>2, <3>3, <3>4, <3>5 DEF DeliveryTypeOK
  <2>2. \A w \in Worker : work[w].payload >= 1
    BY <1>5
  <2>3. sent \in [Message -> SUBSET Nat]
    BY DEF DeliveryInit
  <2> QED BY <1>4, <2>1, <2>2, <2>3 DEF Shape, Msg
<1>8. \A w \in Worker, m \in Message : ~Holds(w, m)
  BY <1>5 DEF Holds, Busy, Active, Planned, DeliveryInit
<1>9. Known
  <2>1. json \cup failed \cup acked \subseteq accepted
    BY DEF DeliveryInit
  <2>2. \A k \in Recovery : \A m \in Message : Holds(Recover(k), m) => m \in accepted
    BY <1>8, Workers
  <2>3. ASSUME NEW m \in Message
        PROVE  /\ work[Live(m)].at \in {"idle", "write", "sendUnqueued"} => m \notin accepted
               /\ work[Live(m)].at \in Queued => m \in accepted
               /\ m \notin accepted => retries[m] = 0
    <3>1. accepted = LeftOver /\ retries[m] = IF m \in LeftOver THEN LeftRetries ELSE 0
      BY DEF DeliveryInit
    <3> QED BY <1>4, <3>1 DEF Queued
  <2> QED BY <2>1, <2>2, <2>3 DEF Known
<1>10. Plans
  BY <1>4 DEF Plans, PlanOf, DeliveryInit
<1>11. OneHolder
  BY <1>8 DEF OneHolder
<1>12. Entries
  <2>1. PlanIsFresh
    BY DEF PlanIsFresh, DeliveryInit
  <2>2. ASSUME NEW m \in Message PROVE EntryOf(m)
    <3>1. m \notin acked \cup failed
      BY DEF DeliveryInit
    <3>2. retries[m] = IF m \in LeftOver THEN LeftRetries ELSE 0
      BY DEF DeliveryInit
    <3>3. retries[m] <= MaxRetries
      BY <1>1, <3>2
    <3> QED BY <3>1, <3>3 DEF EntryOf
  <2>3. \A w \in Worker : JobOf(w)
    BY <1>5 DEF JobOf, Queued
  <2> QED BY <2>1, <2>2, <2>3 DEF Entries
<1>13. Whole
  <2>1. \A w \in Worker : SentBy(w)
    BY <1>5 DEF SentBy
  <2>2. NotLost
    BY DEF NotLost, DeliveryInit
  <2> QED BY <2>1, <2>2 DEF Whole
<1> QED BY <1>7, <1>9, <1>10, <1>11, <1>12, <1>13 DEF QueueInv

\* And stays in one.
LEMMA DeliveryStep == QueueInv /\ [DeliveryNext]_dqVars => QueueInv'
<1> SUFFICES ASSUME QueueInv, [DeliveryNext]_dqVars PROVE QueueInv'
  OBVIOUS
<1> USE DEF QueueInv
<1>1. Shape'
  BY ShapePart
<1>2. Known'
  BY KnownPart
<1>3. Plans'
  BY PlansPart
<1>4. OneHolder'
  BY HolderPart
<1>5. Entries'
  BY EntriesPart
<1>6. Whole'
  BY <1>1, WholePart
<1> QED BY <1>1, <1>2, <1>3, <1>4, <1>5, <1>6

\* The invariant holds in every reachable state.
LEMMA DeliveryInvariant == DeliverySpec => []QueueInv
BY DeliveryInitInv, DeliveryStep, PTL DEF DeliverySpec

\* The state is well formed, and a recovery that is alone in taking up an entry
\* has read the count that is on disk.
THEOREM DeliveryCorrect == DeliverySpec => []DeliveryInv
<1>1. QueueInv => DeliveryInv
  BY DEF QueueInv, Shape, Entries, DeliveryInv
<1> QED BY <1>1, DeliveryInvariant, PTL

\* A message the queue has accepted is in it, in failed/, or sent as a whole.
THEOREM MessageNotLost == DeliverySpec => []NotLost
<1>1. QueueInv => NotLost
  BY DEF QueueInv, Whole
<1> QED BY <1>1, DeliveryInvariant, PTL

\* What was acknowledged or given up is not sent again, through crashes and
\* restarts, unless a recovery took the entry from other hands.
THEOREM MessageNotReplayed == DeliverySpec => []NotReplayed
<1>1. ASSUME QueueInv, NEW m \in acked \cup failed, m \notin shared
      PROVE  /\ m \notin json /\ ~Sending(Live(m))
             /\ \A k \in Recovery : ~(HeldBy(k, m) /\ Sending(Recover(k)))
  <2>1. m \in Message /\ m \in accepted
    BY <1>1 DEF QueueInv, Shape, DeliveryTypeOK, Known
  <2>2. m \notin json
    BY <1>1, <2>1 DEF QueueInv, Entries, EntryOf
  <2>3. \A w \in Worker : Msg(w) = m => work[w].at \notin Queued
    BY <1>1, <2>2 DEF QueueInv, Entries, JobOf
  <2>4. ~Sending(Live(m))
    BY <1>1, <2>1, <2>3, Workers DEF QueueInv, Shape, Known, Sending, At, Queued
  <2>5. ASSUME NEW k \in Recovery, HeldBy(k, m), Sending(Recover(k))
        PROVE  FALSE
    <3>1. CASE \E e \in plan[k] : e.message = m
      BY <1>1, <2>2, <3>1 DEF QueueInv, Entries, PlanIsFresh
    <3>2. CASE Msg(Recover(k)) = m
      BY <1>1, <2>3, <2>5, <3>2, Workers DEF QueueInv, Shape, Sending, At, Queued
    <3> QED BY <2>5, <3>1, <3>2 DEF HeldBy
  <2> QED BY <2>2, <2>4, <2>5
<1>2. QueueInv => NotReplayed
  BY <1>1 DEF NotReplayed
<1> QED BY <1>2, DeliveryInvariant, PTL

\* No attempt that is noted is forgotten or counted twice, and MAX_RETRIES bounds
\* the count, for an entry in one hand.
THEOREM AttemptsCounted == DeliverySpec => RetriesCounted
<1> DEFINE Counted == \A m \in Message \ shared' :
                        retries'[m] \in {retries[m], retries[m] + 1} /\ retries'[m] <= MaxRetries
<1>1. ASSUME QueueInv, QueueInv', [DeliveryNext]_dqVars
      PROVE  Counted
  <2> SUFFICES ASSUME NEW m \in Message, m \notin shared'
               PROVE  retries'[m] \in {retries[m], retries[m] + 1} /\ retries'[m] <= MaxRetries
    OBVIOUS
  <2>1. retries'[m] <= MaxRetries
    BY <1>1 DEF QueueInv, Entries, EntryOf
  <2>2. retries \in [Message -> Nat] /\ Shape
    BY <1>1 DEF QueueInv, Shape, DeliveryTypeOK
  <2>3. CASE UNCHANGED retries
    BY <2>1, <2>3
  <2>4. ASSUME NEW w \in Worker, Effect(w)
        PROVE  retries'[m] \in {retries[m], retries[m] + 1}
    <3>1. UNCHANGED retries \/ Rewrites(w)
      BY <2>4 DEF Effect, Begins, Accepts, Refuses, Talks, Acknowledges, Turns, Counts,
                  Removes, PutsAside, Leaves, QuietDisk
    <3>2. CASE Rewrites(w)
      <4>1. /\ retries' = [retries EXCEPT ![Msg(w)] = work[w].count] /\ work[w].at = "rewrite"
            /\ m \notin shared
        BY <2>4, <3>2, EffectAt DEF Rewrites
      <4>2. m = Msg(w) => work[w].count = retries[m] + 1
        BY <1>1, <4>1 DEF QueueInv, Entries, JobOf
      <4> QED BY <2>2, <4>1, <4>2
    <3> QED BY <3>1, <3>2
  <2>5. \/ UNCHANGED retries \/ \E w \in Worker : Effect(w)
    BY <1>1, <2>2, DeliverySteps
       DEF dqVars, disk, StartServer, RecoveryEffect, RecoveryFrame
  <2> QED BY <2>1, <2>3, <2>4, <2>5
<1>2. QueueInv /\ QueueInv' /\ [DeliveryNext]_dqVars => [Counted]_dqVars
  BY <1>1
<1> QED BY <1>2, DeliveryInvariant, PTL DEF DeliverySpec, RetriesCounted
=============================================================================
