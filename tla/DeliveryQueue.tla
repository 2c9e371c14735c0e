--------------------------- MODULE DeliveryQueue ---------------------------
(***************************************************************************)
(* The write-ahead queue of outbound messages (infra/outbound/             *)
(* delivery-queue.ts, deliverOutboundPayloads in deliver.ts).  A delivery  *)
(* writes its message to disk, sends it payload by payload, and removes or *)
(* updates the file; when a server starts, the recovery sends what it      *)
(* finds in the directory, beside the live traffic.  Every await of a file *)
(* operation or of a send ends an action.                                  *)
(***************************************************************************)
EXTENDS Naturals

CONSTANTS
  Message,     \* messages, numbered in the order of enqueuedAt
  Payloads,    \* how many payloads each message has (a function)
  BestEffort,  \* the messages that may be sent with bestEffort
  OnError,     \* the messages whose caller passes onError
  MaxRetries,
  MaxStarts,   \* bound of the model: how often a server starts
  LeftOver,    \* the messages that an earlier process has left in the queue
  LeftRetries  \* with this retryCount

ASSUME Messages == Message \subseteq Nat /\ Message # {}
                    /\ BestEffort \cup OnError \cup LeftOver \subseteq Message
ASSUME Bounds == Payloads \in [Message -> Nat \ {0}] /\ {MaxRetries, MaxStarts} \subseteq Nat \ {0}
                    /\ LeftRetries \in 0..MaxRetries

VARIABLES
  bestEffort, \* the messages that are sent with bestEffort
  json,      \* the messages with a file {id}.json
  retries,   \* its retryCount; lastAttemptAt is set with the first retry
  marker,    \* the messages with a file {id}.delivered
  failed,    \* the messages with a file in failed/
  starts,    \* how often a server has started
  work,      \* what each delivery and each recovery is doing
  listed,    \* the files that each recovery has listed and not yet read
  plan,      \* the entries that each recovery has read and not yet taken up
  sent,      \* history: the payloads of each message that have gone out
  accepted,  \* history: the messages that were written to the queue
  aborted,   \* history: the messages whose caller aborted the delivery
  acked,     \* history: the messages whose delivery was acknowledged on disk
  shared     \* history: entries read by a recovery while in other hands

disk == <<bestEffort, json, retries, marker, failed>>
history == <<sent, accepted, aborted, acked, shared>>
dqVars == <<disk, starts, work, listed, plan, history>>

Recovery == 1..MaxStarts
Live(m) == <<"live", m>>
Recover(k) == <<"recovery", k>>
Worker == {Live(m) : m \in Message} \cup {Recover(k) : k \in Recovery}

Job(at, m) == [at |-> at, message |-> m, payload |-> 1, partial |-> FALSE, count |-> 0]
Idle(m) == Job("idle", m)
Over(m) == Job("over", m)

Entry == [message : Message, retries : Nat]

DeliveryTypeOK ==
  /\ bestEffort \subseteq BestEffort
  /\ json \cup marker \cup failed \cup accepted \cup aborted \cup acked \cup shared \subseteq Message
  /\ retries \in [Message -> Nat] /\ starts \in 0..MaxStarts
  /\ work \in [Worker ->
       [at : {"idle", "over", "write", "send", "sendUnqueued", "ack", "unlink", "fail", "rewrite",
              "move", "list", "read", "next"},
        message : Message, payload : Nat, partial : BOOLEAN, count : Nat]]
  /\ listed \in [Recovery -> SUBSET [message : Message, json : BOOLEAN]]
  /\ plan \in [Recovery -> SUBSET Entry]
  /\ \A m \in Message : sent[m] \subseteq 1..Payloads[m]

NoMessage == CHOOSE m \in Message : TRUE

DeliveryInit ==
  /\ bestEffort \in SUBSET BestEffort
  /\ json = LeftOver /\ marker = {} /\ failed = {}
  /\ retries = [m \in Message |-> IF m \in LeftOver THEN LeftRetries ELSE 0]
  /\ starts = 0
  /\ work = [w \in Worker |-> CASE w[1] = "recovery" -> Idle(NoMessage)
                             [] w[1] = "live" /\ w[2] \in LeftOver -> Over(w[2])
                             [] OTHER -> Idle(w[2])]
  /\ listed = [k \in Recovery |-> {}] /\ plan = [k \in Recovery |-> {}]
  /\ sent = [m \in Message |-> {}]
  /\ accepted = LeftOver /\ aborted = {} /\ acked = {} /\ shared = {}

-----------------------------------------------------------------------------
At(w, at) == work[w].at = at
Msg(w) == work[w].message

\* The worker goes on at another point of its code.
Goto(w, at) == work' = [work EXCEPT ![w].at = at]

\* deliverOutboundPayloads returns; a recovery goes on with its next entry.
Ended(w) ==
  work' = [work EXCEPT ![w] = IF w[1] = "live" THEN Over(Msg(w)) ELSE Job("next", Msg(w))]

\* Mutant of Caught: a live delivery acknowledges what it could not send.
Caught_Acknowledges(w) ==
  CASE At(w, "sendUnqueued") -> Ended(w)
    [] w[1] = "live" /\ ~At(w, "sendUnqueued") -> Goto(w, "ack")
    [] w[1] = "recovery" -> \E next \in {"fail", "move"} : Goto(w, next)

\* The error handlers of a live delivery and of the recovery.
Caught(w) ==
  CASE At(w, "sendUnqueued") -> Ended(w)
    [] w[1] = "live" /\ ~At(w, "sendUnqueued") -> Goto(w, "fail")
    [] w[1] = "recovery" -> \E next \in {"fail", "move"} : Goto(w, next)

\* deliverOutboundPayloads, up to the write of the entry.
Deliver(m) ==
  /\ starts > 0 /\ At(Live(m), "idle")
  /\ \A n \in Message : n < m => ~At(Live(n), "idle")
  /\ Goto(Live(m), "write")
  /\ UNCHANGED <<disk, starts, listed, plan, history>>

\* enqueueDelivery writes the entry, or fails and the message is sent without one.
EnqueueDelivery(m) ==
  /\ At(Live(m), "write")
  /\ \/ /\ json' = json \cup {m} /\ accepted' = accepted \cup {m}
        /\ Goto(Live(m), "send")
     \/ /\ Goto(Live(m), "sendUnqueued")
        /\ UNCHANGED <<json, accepted>>
  /\ UNCHANGED <<bestEffort, retries, marker, failed, starts, listed, plan, sent, aborted, acked, shared>>

Sending(w) == At(w, "send") \/ At(w, "sendUnqueued")
\* Mutant of HasPayload: the loop runs one payload too far.
HasPayload(w) == Sending(w) /\ work[w].payload <= Payloads[Msg(w)]

SendPayload(w) ==
  /\ HasPayload(w)
  /\ sent' = [sent EXCEPT ![Msg(w)] = @ \cup {work[w].payload}]
  /\ work' = [work EXCEPT ![w].payload = @ + 1]
  /\ UNCHANGED <<disk, starts, listed, plan, accepted, aborted, acked, shared>>

\* The channel refuses a payload of a best-effort message: onError, if there is
\* one, notes it, and the rest is sent.  The recovery passes none.
PayloadFails(w) ==
  /\ HasPayload(w) /\ Msg(w) \in bestEffort
  /\ work' = [work EXCEPT ![w].payload = @ + 1,
                          ![w].partial = @ \/ (w[1] = "live" /\ Msg(w) \in OnError)]
  /\ UNCHANGED <<disk, starts, listed, plan, history>>

\* The channel refuses a payload of another message, or what comes before the
\* first one or after the last one (the mirrored transcript) throws.
DeliveryThrows(w) ==
  /\ Sending(w)
  /\ Msg(w) \in bestEffort => work[w].payload \in {1, Payloads[Msg(w)] + 1}
  /\ Caught(w)
  /\ UNCHANGED <<disk, starts, listed, plan, history>>

\* The caller's abort signal is seen before a payload.  A best-effort message
\* takes it for the failure of that payload.
Abort(m) ==
  LET w == Live(m) IN
    /\ HasPayload(w) /\ m \notin bestEffort
    /\ aborted' = aborted \cup {m}
    /\ IF At(w, "send") THEN Goto(w, "ack") ELSE Ended(w)
    /\ UNCHANGED <<disk, starts, listed, plan, sent, accepted, acked, shared>>

\* The core has returned its results.
Delivered(w) ==
  /\ Sending(w) /\ work[w].payload > Payloads[Msg(w)]
  /\ CASE At(w, "sendUnqueued") -> Ended(w)
       [] At(w, "send") -> Goto(w, IF work[w].partial THEN "fail" ELSE "ack")
  /\ UNCHANGED <<disk, starts, listed, plan, history>>

\* ackDelivery, phase 1: the rename.  An error other than a missing file is
\* swallowed by a live delivery and taken for a failed one by the recovery.
AckDelivery(w) ==
  /\ At(w, "ack")
  /\ \/ /\ json' = json \ {Msg(w)}
        /\ marker' = IF Msg(w) \in json THEN marker \cup {Msg(w)} ELSE marker
        /\ acked' = acked \cup {Msg(w)}
        /\ Goto(w, "unlink")
     \/ /\ Msg(w) \in json
        /\ IF w[1] = "live" THEN Ended(w) ELSE Goto(w, "fail")
        /\ UNCHANGED <<json, marker, acked>>
  /\ UNCHANGED <<bestEffort, retries, failed, starts, listed, plan, sent, accepted, aborted, shared>>

\* Phase 2: the marker is removed.
UnlinkMarker(w) ==
  /\ At(w, "unlink")
  /\ marker' = marker \ {Msg(w)}
  /\ Ended(w)
  /\ UNCHANGED <<bestEffort, json, retries, failed, starts, listed, plan, history>>

\* failDelivery reads the entry; without a file it has failed, and that is ignored.
FailDelivery(w) ==
  /\ At(w, "fail")
  /\ \/ /\ Msg(w) \in json
        /\ work' = [work EXCEPT ![w].at = "rewrite", ![w].count = retries[Msg(w)] + 1]
     \/ /\ Msg(w) \notin json
        /\ Ended(w)
  /\ UNCHANGED <<disk, starts, listed, plan, history>>

\* Then it writes it back, whatever has become of the file; or it cannot.
RewriteEntry(w) ==
  /\ At(w, "rewrite")
  /\ \/ /\ json' = json \cup {Msg(w)}
        /\ retries' = [retries EXCEPT ![Msg(w)] = work[w].count]
     \/ UNCHANGED <<json, retries>>
  /\ Ended(w)
  /\ UNCHANGED <<bestEffort, marker, failed, starts, listed, plan, history>>

\* Mutant of MoveToFailed: the file is copied.
MoveToFailed_Copies(w) ==
  /\ At(w, "move")
  /\ failed' = failed \cup ({Msg(w)} \cap json)
  /\ Ended(w)
  /\ UNCHANGED <<bestEffort, json, retries, marker, starts, listed, plan, history>>

\* moveToFailed; a missing file is only logged.
MoveToFailed(w) ==
  /\ At(w, "move")
  /\ \/ /\ Msg(w) \in json
        /\ json' = json \ {Msg(w)} /\ failed' = failed \cup {Msg(w)}
     \/ UNCHANGED <<json, failed>>
  /\ Ended(w)
  /\ UNCHANGED <<bestEffort, retries, marker, starts, listed, plan, history>>

-----------------------------------------------------------------------------
\* A server starts and its recovery lists the directory: in the process that
\* runs already, beside what goes on in it, or in a new one after a crash.
Files ==
  {[message |-> m, json |-> TRUE] : m \in json} \cup {[message |-> m, json |-> FALSE] : m \in marker}

StartServer(crashed) ==
  /\ starts < MaxStarts
  /\ starts' = starts + 1
  /\ work' = [w \in Worker |->
       CASE w = Recover(starts + 1) -> Job("list", NoMessage)
         [] w # Recover(starts + 1) /\ crashed /\ ~At(w, "idle") -> Over(Msg(w))
         [] OTHER -> work[w]]
  /\ listed' = [k \in Recovery |-> IF crashed THEN {} ELSE listed[k]]
  /\ plan' = [k \in Recovery |-> IF crashed THEN {} ELSE plan[k]]
  /\ UNCHANGED <<disk, history>>

\* loadPendingDeliveries: readdir.
ListFiles(k) ==
  /\ At(Recover(k), "list")
  /\ listed' = [listed EXCEPT ![k] = Files]
  /\ Goto(Recover(k), "read")
  /\ UNCHANGED <<disk, starts, plan, history>>

\* A marker is unlinked; this comes before the entries are read.
CleanMarker(k, m) ==
  LET file == [message |-> m, json |-> FALSE] IN
    /\ At(Recover(k), "read") /\ file \in listed[k]
    /\ marker' = marker \ {m}
    /\ listed' = [listed EXCEPT ![k] = @ \ {file}]
    /\ UNCHANGED <<bestEffort, json, retries, failed, starts, work, plan, history>>

\* Somebody else is at work on the message.
InOtherHands(k, m) ==
  \/ \E w \in Worker \ {Recover(k)} :
       Msg(w) = m /\ ~(\E at \in {"idle", "over", "list", "read", "next"} : At(w, at))
  \/ \E j \in Recovery \ {k} : \E e \in plan[j] : e.message = m

\* Mutant of ReadEntry: it is taken from the listing without reading the file.
ReadEntry_Unread(k, m) ==
  LET file == [message |-> m, json |-> TRUE] IN
    /\ At(Recover(k), "read") /\ file \in listed[k]
    /\ listed' = [listed EXCEPT ![k] = @ \ {file}]
    /\ plan' = [plan EXCEPT ![k] = @ \cup {[message |-> m, retries |-> retries[m]]}]
    /\ shared' = IF InOtherHands(k, m) THEN shared \cup {m} ELSE shared
    /\ UNCHANGED <<disk, starts, work, sent, accepted, aborted, acked>>

\* An entry is read; one that is gone by now is skipped.
ReadEntry(k, m) ==
  LET file == [message |-> m, json |-> TRUE] IN
    /\ At(Recover(k), "read") /\ file \in listed[k]
    /\ \A other \in listed[k] : other.json
    /\ listed' = [listed EXCEPT ![k] = @ \ {file}]
    /\ plan' = [plan EXCEPT ![k] =
         IF m \in json THEN @ \cup {[message |-> m, retries |-> retries[m]]} ELSE @]
    /\ shared' = IF InOtherHands(k, m) THEN shared \cup {m} ELSE shared
    /\ UNCHANGED <<disk, starts, work, sent, accepted, aborted, acked>>

AllRead(k) ==
  /\ At(Recover(k), "read") /\ listed[k] = {}
  /\ Goto(Recover(k), "next")
  /\ UNCHANGED <<disk, starts, listed, plan, history>>

Oldest(k) == CHOOSE e \in plan[k] : \A f \in plan[k] : e.message <= f.message

\* Mutant of TakesUp: what is tried no more is tried once more.
TakesUp_OnceMore(e) ==
  IF e.retries > MaxRetries THEN "move" ELSE "send"

TakesUp(e) == IF e.retries >= MaxRetries THEN "move" ELSE "send"

\* The recovery takes up the oldest entry it has read.
TakeUpEntry(k) ==
  /\ At(Recover(k), "next") /\ plan[k] # {}
  /\ plan' = [plan EXCEPT ![k] = @ \ {Oldest(k)}]
  /\ work' = [work EXCEPT ![Recover(k)] = Job(TakesUp(Oldest(k)), Oldest(k).message)]
  /\ UNCHANGED <<disk, starts, listed, history>>

\* The backoff of an entry that was tried before is not over.
DeferEntry(k) ==
  /\ At(Recover(k), "next") /\ plan[k] # {}
  /\ Oldest(k).retries \in 1..MaxRetries - 1
  /\ plan' = [plan EXCEPT ![k] = @ \ {Oldest(k)}]
  /\ UNCHANGED <<disk, starts, work, listed, history>>

\* Nothing is left, or no time for what is left.
EndRecovery(k) ==
  /\ At(Recover(k), "next")
  /\ plan' = [plan EXCEPT ![k] = {}]
  /\ work' = [work EXCEPT ![Recover(k)] = Over(NoMessage)]
  /\ UNCHANGED <<disk, starts, listed, history>>

WorkerStep(w) ==
  \/ SendPayload(w) \/ PayloadFails(w) \/ DeliveryThrows(w) \/ Delivered(w)
  \/ AckDelivery(w) \/ UnlinkMarker(w)
  \/ FailDelivery(w) \/ RewriteEntry(w) \/ MoveToFailed(w)

RecoveryStep(k) ==
  \/ ListFiles(k) \/ AllRead(k)
  \/ \E m \in Message : CleanMarker(k, m) \/ ReadEntry(k, m)
  \/ TakeUpEntry(k) \/ DeferEntry(k) \/ EndRecovery(k)

DeliveryNext ==
  \/ \E m \in Message : Deliver(m) \/ EnqueueDelivery(m) \/ Abort(m)
  \/ \E w \in Worker : WorkerStep(w)
  \/ \E crashed \in BOOLEAN : StartServer(crashed)
  \/ \E k \in Recovery : RecoveryStep(k)

DeliverySpec == DeliveryInit /\ [][DeliveryNext]_dqVars

-----------------------------------------------------------------------------
\* What the queue is for (write-ahead: "persist before sending, remove after
\* success"): a message it has accepted is in the queue, in failed/, or has been
\* sent as a whole, unless its caller gave it up.  Of a best-effort message the
\* recovery acknowledges what the channel refused, so nothing is said of those.
NotLost ==
  \A m \in accepted \ (bestEffort \cup aborted) :
    m \in json \cup failed \/ sent[m] = 1..Payloads[m]

\* The recovery holds an entry from reading it to the end of its handling.
HeldBy(k, m) ==
  \/ \E e \in plan[k] : e.message = m
  \/ Msg(Recover(k)) = m /\ \E at \in {"send", "ack", "unlink", "fail", "rewrite", "move"} :
                              At(Recover(k), at)

\* delivery-queue.ts:139, "does not cause the message to be replayed": what was
\* acknowledged, or given up for failed, is not in the queue and nobody sends it,
\* through crashes and restarts, if no recovery took it from other hands.
NotReplayed ==
  \A m \in (acked \cup failed) \ shared :
    /\ m \notin json
    /\ ~Sending(Live(m))
    /\ \A k \in Recovery : ~(HeldBy(k, m) /\ Sending(Recover(k)))

\* failDelivery reads, counts and writes: no attempt that is noted is forgotten or
\* counted twice, and MAX_RETRIES bounds the count, for an entry in one hand.
RetriesCounted ==
  [][\A m \in Message \ shared' :
       retries'[m] \in {retries[m], retries[m] + 1} /\ retries'[m] <= MaxRetries]_dqVars

\* A recovery that is alone in taking up an entry has read the count that is on
\* disk: the limit and the backoff are judged by a count nobody changes meanwhile.
PlanIsFresh ==
  \A k \in Recovery : \A e \in plan[k] :
    e.message \notin shared => e.message \in json /\ retries[e.message] = e.retries

\* The state is well formed, and a recovery's plan is fresh.
DeliveryInv == DeliveryTypeOK /\ PlanIsFresh

\* server.impl.ts:832, "Recover pending outbound deliveries from previous
\* crash/restart": without one, no recovery takes an entry from a live delivery.
\* The code does not do so, see section 5 of the README.
OnlyFromBefore == starts = 1 => shared = {}

=============================================================================
