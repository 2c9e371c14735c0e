--------------------------- MODULE FollowupQueue ---------------------------
(***************************************************************************)
(* The follow-up queue of one session (auto-reply/reply/queue): messages   *)
(* that arrive while an agent run is active wait here, are dropped by a    *)
(* policy when there are too many, and are run by a drain, one at a time   *)
(* or collected into one turn.                                             *)
(*                                                                         *)
(* The registry maps the session's key to a queue object.  A drain keeps   *)
(* the object it began with, whatever becomes of the registry, so objects  *)
(* have an identity here.  Every message has an id, and a redelivery comes *)
(* within the five minutes the ids are remembered.  An await that only     *)
(* other microtasks can interrupt is not an interleaving point.            *)
(* Every mode that does not collect drains like "followup".                *)
(***************************************************************************)
EXTENDS Naturals, Sequences, SequencesExt, FiniteSets

CONSTANTS
  Message,     \* messages for the session
  Target,      \* where each one came from: resolveCrossChannelKey of the message
  Setting,     \* queue settings a message may come with
  QueueId,     \* bound of the model: queue objects alive at once
  MaxHandlers, \* bound of the model: handlers of messages that are about to enqueue
  MaxFailures, \* bound of the model: turns that throw
  MaxClears    \* bound of the model: calls of clearSessionQueues

None == 0
Unkeyed == "unkeyed"
Unroutable == "cross"

ASSUME QueueIds == None \notin QueueId
\* A behaviour is looked at with the finitely many messages that it has.
ASSUME FiniteMessages == IsFiniteSet(Message)
ASSUME FollowupBounds == {MaxHandlers, MaxFailures, MaxClears} \subseteq Nat
ASSUME Targets == \A m \in Message : Target[m] \in STRING
ASSUME Settings ==
  Setting \subseteq [mode : {"collect", "followup"}, cap : Nat \ {0},
                     dropPolicy : {"old", "new", "summarize"}]

VARIABLES
  queues,    \* the queue objects
  current,   \* FOLLOWUP_QUEUES.get(key)
  callback,  \* whether FOLLOWUP_RUN_CALLBACKS has the key
  recent,    \* RECENT_QUEUE_MESSAGE_IDS
  drains,    \* the drain of each object; draining iff it is not Off
  starved,   \* a drain restarts itself for ever without yielding to the event loop
  deciding,  \* messages whose handler has read isActive, which was true
  turn,      \* an auto-reply turn of the session is under way
  otherRun,  \* a run of the session that auto-reply did not start is active
  failures,  \* turns that threw
  clears,    \* calls of clearSessionQueues
  hist       \* history: what became of each message

queueVars == <<queues, current, callback, recent, drains>>
envVars == <<deciding, turn, otherRun, failures, clears>>
vars == <<queueVars, envVars, starved, hist>>

NoTurn == [kind |-> "none", items |-> <<>>, told |-> <<>>]
Off == [pc |-> "off", turn |-> NoTurn, forced |-> FALSE]
Waiting(forced) == [pc |-> "debounce", turn |-> NoTurn, forced |-> forced]

Unused ==
  [items |-> <<>>, droppedCount |-> 0, summaryLines |-> <<>>, lastRun |-> FALSE,
   mode |-> "followup", cap |-> 1, dropPolicy |-> "new"]

FollowupTypeOK ==
  /\ \A q \in QueueId :
       /\ queues[q].items \in Seq(Message) /\ queues[q].summaryLines \in Seq(Message)
       /\ queues[q].droppedCount \in 0..Cardinality(Message)
       /\ queues[q].lastRun \in BOOLEAN
       /\ drains[q].pc \in {"off", "debounce", "running"}
       /\ drains[q].turn.kind \in {"none", "item", "batch", "summary"}
       /\ drains[q].pc = "running" <=> drains[q].turn.kind # "none"
  /\ current \in QueueId \union {None}
  /\ {callback, starved, turn, otherRun} \subseteq BOOLEAN
  /\ recent \subseteq Message /\ deciding \subseteq Message
  /\ failures \in 0..MaxFailures /\ clears \in 0..MaxClears

Init ==
  /\ queues = [q \in QueueId |-> Unused] /\ drains = [q \in QueueId |-> Off]
  /\ current = None /\ callback = FALSE /\ recent = {}
  /\ starved = FALSE /\ deciding = {} /\ turn = FALSE /\ otherRun = FALSE
  /\ failures = 0 /\ clears = 0
  /\ hist = [accepted |-> <<>>, handled |-> <<>>, dropped |-> {}, told |-> {},
             cleared |-> {}, carriers |-> {}, raced |-> FALSE, split |-> FALSE]

-----------------------------------------------------------------------------
\* The drain's loop condition, and the condition to keep the queue.
HasWork(s) == s.items # <<>> \/ s.droppedCount > 0

\* An object that neither the registry nor a drain refers to is gone, unless it
\* holds messages: those are lost, and kept here to be found.
Collected(qs, ds, cur) ==
  [q \in QueueId |->
     IF q # cur /\ ds[q].pc = "off" /\ qs[q].items = <<>> THEN Unused ELSE qs[q]]

\* scheduleFollowupDrain, in a state where the objects are qs, the drains ds and
\* the registry's object is `current`.  An empty queue is removed at once.
ScheduleFollowupDrain(qs, ds) ==
  IF current = None \/ ds[current].pc # "off"
    THEN queues' = qs /\ drains' = ds /\ UNCHANGED <<current, callback>>
    ELSE /\ callback' = TRUE
         /\ \/ /\ HasWork(qs[current])
               /\ drains' = [ds EXCEPT ![current] = Waiting(FALSE)]
               /\ queues' = qs
               /\ UNCHANGED current
            \/ /\ ~HasWork(qs[current])
               /\ drains' = ds
               /\ queues' = Collected(qs, ds, None)
               /\ current' = None

\* The drain's finally block.  It removes the key, whatever object is there.
EndDrain(q, qs) ==
  LET ds == [drains EXCEPT ![q] = Off] IN
    IF HasWork(qs[q])
      THEN ScheduleFollowupDrain(qs, ds)
      ELSE /\ drains' = ds
           /\ queues' = Collected(qs, ds, None)
           /\ current' = None
           /\ UNCHANGED callback

\* Mutant of Continue: the key goes with the last item, dropped ones or not.
Continue_RemovesKey(q, qs, forced) ==
  IF HasWork(qs[q])
    THEN /\ queues' = qs
         /\ drains' = [drains EXCEPT ![q] = Waiting(forced)]
         /\ current' = IF qs[q].items = <<>> THEN None ELSE current
         /\ UNCHANGED callback
    ELSE EndDrain(q, qs)

\* The loop goes round, or is left.
Continue(q, qs, forced) ==
  IF HasWork(qs[q])
    THEN /\ queues' = qs
         /\ drains' = [drains EXCEPT ![q] = Waiting(forced)]
         /\ UNCHANGED <<current, callback>>
    ELSE EndDrain(q, qs)

-----------------------------------------------------------------------------
\* getFollowupQueue makes an object when the key has none; enqueueing applies
\* the settings the message comes with, also to an object that exists.
Unreachable(q) == q # current /\ drains[q].pc = "off" /\ queues[q] = Unused

WithSetting(s, g) == [s EXCEPT !.mode = g.mode, !.cap = g.cap, !.dropPolicy = g.dropPolicy]

\* applyQueueDropPolicy: how many go, and the queue without them.
DropCount(s) == IF Len(s.items) < s.cap THEN 0 ELSE Len(s.items) - s.cap + 1

Refused(s) == s.dropPolicy = "new" /\ DropCount(s) > 0

LastN(seq, n) == IF Len(seq) <= n THEN seq ELSE SubSeq(seq, Len(seq) - n + 1, Len(seq))

ApplyQueueDropPolicy(s) ==
  LET n == DropCount(s) IN
    IF s.dropPolicy = "summarize"
      THEN [s EXCEPT !.items = SubSeq(@, n + 1, Len(@)),
                     !.droppedCount = @ + n,
                     !.summaryLines = LastN(@ \o SubSeq(s.items, 1, n), s.cap)]
      ELSE [s EXCEPT !.items = SubSeq(@, n + 1, Len(@))]

\* Mutant of Pushed: the newest message is the next one.
Pushed_AtFront(s, m) == [s EXCEPT !.items = <<m>> \o @]

Pushed(s, m) == [s EXCEPT !.items = Append(@, m)]

\* Mutant of IsKnown: only the queued messages are compared.
IsKnown_QueuedOnly(m, s) == m \in Range(s.items)

\* The message was queued before, or is queued now.
IsKnown(m, s) == m \in recent \/ m \in Range(s.items)

\* enqueueFollowupRun into the object q, which the registry now has.  A drain is
\* begun if none is under way and a callback is known (kickFollowupDrainIfIdle).
EnqueueInto(q, s, m) ==
  LET s1 == ApplyQueueDropPolicy([s EXCEPT !.lastRun = TRUE])
      gone == SubSeq(s.items, 1, DropCount(s))
  IN
    \/ /\ IsKnown(m, s) \/ Refused(s)
       /\ queues' = [queues EXCEPT ![q] = [s EXCEPT !.lastRun = @ \/ ~IsKnown(m, s)]]
       /\ current' = q
       /\ UNCHANGED <<callback, recent, drains, hist>>
    \/ /\ ~IsKnown(m, s) /\ ~Refused(s)
       /\ queues' = [queues EXCEPT ![q] = Pushed(s1, m)]
       /\ current' = q
       /\ recent' = recent \union {m}
       /\ drains' = IF callback /\ drains[q].pc = "off"
                      THEN [drains EXCEPT ![q] = Waiting(FALSE)] ELSE drains
       /\ UNCHANGED callback
       /\ hist' = [hist EXCEPT !.accepted = Append(@, m),
                               !.dropped = @ \union Range(gone),
                               !.raced = @ \/ (gone # <<>> /\ drains[q].pc = "running")]

EnqueueFollowupRun(m, g) ==
  /\ ~starved /\ m \in deciding
  /\ deciding' = deciding \ {m}
  /\ \/ /\ current # None
        /\ EnqueueInto(current, WithSetting(queues[current], g), m)
     \/ /\ current = None
        /\ LET free == {q \in QueueId : Unreachable(q)} IN
             free # {} /\ EnqueueInto(CHOOSE q \in free : TRUE, WithSetting(Unused, g), m)
  /\ UNCHANGED <<starved, turn, otherRun, failures, clears>>

-----------------------------------------------------------------------------
\* The messages have more than one target, or one that cannot be routed to.
HasCrossChannelItems(items) ==
  LET keys == {Target[m] : m \in Range(items)} IN
    Unroutable \in keys \/ Cardinality(keys) > 1

SummaryPending(s) == s.dropPolicy = "summarize" /\ s.droppedCount > 0

\* What one round of the drain's loop runs.  In collect mode a mixed queue is run
\* item by item for the rest of the drain; otherwise all of it is one turn.  Out
\* of collect mode a pending summary goes first, to the first item's target.  The
\* targets are checked and the items copied in one step here; microtasks that run
\* in between, where a message could still come in, are left out.
Forced(s, forced) == s.mode = "collect" /\ (forced \/ HasCrossChannelItems(s.items))

NextTurn(s, forced) ==
  LET told == IF SummaryPending(s) THEN s.summaryLines ELSE <<>>
      first == SubSeq(s.items, 1, 1)
  IN
    CASE s.mode = "collect" /\ ~Forced(s, forced) /\ s.lastRun ->
           [kind |-> "batch", items |-> s.items, told |-> told]
      [] s.mode = "followup" /\ SummaryPending(s) /\ s.items # <<>> ->
           [kind |-> "summary", items |-> first, told |-> told]
      [] (Forced(s, forced) \/ (s.mode = "followup" /\ ~SummaryPending(s))) /\ s.items # <<>> ->
           [kind |-> "item", items |-> first, told |-> <<>>]
      [] OTHER -> NoTurn

\* The debounce is over and a turn begins.  A drain that has met a mixed queue does
\* not collect any more, also if the mode is another one for a while.
BeginTurn(q) ==
  /\ ~starved /\ drains[q].pc = "debounce"
  /\ LET s == queues[q]
         t == NextTurn(s, drains[q].forced)
     IN /\ t # NoTurn
        /\ drains' = [drains EXCEPT ![q] =
                        [pc |-> "running", turn |-> t,
                         forced |-> drains[q].forced \/ Forced(s, FALSE)]]
        /\ hist' = [hist EXCEPT !.carriers =
                      @ \union (IF t.kind = "summary" THEN Range(t.items) ELSE {})]
  /\ UNCHANGED <<queues, current, callback, recent, starved, envVars>>

\* The debounce is over and there is nothing to run: the drain ends, and starts
\* again if the queue has work.  If that changed nothing it will go on for ever.
BreakDrain(q) ==
  /\ ~starved /\ drains[q].pc = "debounce"
  /\ NextTurn(queues[q], drains[q].forced) = NoTurn
  /\ EndDrain(q, queues)
  /\ starved' = (drains' = drains)
  /\ UNCHANGED <<recent, envVars, hist>>

WithoutFirst(s, n) == [s EXCEPT !.items = SubSeq(@, n + 1, Len(@))]
ClearQueueSummaryState(s) == [s EXCEPT !.droppedCount = 0, !.summaryLines = <<>>]

\* Mutant of AfterTurn: it empties the queue, with what came during the turn.
AfterTurn_TakesAll(s, t) ==
  LET rest == WithoutFirst(s, Len(s.items)) IN
    IF t.told # <<>> THEN ClearQueueSummaryState(rest) ELSE rest

\* The queue after a turn: the front goes, whatever is there by now.
AfterTurn(s, t) ==
  LET rest == WithoutFirst(s, Len(t.items)) IN
    IF t.told # <<>> THEN ClearQueueSummaryState(rest) ELSE rest

\* Mutant of TurnSucceeds: the drain is over after one turn.
TurnSucceeds_Once(q) ==
  /\ ~starved /\ drains[q].pc = "running"
  /\ LET t == drains[q].turn IN
       /\ queues' = [queues EXCEPT ![q] = AfterTurn(@, t)]
       /\ drains' = [drains EXCEPT ![q] = Off]
       /\ UNCHANGED <<current, callback>>
       /\ hist' = [hist EXCEPT
                     !.handled = IF t.kind = "summary" THEN @ ELSE @ \o t.items,
                     !.told = @ \union Range(t.told)]
  /\ UNCHANGED <<recent, starved, envVars>>

\* runFollowup resolves.
TurnSucceeds(q) ==
  /\ ~starved /\ drains[q].pc = "running"
  /\ LET t == drains[q].turn IN
       /\ Continue(q, [queues EXCEPT ![q] = AfterTurn(@, t)], drains[q].forced)
       /\ hist' = [hist EXCEPT
                     !.handled = IF t.kind = "summary" THEN @ ELSE @ \o t.items,
                     !.told = @ \union Range(t.told)]
  /\ UNCHANGED <<recent, starved, envVars>>

\* runFollowup throws: the queue is as it is, and another drain begins.
TurnFails(q) ==
  /\ ~starved /\ drains[q].pc = "running" /\ failures < MaxFailures
  /\ failures' = failures + 1
  /\ EndDrain(q, queues)
  /\ UNCHANGED <<recent, starved, deciding, turn, otherRun, clears, hist>>

-----------------------------------------------------------------------------
\* Mutant of ClearSessionQueues: the key is removed, the object is not emptied.
ClearSessionQueues_KeyOnly ==
  /\ ~starved /\ clears < MaxClears
  /\ clears' = clears + 1
  /\ callback' = FALSE
  /\ current' = None
  /\ queues' = Collected(queues, drains, None)
  /\ hist' = [hist EXCEPT
                !.cleared = @ \union UNION {Range(queues[q].items) : q \in {current} \ {None}},
                !.split = @ \/ \E q \in QueueId : q = current /\ drains[q].pc # "off"]
  /\ UNCHANGED <<recent, drains, starved, deciding, turn, otherRun, failures>>

\* clearSessionQueues: the object is emptied and leaves the registry, and the
\* callback is forgotten.  A drain of the object goes on.
ClearSessionQueues ==
  /\ ~starved /\ clears < MaxClears
  /\ clears' = clears + 1
  /\ callback' = FALSE
  /\ current' = None
  /\ LET cleared(q) == ClearQueueSummaryState([queues[q] EXCEPT !.items = <<>>, !.lastRun = FALSE])
     IN queues' = Collected([q \in QueueId |-> IF q = current THEN cleared(q) ELSE queues[q]],
                            drains, None)
  /\ hist' = [hist EXCEPT
                !.cleared = @ \union UNION {Range(queues[q].items) : q \in {current} \ {None}},
                !.split = @ \/ \E q \in QueueId : q = current /\ drains[q].pc # "off"]
  /\ UNCHANGED <<recent, drains, starved, deciding, turn, otherRun, failures>>

-----------------------------------------------------------------------------
\* isEmbeddedPiRunActive(sessionId) may be true
Active == turn \/ otherRun \/ \E q \in QueueId : drains[q].pc = "running"

\* A message's handler reads that a run is active; it enqueues it later, when it
\* has resolved the message's auth profile.  A message may be delivered twice.
ReadActive(m) ==
  /\ ~starved /\ Active
  /\ m \notin deciding /\ Cardinality(deciding) < MaxHandlers
  /\ deciding' = deciding \union {m}
  /\ UNCHANGED <<queueVars, turn, otherRun, failures, clears, starved, hist>>

\* A message for which no run was active is run now, by runReplyAgent.
TurnStarts ==
  /\ ~starved /\ ~turn
  /\ turn' = TRUE
  /\ UNCHANGED <<queueVars, deciding, otherRun, failures, clears, starved, hist>>

\* runReplyAgent ends, in finalizeWithFollowup.
TurnEnds ==
  /\ ~starved /\ turn
  /\ turn' = FALSE
  /\ ScheduleFollowupDrain(queues, drains)
  /\ UNCHANGED <<recent, deciding, otherRun, failures, clears, starved, hist>>

\* A run of the session begins or ends that auto-reply knows nothing of: one of
\* the agent command, of a sub-agent's announcement or of the cron service.
OtherRun ==
  /\ ~starved
  /\ otherRun' = ~otherRun
  /\ UNCHANGED <<queueVars, deciding, turn, failures, clears, starved, hist>>

Next ==
  \/ \E m \in Message : ReadActive(m)
  \/ \E m \in Message, g \in Setting : EnqueueFollowupRun(m, g)
  \/ \E q \in QueueId : BeginTurn(q) \/ BreakDrain(q) \/ TurnSucceeds(q) \/ TurnFails(q)
  \/ ClearSessionQueues
  \/ TurnStarts \/ TurnEnds \/ OtherRun

Spec == Init /\ [][Next]_vars

\* Debounces end, runs end, and a handler that read isActive goes on.
Fairness ==
  /\ \A q \in QueueId :
       WF_vars(BeginTurn(q) \/ BreakDrain(q)) /\ WF_vars(TurnSucceeds(q) \/ TurnFails(q))
  /\ WF_vars(TurnEnds) /\ WF_vars(otherRun /\ OtherRun)
  /\ \A m \in Message : WF_vars(\E g \in Setting : EnqueueFollowupRun(m, g))

FairSpec == Spec /\ Fairness

-----------------------------------------------------------------------------
\* A drain, now or later, will come to the message.
Queued(m) ==
  \E q \in QueueId :
    m \in Range(queues[q].items) /\ (q = current \/ drains[q].pc # "off")

Ended(m) == m \in Range(hist.handled) \union hist.dropped \union hist.cleared

\* A message is not run twice, whether it is delivered twice, its queue is
\* replaced by another one, or turns fail in between.
HandledOnce == IsInjective(hist.handled)

\* A message that was cleared is in no turn that begins later: not in one of the
\* drain that goes on with the emptied queue, not after a failed turn, and not
\* when the channel delivers it again, whatever queue is there by then.
ClearedNotRun ==
  [][\A q \in QueueId :
       drains'[q].turn # drains[q].turn =>
         Range(drains'[q].turn.items) \intersect hist.cleared = {}]_vars

\* Messages are run in the order they were queued in, unless the queue was
\* cleared under a drain.
HandledInOrder ==
  ~hist.split =>
    \A i, j \in 1..Len(hist.accepted) :
      (i < j /\ hist.accepted[i] \in Range(hist.handled) /\ hist.accepted[j] \in Range(hist.handled))
        => \E k, n \in 1..Len(hist.handled) :
             k < n /\ hist.handled[k] = hist.accepted[i] /\ hist.handled[n] = hist.accepted[j]

\* A queued message is run, dropped by the policy or cleared, and never just
\* gone, unless the policy dropped the front of the queue during a turn, a
\* message lent its target to a summary, or the queue was cleared under a drain.
Accounted ==
  ~hist.raced /\ ~hist.split =>
    \A m \in Range(hist.accepted) \ hist.carriers : Queued(m) \/ Ended(m)

\* Unless the queue was cleared under a drain, one drain at most is under way and
\* it is the drain of the queue that messages go to.
SingleDrain ==
  ~hist.split => \A q \in QueueId : drains[q].pc # "off" => q = current

\* The state is well formed, and a queue has one drain.
FollowupInv == FollowupTypeOK /\ SingleDrain

\* Unless it is cleared, a queued message leaves the queue when a drain or an
\* auto-reply turn, which ends in one, is under way.
QueuedLeaves ==
  \A m \in Message :
    (Queued(m) /\ (turn \/ \E q \in QueueId : drains[q].pc # "off"))
      ~> (~Queued(m) \/ hist.split)

\* docs/concepts/queue.md:30 "`followup`: enqueue for the next agent turn after
\* the current run ends": a message that was queued is not lost.
\* The code does not do so, see section 5 of the README.
NothingLost == \A m \in Range(hist.accepted) : Queued(m) \/ Ended(m)

\* docs/concepts/queue.md:69 "Summarize keeps a short bullet list of dropped
\* messages and injects it as a synthetic followup prompt".
\* The code does not do so, see section 5 of the README.
SummaryInjected ==
  \A q \in QueueId :
    (queues[q].droppedCount > 0 /\ drains[q].pc # "off") ~> queues[q].droppedCount = 0

=============================================================================
