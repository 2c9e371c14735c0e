------------------------ MODULE FollowupQueueProofs ------------------------
(***************************************************************************)
(* Safety of the follow-up queue of a session, for any messages, targets,  *)
(* settings and queue objects.                                             *)
(*                                                                         *)
(* A step changes the objects in one of five ways: a message is accepted,  *)
(* a turn begins, a turn ends, the queue is cleared, or no message moves   *)
(* (Effect).  The parts of the invariant follow from these.  Once holds    *)
(* whatever happens; Ordered needs that no queue was cleared under its     *)
(* drain, and Complete that none was shortened under a turn, too.          *)
(***************************************************************************)
EXTENDS FollowupQueue, FiniteSetTheorems, FunctionTheorems, SequenceTheorems, TLAPS

-----------------------------------------------------------------------------
\* What the variables hold.
Object ==
  [items : Seq(Message), droppedCount : Nat, summaryLines : Seq(Message), lastRun : BOOLEAN,
   mode : {"collect", "followup"}, cap : Nat \ {0}, dropPolicy : {"old", "new", "summarize"}]
Kinds == {"none", "item", "batch", "summary"}
Turn == [kind : Kinds, items : Seq(Message), told : Seq(Message)]
Drain == [pc : {"off", "debounce", "running"}, turn : Turn, forced : BOOLEAN]
History ==
  [accepted : Seq(Message), handled : Seq(Message), dropped : SUBSET Message,
   told : SUBSET Message, cleared : SUBSET Message, carriers : SUBSET Message,
   raced : BOOLEAN, split : BOOLEAN]

\* A drain that does not run has no turn.
TurnOK(d) == IF d.pc = "running" THEN d.turn.kind # "none" ELSE d.turn = NoTurn

Types ==
  /\ queues \in [QueueId -> Object] /\ drains \in [QueueId -> Drain]
  /\ current \in QueueId \cup {None}
  /\ callback \in BOOLEAN /\ starved \in BOOLEAN /\ turn \in BOOLEAN /\ otherRun \in BOOLEAN
  /\ recent \subseteq Message /\ deciding \subseteq Message /\ hist \in History
  /\ failures \in 0..MaxFailures /\ clears \in 0..MaxClears
  /\ \A q \in QueueId : TurnOK(drains[q])

Items(q) == queues[q].items
Taken(q) == drains[q].turn.items

In(x, s) == \E i \in 1..Len(s) : s[i] = x
Apart(s, t) == \A x \in Message : ~(In(x, s) /\ In(x, t))
NoRepeats(s) == \A i, j \in 1..Len(s) : s[i] = s[j] => i = j

\* What the turn of a drain has taken is at the front of the queue, or not there.
AtFront(q) == \A i \in 1..Len(Items(q)) : In(Items(q)[i], Taken(q)) => i <= Len(Taken(q))

\* A message is in one queue at most, and once; it is not there when it has been
\* run, dropped or cleared; and it was queued before.
Once ==
  /\ NoRepeats(hist.accepted) /\ NoRepeats(hist.handled)
  /\ \A x \in Message : In(x, hist.accepted) <=> x \in recent
  /\ \A x \in Message : In(x, hist.handled) => x \in recent
  /\ hist.dropped \subseteq recent /\ hist.cleared \subseteq recent
  /\ \A q \in QueueId :
       /\ NoRepeats(Items(q)) /\ NoRepeats(Taken(q)) /\ AtFront(q)
       /\ Apart(Items(q), hist.handled) /\ Apart(Taken(q), hist.handled)
       /\ \A x \in Message : In(x, Items(q)) => x \in recent \ (hist.dropped \cup hist.cleared)
       /\ \A x \in Message : In(x, Taken(q)) => x \in recent
  /\ \A q, r \in QueueId : q # r =>
       Apart(Items(q), Items(r)) /\ Apart(Items(q), Taken(r)) /\ Apart(Taken(q), Taken(r))

\* Only the queue that messages go to has messages and a drain.
Solo ==
  \A q \in QueueId : q # current => drains[q].pc = "off" /\ Items(q) = <<>>

Earlier(x, y, s) == \E i, j \in 1..Len(s) : i < j /\ s[i] = x /\ s[j] = y
InOrder(t, s) == \A i, j \in 1..Len(t) : i < j => Earlier(t[i], t[j], s)

\* Messages are in the order of their acceptance: those that have been run before
\* those of a turn and of the queue, and those of a turn before the rest.
Ordered ==
  /\ InOrder(hist.handled, hist.accepted)
  /\ \A q \in QueueId :
       /\ InOrder(Items(q), hist.accepted) /\ InOrder(Taken(q), hist.accepted)
       /\ \A x, y \in Message :
            /\ In(x, hist.handled) /\ (In(y, Items(q)) \/ In(y, Taken(q)))
                 => Earlier(x, y, hist.accepted)
            /\ In(x, Taken(q)) /\ In(y, Items(q))
                 => In(y, Taken(q)) \/ Earlier(x, y, hist.accepted)

\* What a turn has taken is the front of the queue, and no message is missing.
Complete ==
  /\ \A q \in QueueId :
       /\ Len(Taken(q)) <= Len(Items(q))
       /\ \A i \in 1..Len(Taken(q)) : Items(q)[i] = Taken(q)[i]
       /\ drains[q].turn.kind = "summary" => \A x \in Message : In(x, Taken(q)) => x \in hist.carriers
  /\ \A x \in Message : In(x, hist.accepted) =>
       \/ \E q \in QueueId : In(x, Items(q))
       \/ In(x, hist.handled) \/ x \in hist.dropped \cup hist.cleared \cup hist.carriers

\* Each message that a summary counts was dropped.
Tally == \A q \in QueueId : queues[q].droppedCount <= Cardinality(hist.dropped)

QueueInv ==
  /\ Types /\ Once /\ Tally
  /\ ~hist.split => Solo /\ Ordered
  /\ ~hist.split /\ ~hist.raced => Complete

-----------------------------------------------------------------------------
\* The fields of the records.
LEMMA Fields ==
  /\ \A s \in Object : /\ s.items \in Seq(Message) /\ s.droppedCount \in Nat
                       /\ s.summaryLines \in Seq(Message) /\ s.lastRun \in BOOLEAN
                       /\ s.mode \in {"collect", "followup"} /\ s.cap \in Nat \ {0}
                       /\ s.dropPolicy \in {"old", "new", "summarize"}
  /\ \A t \in Turn : t.kind \in Kinds /\ t.items \in Seq(Message) /\ t.told \in Seq(Message)
  /\ \A d \in Drain : /\ d.pc \in {"off", "debounce", "running"} /\ d.turn \in Turn
                      /\ d.forced \in BOOLEAN
  /\ NoTurn \in Turn /\ NoTurn.items = <<>> /\ NoTurn.kind = "none"
  /\ Unused \in Object /\ Unused.items = <<>> /\ Unused.droppedCount = 0
  /\ Off \in Drain /\ Off.pc = "off" /\ Off.turn = NoTurn
  /\ \A b \in BOOLEAN : /\ Waiting(b) \in Drain /\ Waiting(b).pc = "debounce"
                        /\ Waiting(b).turn = NoTurn
<1>1. <<>> \in Seq(Message)
  BY EmptySeq
<1>2. NoTurn \in Turn /\ NoTurn.items = <<>> /\ NoTurn.kind = "none"
  BY <1>1 DEF NoTurn, Turn, Kinds
<1>3. Unused \in Object /\ Unused.items = <<>> /\ Unused.droppedCount = 0
  BY <1>1 DEF Unused, Object
<1>4. Off \in Drain /\ Off.pc = "off" /\ Off.turn = NoTurn
  BY <1>2 DEF Off, Drain
<1>5. \A b \in BOOLEAN : /\ Waiting(b) \in Drain /\ Waiting(b).pc = "debounce"
                         /\ Waiting(b).turn = NoTurn
  BY <1>2 DEF Waiting, Drain
<1>6. \A s \in Object : /\ s.items \in Seq(Message) /\ s.droppedCount \in Nat
                        /\ s.summaryLines \in Seq(Message) /\ s.lastRun \in BOOLEAN
                        /\ s.mode \in {"collect", "followup"} /\ s.cap \in Nat \ {0}
                        /\ s.dropPolicy \in {"old", "new", "summarize"}
  BY DEF Object
<1>7. \A t \in Turn : t.kind \in Kinds /\ t.items \in Seq(Message) /\ t.told \in Seq(Message)
  BY DEF Turn
<1>8. \A d \in Drain : /\ d.pc \in {"off", "debounce", "running"} /\ d.turn \in Turn
                       /\ d.forced \in BOOLEAN
  BY DEF Drain
<1> QED BY <1>2, <1>3, <1>4, <1>5, <1>6, <1>7, <1>8

\* What the type invariant says of the objects and their drains.
LEMMA TypesUse ==
  ASSUME Types
  PROVE  /\ \A q \in QueueId : /\ queues[q] \in Object /\ drains[q] \in Drain
                               /\ Items(q) \in Seq(Message) /\ Taken(q) \in Seq(Message)
                               /\ drains[q].pc # "running" => drains[q].turn = NoTurn
                               /\ drains[q].pc = "running" => drains[q].turn.kind # "none"
                               /\ drains[q].turn = NoTurn => Taken(q) = <<>>
         /\ hist.accepted \in Seq(Message) /\ hist.handled \in Seq(Message)
         /\ hist.dropped \subseteq Message /\ hist.cleared \subseteq Message
         /\ hist.carriers \subseteq Message /\ hist.raced \in BOOLEAN /\ hist.split \in BOOLEAN
<1>1. \A q \in QueueId : queues[q] \in Object /\ drains[q] \in Drain
  BY DEF Types
<1>2. hist \in History
  BY DEF Types
<1>3. /\ hist.accepted \in Seq(Message) /\ hist.handled \in Seq(Message)
      /\ hist.dropped \subseteq Message /\ hist.cleared \subseteq Message
      /\ hist.carriers \subseteq Message /\ hist.raced \in BOOLEAN /\ hist.split \in BOOLEAN
  BY <1>2 DEF History
<1>4. \A q \in QueueId : Items(q) \in Seq(Message) /\ Taken(q) \in Seq(Message)
  BY <1>1, Fields DEF Items, Taken
<1>5. \A q \in QueueId : drains[q].turn = NoTurn => Taken(q) = <<>>
  BY Fields DEF Taken
<1> QED BY <1>1, <1>3, <1>4, <1>5 DEF Types, TurnOK

\* The end of a sequence: all but its first n elements.
LEMMA CutSeq ==
  ASSUME NEW s \in Seq(Message), NEW n \in Nat
  PROVE  LET c == SubSeq(s, n + 1, Len(s)) IN
         /\ c \in Seq(Message)
         /\ Len(c) \in Nat
         /\ Len(c) = IF n <= Len(s) THEN Len(s) - n ELSE 0
         /\ \A i \in 1..Len(c) : n + i \in 1..Len(s) /\ c[i] = s[n + i]
<1> DEFINE c == SubSeq(s, n + 1, Len(s))
<1>1. Len(s) \in Nat /\ \A i \in 1..Len(s) : s[i] \in Message
  BY LenProperties, ElementOfSeq
<1>2. \A i \in (n + 1)..Len(s) : s[i] \in Message
  BY <1>1
<1>3. /\ c \in Seq(Message)
      /\ Len(c) = IF n + 1 <= Len(s) THEN Len(s) - (n + 1) + 1 ELSE 0
      /\ \A i \in 1..(Len(s) - (n + 1) + 1) : c[i] = s[(n + 1) + i - 1]
  BY <1>1, <1>2, SubSeqProperties
<1> HIDE DEF c
<1>4. /\ Len(c) \in Nat
      /\ Len(c) = IF n <= Len(s) THEN Len(s) - n ELSE 0
  BY <1>1, <1>3
<1>5. ASSUME NEW i \in 1..Len(c) PROVE n + i \in 1..Len(s) /\ c[i] = s[n + i]
  <2>1. i \in 1..(Len(s) - (n + 1) + 1) /\ n + i \in 1..Len(s) /\ (n + 1) + i - 1 = n + i
    BY <1>1, <1>4
  <2> QED BY <2>1, <1>3
<1> QED BY <1>3, <1>4, <1>5 DEF c

\* The front of a sequence: its first n elements.
LEMMA FrontSeq ==
  ASSUME NEW s \in Seq(Message), NEW n \in 0..Len(s)
  PROVE  LET c == SubSeq(s, 1, n) IN
         /\ c \in Seq(Message)
         /\ Len(c) = n
         /\ \A i \in 1..n : i \in 1..Len(s) /\ c[i] = s[i]
<1> DEFINE c == SubSeq(s, 1, n)
<1>1. Len(s) \in Nat /\ \A i \in 1..Len(s) : s[i] \in Message
  BY LenProperties, ElementOfSeq
<1>2. \A i \in 1..n : s[i] \in Message
  BY <1>1
<1>3. n \in Int
  BY <1>1
<1>4. /\ c \in Seq(Message)
      /\ Len(c) = IF 1 <= n THEN n - 1 + 1 ELSE 0
      /\ \A i \in 1..(n - 1 + 1) : c[i] = s[1 + i - 1]
  BY <1>2, <1>3, SubSeqProperties
<1> HIDE DEF c
<1>5. Len(c) = n
  BY <1>1, <1>4
<1>6. ASSUME NEW i \in 1..n PROVE i \in 1..Len(s) /\ c[i] = s[i]
  <2>1. i \in 1..(n - 1 + 1) /\ 1 + i - 1 = i /\ i \in 1..Len(s)
    BY <1>1
  <2> QED BY <2>1, <1>4
<1> QED BY <1>4, <1>5, <1>6 DEF c

\* The members of a sequence, as the module and as this proof speak of them.
LEMMA Members ==
  ASSUME NEW s \in Seq(Message)
  PROVE  /\ \A x : x \in Range(s) <=> In(x, s)
         /\ \A x : In(x, s) => x \in Message
         /\ IsInjective(s) <=> NoRepeats(s)
         /\ s = <<>> <=> \A x \in Message : ~In(x, s)
<1>1. Len(s) \in Nat /\ DOMAIN s = 1..Len(s) /\ \A i \in 1..Len(s) : s[i] \in Message
  BY LenProperties, ElementOfSeq
<1>2. s # <<>> => 1 \in 1..Len(s)
  BY <1>1, EmptySeq
<1>3. s = <<>> => Len(s) = 0
  BY EmptySeq
<1> QED BY <1>1, <1>2, <1>3 DEF Range, In, IsInjective, NoRepeats

\* Who is in the end of a sequence, and in the longer one.
LEMMA CutMembers ==
  ASSUME NEW s \in Seq(Message), NEW n \in 0..Len(s)
  PROVE  /\ \A x : In(x, s) <=> In(x, SubSeq(s, 1, n)) \/ In(x, SubSeq(s, n + 1, Len(s)))
         /\ NoRepeats(s) => /\ NoRepeats(SubSeq(s, n + 1, Len(s)))
                            /\ Apart(SubSeq(s, 1, n), SubSeq(s, n + 1, Len(s)))
<1> DEFINE a == SubSeq(s, 1, n)
           b == SubSeq(s, n + 1, Len(s))
<1>1. Len(s) \in Nat /\ n \in Nat
  BY LenProperties
<1>2. Len(a) = n /\ \A i \in 1..n : i \in 1..Len(s) /\ a[i] = s[i]
  BY FrontSeq
<1>3. Len(b) = Len(s) - n /\ \A i \in 1..Len(b) : n + i \in 1..Len(s) /\ b[i] = s[n + i]
  <2>1. /\ Len(b) = IF n <= Len(s) THEN Len(s) - n ELSE 0
        /\ \A i \in 1..Len(b) : n + i \in 1..Len(s) /\ b[i] = s[n + i]
    BY <1>1, CutSeq
  <2> HIDE DEF b
  <2>2. n <= Len(s)
    BY <1>1
  <2> QED BY <2>1, <2>2
<1> HIDE DEF a, b
<1>4. ASSUME NEW x, In(x, s) PROVE In(x, a) \/ In(x, b)
  <2>1. PICK i \in 1..Len(s) : s[i] = x
    BY <1>4 DEF In
  <2>2. CASE i <= n
    BY <1>1, <1>2, <2>1, <2>2 DEF In
  <2>3. CASE i > n
    <3>1. i - n \in 1..Len(b) /\ n + (i - n) = i
      BY <1>1, <1>3, <2>1, <2>3
    <3> QED BY <1>3, <2>1, <3>1 DEF In
  <2> QED BY <1>1, <2>2, <2>3
<1>5. \A x : In(x, a) \/ In(x, b) => In(x, s)
  BY <1>1, <1>2, <1>3 DEF In
<1>6. ASSUME NoRepeats(s) PROVE NoRepeats(b) /\ Apart(a, b)
  <2>1. NoRepeats(b)
    <3> SUFFICES ASSUME NEW i \in 1..Len(b), NEW j \in 1..Len(b), b[i] = b[j] PROVE i = j
      BY DEF NoRepeats
    <3>1. n + i = n + j
      BY <1>3, <1>6 DEF NoRepeats
    <3> QED BY <1>1, <1>3, <3>1
  <2>2. ASSUME NEW x \in Message, In(x, a), In(x, b) PROVE FALSE
    <3>1. PICK i \in 1..Len(a) : a[i] = x
      BY <2>2 DEF In
    <3>2. PICK j \in 1..Len(b) : b[j] = x
      BY <2>2 DEF In
    <3>3. s[i] = s[n + j] /\ i \in 1..Len(s) /\ n + j \in 1..Len(s)
      BY <1>2, <1>3, <3>1, <3>2
    <3>4. i = n + j
      BY <1>6, <3>3 DEF NoRepeats
    <3> QED BY <1>1, <1>2, <1>3, <3>1, <3>2, <3>4
  <2> QED BY <2>1, <2>2 DEF Apart
<1> QED BY <1>4, <1>5, <1>6 DEF a, b

\* Appending one message, and a turn's messages.
LEMMA LongerSeq ==
  /\ \A s \in Seq(Message), x \in Message :
       /\ Append(s, x) \in Seq(Message) /\ Len(Append(s, x)) = Len(s) + 1
       /\ \A i \in 1..Len(s) : Append(s, x)[i] = s[i]
       /\ Append(s, x)[Len(s) + 1] = x
       /\ \A y : In(y, Append(s, x)) <=> In(y, s) \/ y = x
       /\ NoRepeats(s) /\ ~In(x, s) => NoRepeats(Append(s, x))
  /\ \A s, t \in Seq(Message) :
       /\ s \o t \in Seq(Message)
       /\ Len(s \o t) = Len(s) + Len(t)
       /\ \A i \in 1..Len(s) : (s \o t)[i] = s[i]
       /\ \A i \in 1..Len(t) : (s \o t)[Len(s) + i] = t[i]
       /\ \A y : In(y, s \o t) <=> In(y, s) \/ In(y, t)
       /\ NoRepeats(s) /\ NoRepeats(t) /\ Apart(s, t) => NoRepeats(s \o t)
<1>1. ASSUME NEW s \in Seq(Message), NEW x \in Message
      PROVE  /\ Append(s, x) \in Seq(Message) /\ Len(Append(s, x)) = Len(s) + 1
             /\ \A i \in 1..Len(s) : Append(s, x)[i] = s[i]
             /\ Append(s, x)[Len(s) + 1] = x
             /\ \A y : In(y, Append(s, x)) <=> In(y, s) \/ y = x
             /\ NoRepeats(s) /\ ~In(x, s) => NoRepeats(Append(s, x))
  <2> DEFINE a == Append(s, x)
  <2>1. Len(s) \in Nat
    BY LenProperties
  <2>2. /\ a \in Seq(Message) /\ Len(a) = Len(s) + 1
        /\ \A i \in 1..Len(s) : a[i] = s[i]
        /\ a[Len(s) + 1] = x
    BY AppendProperties
  <2> HIDE DEF a
  <2>3. \A i \in 1..Len(a) : i \in 1..Len(s) \/ i = Len(s) + 1
    BY <2>1, <2>2
  <2>4. 1..Len(s) \subseteq 1..Len(a) /\ Len(s) + 1 \in 1..Len(a)
    BY <2>1, <2>2
  <2>5. \A y : In(y, a) <=> In(y, s) \/ y = x
    BY <2>2, <2>3, <2>4 DEF In
  <2>6. NoRepeats(s) /\ ~In(x, s) => NoRepeats(a)
    BY <2>2, <2>3 DEF NoRepeats, In
  <2> QED BY <2>2, <2>5, <2>6 DEF a
<1>2. ASSUME NEW s \in Seq(Message), NEW t \in Seq(Message)
      PROVE  /\ s \o t \in Seq(Message)
             /\ Len(s \o t) = Len(s) + Len(t)
             /\ \A i \in 1..Len(s) : (s \o t)[i] = s[i]
             /\ \A i \in 1..Len(t) : (s \o t)[Len(s) + i] = t[i]
             /\ \A y : In(y, s \o t) <=> In(y, s) \/ In(y, t)
             /\ NoRepeats(s) /\ NoRepeats(t) /\ Apart(s, t) => NoRepeats(s \o t)
  <2> DEFINE c == s \o t
  <2>1. Len(s) \in Nat /\ Len(t) \in Nat /\ \A i \in 1..Len(s) : s[i] \in Message
    BY LenProperties, ElementOfSeq
  <2>2. /\ c \in Seq(Message) /\ Len(c) = Len(s) + Len(t)
        /\ \A i \in 1..(Len(s) + Len(t)) : c[i] = IF i <= Len(s) THEN s[i] ELSE t[i - Len(s)]
    BY ConcatProperties
  <2> HIDE DEF c
  <2>3. \A i \in 1..Len(s) : i \in 1..Len(c) /\ c[i] = s[i]
    BY <2>1, <2>2
  <2>4. ASSUME NEW i \in 1..Len(t) PROVE Len(s) + i \in 1..Len(c) /\ c[Len(s) + i] = t[i]
    <3>1. Len(s) + i \in 1..(Len(s) + Len(t)) /\ ~(Len(s) + i <= Len(s)) /\ Len(s) + i - Len(s) = i
      BY <2>1
    <3> QED BY <2>2, <3>1
  <2>5. \A i \in 1..Len(c) : i \in 1..Len(s) \/ \E j \in 1..Len(t) : i = Len(s) + j
    <3> SUFFICES ASSUME NEW i \in 1..Len(c), i \notin 1..Len(s)
                 PROVE  \E j \in 1..Len(t) : i = Len(s) + j
      OBVIOUS
    <3>1. i - Len(s) \in 1..Len(t) /\ i = Len(s) + (i - Len(s))
      BY <2>1, <2>2
    <3> QED BY <3>1
  <2>6. \A y : In(y, c) <=> In(y, s) \/ In(y, t)
    <3> SUFFICES ASSUME NEW y PROVE In(y, c) <=> In(y, s) \/ In(y, t)
      OBVIOUS
    <3>1. ASSUME In(y, c) PROVE In(y, s) \/ In(y, t)
      <4>1. PICK i \in 1..Len(c) : c[i] = y
        BY <3>1 DEF In
      <4>2. CASE i \in 1..Len(s)
        BY <2>3, <4>1, <4>2 DEF In
      <4>3. ASSUME NEW j \in 1..Len(t), i = Len(s) + j PROVE In(y, t)
        BY <2>4, <4>1, <4>3 DEF In
      <4> QED BY <2>5, <4>2, <4>3
    <3>2. In(y, s) \/ In(y, t) => In(y, c)
      BY <2>3, <2>4 DEF In
    <3> QED BY <3>1, <3>2
  <2>7. ASSUME NoRepeats(s), NoRepeats(t), Apart(s, t) PROVE NoRepeats(c)
    <3> SUFFICES ASSUME NEW i \in 1..Len(c), NEW j \in 1..Len(c), c[i] = c[j] PROVE i = j
      BY DEF NoRepeats
    <3>1. CASE i \in 1..Len(s) /\ j \in 1..Len(s)
      BY <2>3, <2>7, <3>1 DEF NoRepeats
    <3>2. ASSUME NEW k \in 1..Len(t), NEW l \in 1..Len(s), c[Len(s) + k] = c[l] PROVE FALSE
      BY <2>1, <2>3, <2>4, <2>7, <3>2 DEF Apart, In
    <3>3. ASSUME NEW k \in 1..Len(t), NEW l \in 1..Len(t), i = Len(s) + k, j = Len(s) + l PROVE i = j
      BY <2>4, <2>7, <3>3 DEF NoRepeats
    <3> QED BY <2>5, <3>1, <3>2, <3>3
  <2> QED BY <2>2, <2>3, <2>4, <2>6, <2>7 DEF c
<1> QED BY <1>1, <1>2

-----------------------------------------------------------------------------
\* What a step does to the objects, their drains and the history.

\* Message m is accepted into q, whose first n messages are dropped.
Accepts(q, m, n) ==
  /\ current' = q /\ (current # None => q = current)
  /\ current = None => Items(q) = <<>> /\ drains[q].pc = "off"
  /\ m \in Message \ recent /\ recent' = recent \cup {m}
  /\ n \in 0..Len(Items(q))
  /\ queues'[q].items = Append(SubSeq(Items(q), n + 1, Len(Items(q))), m)
  /\ queues'[q].droppedCount <= queues[q].droppedCount + n
  /\ \A r \in QueueId \ {q} : queues'[r] = queues[r] /\ drains'[r] = drains[r]
  /\ drains'[q].turn = drains[q].turn /\ (drains[q].pc # "off" => drains'[q] = drains[q])
  /\ hist'.accepted = Append(hist.accepted, m) /\ hist'.handled = hist.handled
  /\ hist'.dropped = hist.dropped \cup Range(SubSeq(Items(q), 1, n))
  /\ hist'.cleared = hist.cleared /\ hist'.carriers = hist.carriers /\ hist'.split = hist.split
  /\ hist.raced \/ (n > 0 /\ drains[q].pc = "running") => hist'.raced

\* A turn of q begins with messages at the front of its queue.
Begins(q) ==
  /\ UNCHANGED <<queues, current, recent>> /\ drains[q].pc = "debounce"
  /\ \A r \in QueueId \ {q} : drains'[r] = drains[r]
  /\ \E n \in 0..Len(Items(q)) : drains'[q].turn.items = SubSeq(Items(q), 1, n)
  /\ hist'.accepted = hist.accepted /\ hist'.handled = hist.handled /\ hist'.dropped = hist.dropped
  /\ hist'.cleared = hist.cleared /\ hist'.raced = hist.raced /\ hist'.split = hist.split
  /\ hist.carriers \subseteq hist'.carriers
  /\ drains'[q].turn.kind = "summary" =>
       \A x \in Message : In(x, drains'[q].turn.items) => x \in hist'.carriers

\* Drains end and start again; turns end without success.
Rewinds ==
  /\ \A r \in QueueId :
       /\ queues'[r].droppedCount <= queues[r].droppedCount
       /\ drains'[r].turn = drains[r].turn \/ drains'[r].turn = NoTurn
  /\ Solo => Solo'

\* The turn of q succeeds, and as many messages leave its queue as it has taken.
Ends(q) ==
  /\ drains[q].pc = "running" /\ recent' = recent
  /\ queues'[q].items = SubSeq(Items(q), Len(Taken(q)) + 1, Len(Items(q)))
  /\ \A r \in QueueId \ {q} : queues'[r].items = Items(r)
  /\ drains'[q].turn = NoTurn
  /\ Rewinds
  /\ hist'.accepted = hist.accepted /\ hist'.dropped = hist.dropped /\ hist'.cleared = hist.cleared
  /\ hist'.carriers = hist.carriers /\ hist'.raced = hist.raced /\ hist'.split = hist.split
  /\ hist'.handled = IF drains[q].turn.kind = "summary" THEN hist.handled
                     ELSE hist.handled \o Taken(q)

\* No message moves.
Rests ==
  /\ UNCHANGED <<hist, recent>> /\ \A r \in QueueId : queues'[r].items = Items(r)
  /\ Rewinds

\* The queue that messages go to is emptied and forgotten.
Clears ==
  /\ UNCHANGED <<drains, recent>> /\ current' = None
  /\ \A r \in QueueId : /\ queues'[r].items = IF r = current THEN <<>> ELSE Items(r)
                        /\ queues'[r].droppedCount <= queues[r].droppedCount
  /\ hist'.accepted = hist.accepted /\ hist'.handled = hist.handled /\ hist'.dropped = hist.dropped
  /\ hist'.carriers = hist.carriers /\ hist'.raced = hist.raced
  /\ hist.cleared \subseteq hist'.cleared
  /\ \A x \in hist'.cleared \ hist.cleared : current # None /\ In(x, Items(current))
  /\ current # None => \A x \in Message : In(x, Items(current)) => x \in hist'.cleared
  /\ hist.split \/ (current # None /\ drains[current].pc # "off") => hist'.split

Effect ==
  \/ \E q \in QueueId, m \in Message, n \in Nat : Accepts(q, m, n)
  \/ \E q \in QueueId : Begins(q) \/ Ends(q)
  \/ Rests \/ Clears

\* How the objects are after a drain of the registry's queue has been scheduled.
Scheduled(qs, ds) ==
  /\ queues' \in [QueueId -> Object] /\ drains' \in [QueueId -> Drain]
  /\ callback' \in BOOLEAN /\ current' \in {current, None}
  /\ \A r \in QueueId :
       /\ queues'[r].items = qs[r].items /\ queues'[r].droppedCount \in {qs[r].droppedCount, 0}
       /\ drains'[r] = ds[r] \/ (drains'[r].turn = NoTurn /\ TurnOK(drains'[r]))

\* The objects that nobody refers to are as good as new.
LEMMA CollectedObjects ==
  ASSUME NEW qs \in [QueueId -> Object], NEW ds, NEW cur
  PROVE  LET c == Collected(qs, ds, cur) IN
         /\ c \in [QueueId -> Object]
         /\ \A r \in QueueId : /\ c[r].items = qs[r].items
                               /\ c[r].droppedCount \in {qs[r].droppedCount, 0}
BY Fields DEF Collected

\* scheduleFollowupDrain moves no message; when only the registry's queue has
\* messages and a drain, it stays so.
LEMMA ScheduleEffect ==
  ASSUME Types, NEW qs \in [QueueId -> Object], NEW ds \in [QueueId -> Drain],
         ScheduleFollowupDrain(qs, ds)
  PROVE  /\ Scheduled(qs, ds)
         /\ (\A r \in QueueId : r # current => ds[r].pc = "off" /\ qs[r].items = <<>>) => Solo'
<1>1. current \in QueueId \cup {None} /\ callback \in BOOLEAN
  BY DEF Types
<1>2. Waiting(FALSE) \in Drain /\ Waiting(FALSE).turn = NoTurn /\ TurnOK(Waiting(FALSE))
  BY Fields DEF TurnOK
<1>3. CASE current = None \/ ds[current].pc # "off"
  <2>1. queues' = qs /\ drains' = ds /\ current' = current /\ callback' = callback
    BY <1>3 DEF ScheduleFollowupDrain
  <2>2. Scheduled(qs, ds)
    BY <1>1, <2>1 DEF Scheduled
  <2> QED BY <2>1, <2>2 DEF Solo, Items
<1>4. CASE ~(current = None \/ ds[current].pc # "off") /\ HasWork(qs[current])
  <2>1. queues' = qs /\ drains' = [ds EXCEPT ![current] = Waiting(FALSE)] /\ current' = current
        /\ callback' = TRUE /\ current \in QueueId
    BY <1>1, <1>4 DEF ScheduleFollowupDrain
  <2>2. Scheduled(qs, ds)
    BY <1>2, <2>1 DEF Scheduled
  <2> QED BY <2>1, <2>2 DEF Solo, Items
<1>5. CASE ~(current = None \/ ds[current].pc # "off") /\ ~HasWork(qs[current])
  <2>1. queues' = Collected(qs, ds, None) /\ drains' = ds /\ current' = None
        /\ callback' = TRUE /\ current \in QueueId /\ qs[current].items = <<>> /\ ds[current].pc = "off"
    BY <1>1, <1>5 DEF ScheduleFollowupDrain, HasWork
  <2>2. Scheduled(qs, ds)
    BY <2>1, CollectedObjects DEF Scheduled
  <2>3. ASSUME \A r \in QueueId : r # current => ds[r].pc = "off" /\ qs[r].items = <<>>
        PROVE  Solo'
    BY <2>1, <2>2, <2>3 DEF Solo, Items, Scheduled
  <2> QED BY <2>2, <2>3
<1> QED BY <1>3, <1>4, <1>5

\* The same of the end of a drain.
LEMMA EndEffect ==
  ASSUME Types, NEW q \in QueueId, drains[q].pc # "off", NEW qs \in [QueueId -> Object],
         EndDrain(q, qs)
  PROVE  /\ Scheduled(qs, [drains EXCEPT ![q] = Off])
         /\ (\A r \in QueueId : r # current => drains[r].pc = "off" /\ qs[r].items = <<>>) => Solo'
<1> DEFINE ds == [drains EXCEPT ![q] = Off]
<1>1. /\ ds \in [QueueId -> Drain] /\ ds[q].pc = "off" /\ \A r \in QueueId \ {q} : ds[r] = drains[r]
      /\ current \in QueueId \cup {None} /\ callback \in BOOLEAN
  BY Fields DEF Types
<1>2. CASE HasWork(qs[q])
  <2>1. ScheduleFollowupDrain(qs, ds)
    BY <1>2 DEF EndDrain
  <2> HIDE DEF ds
  <2>2. Scheduled(qs, ds)
    BY <1>1, <2>1, ScheduleEffect
  <2>3. (\A r \in QueueId : r # current => ds[r].pc = "off" /\ qs[r].items = <<>>) => Solo'
    BY <1>1, <2>1, ScheduleEffect
  <2>4. \A r \in QueueId : drains[r].pc = "off" => ds[r].pc = "off"
    BY <1>1
  <2> QED BY <2>2, <2>3, <2>4 DEF ds
<1>3. CASE ~HasWork(qs[q])
  <2>1. drains' = ds /\ queues' = Collected(qs, ds, None) /\ current' = None /\ callback' = callback
        /\ qs[q].items = <<>>
    BY <1>3 DEF EndDrain, HasWork
  <2> HIDE DEF ds
  <2>2. Scheduled(qs, ds)
    BY <1>1, <2>1, CollectedObjects DEF Scheduled
  <2>3. ASSUME \A r \in QueueId : r # current => drains[r].pc = "off" /\ qs[r].items = <<>>
        PROVE  Solo'
    BY <1>1, <2>1, <2>2, <2>3 DEF Solo, Items, Scheduled
  <2> QED BY <2>2, <2>3 DEF ds
<1> QED BY <1>2, <1>3

-----------------------------------------------------------------------------
\* The drop policy takes messages from the front.
LEMMA DropEffect ==
  ASSUME NEW s \in Object
  PROVE  /\ DropCount(s) \in 0..Len(s.items)
         /\ ApplyQueueDropPolicy(s) \in Object
         /\ ApplyQueueDropPolicy(s).items = SubSeq(s.items, DropCount(s) + 1, Len(s.items))
         /\ ApplyQueueDropPolicy(s).droppedCount <= s.droppedCount + DropCount(s)
<1> DEFINE n == DropCount(s)
           rest == SubSeq(s.items, n + 1, Len(s.items))
           lines == LastN(s.summaryLines \o SubSeq(s.items, 1, n), s.cap)
<1>1. s.items \in Seq(Message) /\ Len(s.items) \in Nat /\ s.cap \in Nat \ {0}
      /\ s.droppedCount \in Nat /\ s.summaryLines \in Seq(Message)
  BY Fields, LenProperties
<1>2. n \in 0..Len(s.items) /\ n \in Nat
  BY <1>1 DEF DropCount
<1> HIDE DEF n
<1>3. rest \in Seq(Message) /\ SubSeq(s.items, 1, n) \in Seq(Message)
  BY <1>1, <1>2, CutSeq, FrontSeq
<1>4. s.summaryLines \o SubSeq(s.items, 1, n) \in Seq(Message)
  BY <1>1, <1>3, LongerSeq
<1>5. lines \in Seq(Message)
  <2> DEFINE l == s.summaryLines \o SubSeq(s.items, 1, n)
  <2>1. l \in Seq(Message) /\ Len(l) \in Nat
    BY <1>4, LenProperties
  <2> HIDE DEF l
  <2>2. CASE Len(l) <= s.cap
    BY <2>1, <2>2 DEF LastN, l
  <2>3. CASE ~(Len(l) <= s.cap)
    <3>1. Len(l) - s.cap \in Nat
      BY <1>1, <2>1, <2>3
    <3>2. SubSeq(l, Len(l) - s.cap + 1, Len(l)) \in Seq(Message)
      BY <2>1, <3>1, CutSeq
    <3> QED BY <2>3, <3>2 DEF LastN, l
  <2> QED BY <2>2, <2>3
<1> HIDE DEF lines, rest
<1>6. CASE s.dropPolicy = "summarize"
  <2> DEFINE d == s.droppedCount + n
             b == [s EXCEPT !.items = rest, !.droppedCount = d, !.summaryLines = lines]
  <2>0. d \in Nat
    BY <1>1, <1>2
  <2> HIDE DEF d
  <2>1. b \in Object /\ b.items = rest /\ b.droppedCount = d
    BY <1>3, <1>5, <2>0 DEF Object
  <2>2. ApplyQueueDropPolicy(s) = b
    BY <1>6 DEF ApplyQueueDropPolicy, n, rest, lines, d
  <2> HIDE DEF b
  <2>3. d <= s.droppedCount + n
    BY <1>1, <1>2 DEF d
  <2> QED BY <1>2, <2>1, <2>2, <2>3 DEF n, rest
<1>7. CASE s.dropPolicy # "summarize"
  <2> DEFINE b == [s EXCEPT !.items = rest]
  <2>1. b \in Object /\ b.items = rest /\ b.droppedCount = s.droppedCount
    BY <1>1, <1>3 DEF Object
  <2>2. ApplyQueueDropPolicy(s) = b
    BY <1>7 DEF ApplyQueueDropPolicy, n, rest
  <2> HIDE DEF b
  <2> QED BY <1>1, <1>2, <2>1, <2>2 DEF n, rest
<1> QED BY <1>6, <1>7

\* What a step leaves of the types.
Objects ==
  /\ queues \in [QueueId -> Object] /\ drains \in [QueueId -> Drain]
  /\ current \in QueueId \cup {None} /\ callback \in BOOLEAN /\ recent \subseteq Message
  /\ hist \in History /\ \A q \in QueueId : TurnOK(drains[q])

\* A message is accepted, or it changes no more than settings.
LEMMA EnqueueEffect ==
  ASSUME Types, NEW q \in QueueId, NEW m \in Message, NEW s \in Object, EnqueueInto(q, s, m),
         s.items = Items(q), s.droppedCount = queues[q].droppedCount,
         current # None => q = current,
         current = None => Items(q) = <<>> /\ drains[q].pc = "off"
  PROVE  Objects' /\ (Rests \/ Accepts(q, m, DropCount(s)))
<1> DEFINE n == DropCount(s)
<1>1. /\ queues \in [QueueId -> Object] /\ drains \in [QueueId -> Drain] /\ hist \in History
      /\ recent \subseteq Message /\ callback \in BOOLEAN
      /\ \A r \in QueueId : TurnOK(drains[r])
  BY DEF Types
<1>2. CASE /\ IsKnown(m, s) \/ Refused(s)
           /\ queues' = [queues EXCEPT ![q] = [s EXCEPT !.lastRun = @ \/ ~IsKnown(m, s)]]
           /\ current' = q
           /\ UNCHANGED <<callback, recent, drains, hist>>
  <2> DEFINE b == [s EXCEPT !.lastRun = @ \/ ~IsKnown(m, s)]
  <2>1. b \in Object /\ b.items = s.items /\ b.droppedCount = s.droppedCount
    <3>1. s.lastRun \in BOOLEAN /\ (s.lastRun \/ ~IsKnown(m, s)) \in BOOLEAN
      BY Fields
    <3> QED BY <3>1 DEF Object
  <2>2. queues' = [queues EXCEPT ![q] = b]
    BY <1>2
  <2> HIDE DEF b
  <2>3. Objects'
    BY <1>1, <1>2, <2>1, <2>2 DEF Objects
  <2>4. \A r \in QueueId : /\ queues'[r].items = Items(r)
                           /\ queues'[r].droppedCount = queues[r].droppedCount
    BY <1>1, <2>1, <2>2 DEF Items
  <2>5. \A r \in QueueId : queues[r].droppedCount \in Nat
    BY <1>1, Fields
  <2>6. Solo => Solo'
    BY <1>2, <2>4, QueueIds DEF Solo, Items
  <2>7. \A r \in QueueId : queues'[r].droppedCount <= queues[r].droppedCount
    BY <2>4, <2>5
  <2> QED BY <1>2, <2>3, <2>4, <2>6, <2>7 DEF Rests, Rewinds
<1>3. CASE /\ ~IsKnown(m, s) /\ ~Refused(s)
           /\ queues' = [queues EXCEPT ![q] = Pushed(ApplyQueueDropPolicy([s EXCEPT !.lastRun = TRUE]), m)]
           /\ current' = q
           /\ recent' = recent \union {m}
           /\ drains' = IF callback /\ drains[q].pc = "off"
                          THEN [drains EXCEPT ![q] = Waiting(FALSE)] ELSE drains
           /\ UNCHANGED callback
           /\ hist' = [hist EXCEPT !.accepted = Append(@, m),
                                   !.dropped = @ \union Range(SubSeq(s.items, 1, DropCount(s))),
                                   !.raced = @ \/ (SubSeq(s.items, 1, DropCount(s)) # <<>>
                                                     /\ drains[q].pc = "running")]
  <2> DEFINE s0 == [s EXCEPT !.lastRun = TRUE]
             s1 == ApplyQueueDropPolicy(s0)
             s2 == Pushed(s1, m)
             gone == SubSeq(s.items, 1, n)
             rest == SubSeq(s.items, n + 1, Len(s.items))
  <2>1. s0 \in Object /\ s0.items = s.items /\ s0.droppedCount = s.droppedCount /\ s0.cap = s.cap
    BY DEF Object
  <2> HIDE DEF s0
  <2>2. DropCount(s0) = n
    BY <2>1 DEF DropCount
  <2> HIDE DEF n
  <2>3. /\ n \in 0..Len(s.items) /\ s1 \in Object /\ s1.items = rest
        /\ s1.droppedCount <= s.droppedCount + n
    BY <2>1, <2>2, DropEffect
  <2> HIDE DEF s1
  <2>4. s.items \in Seq(Message) /\ s1.items \in Seq(Message)
    BY <2>3, Fields
  <2>5. /\ s2 \in Object /\ s2.items = Append(rest, m)
        /\ s2.droppedCount = s1.droppedCount
    <3>1. Append(s1.items, m) \in Seq(Message)
      BY <2>4, LongerSeq
    <3> QED BY <2>3, <3>1 DEF Pushed, Object
  <2> HIDE DEF s2
  <2>6. queues' = [queues EXCEPT ![q] = s2]
    BY <1>3 DEF s2, s1, s0
  <2>7. gone \in Seq(Message) /\ Range(gone) \subseteq Message /\ (gone = <<>> <=> n = 0)
    <3>1. gone \in Seq(Message) /\ Len(gone) = n
      BY <2>3, <2>4, FrontSeq
    <3> HIDE DEF gone
    <3>2. Range(gone) \subseteq Message
      BY <3>1, Members
    <3>3. gone = <<>> <=> n = 0
      BY <3>1, EmptySeq
    <3> QED BY <3>1, <3>2, <3>3
  <2>8. hist' = [hist EXCEPT !.accepted = Append(@, m), !.dropped = @ \union Range(gone),
                             !.raced = @ \/ (gone # <<>> /\ drains[q].pc = "running")]
    BY <1>3 DEF n
  <2> HIDE DEF gone, rest
  <2>9. /\ hist' \in History
        /\ hist'.accepted = Append(hist.accepted, m) /\ hist'.handled = hist.handled
        /\ hist'.dropped = hist.dropped \cup Range(gone)
        /\ hist'.cleared = hist.cleared /\ hist'.carriers = hist.carriers /\ hist'.split = hist.split
        /\ hist'.raced = (hist.raced \/ (gone # <<>> /\ drains[q].pc = "running"))
    <3> DEFINE raced == hist.raced \/ (gone # <<>> /\ drains[q].pc = "running")
    <3>1. hist.accepted \in Seq(Message) /\ hist.dropped \subseteq Message /\ hist.raced \in BOOLEAN
      BY TypesUse
    <3>2. Append(hist.accepted, m) \in Seq(Message) /\ hist.dropped \cup Range(gone) \subseteq Message
      BY <2>7, <3>1, LongerSeq
    <3>3. raced \in BOOLEAN
      OBVIOUS
    <3>4. hist' = [hist EXCEPT !.accepted = Append(@, m), !.dropped = @ \union Range(gone),
                               !.raced = raced]
      BY <1>1, <2>8 DEF History
    <3> HIDE DEF raced
    <3>5. /\ hist' \in History
          /\ hist'.accepted = Append(hist.accepted, m) /\ hist'.handled = hist.handled
          /\ hist'.dropped = hist.dropped \cup Range(gone)
          /\ hist'.cleared = hist.cleared /\ hist'.carriers = hist.carriers /\ hist'.split = hist.split
          /\ hist'.raced = raced
      BY <1>1, <3>2, <3>3, <3>4 DEF History
    <3> QED BY <3>5 DEF raced
  <2>10. /\ drains' \in [QueueId -> Drain] /\ \A r \in QueueId : TurnOK(drains'[r])
         /\ \A r \in QueueId \ {q} : drains'[r] = drains[r]
         /\ drains'[q].turn = drains[q].turn /\ (drains[q].pc # "off" => drains'[q] = drains[q])
    <3>1. CASE callback /\ drains[q].pc = "off"
      <4>1. drains' = [drains EXCEPT ![q] = Waiting(FALSE)]
        BY <1>3, <3>1
      <4>2. Waiting(FALSE) \in Drain /\ Waiting(FALSE).turn = NoTurn /\ TurnOK(Waiting(FALSE))
        BY Fields DEF TurnOK
      <4>3. drains[q].turn = NoTurn
        BY <3>1, TypesUse
      <4> QED BY <1>1, <3>1, <4>1, <4>2, <4>3
    <3>2. CASE ~(callback /\ drains[q].pc = "off")
      BY <1>1, <1>3, <3>2
    <3> QED BY <3>1, <3>2
  <2>11. Objects'
    BY <1>1, <1>3, <2>5, <2>6, <2>9, <2>10 DEF Objects
  <2>12. m \notin recent
    BY <1>3 DEF IsKnown
  <2>13. queues'[q] = s2 /\ \A r \in QueueId \ {q} : queues'[r] = queues[r]
    BY <1>1, <2>6
  <2>14. hist.raced \/ (n > 0 /\ drains[q].pc = "running") => hist'.raced
    <3>1. n > 0 => gone # <<>>
      BY <2>3, <2>7
    <3> QED BY <2>9, <3>1
  <2>15. rest = SubSeq(Items(q), n + 1, Len(Items(q))) /\ gone = SubSeq(Items(q), 1, n)
    BY DEF rest, gone
  <2>16. Accepts(q, m, n)
    BY <1>3, <2>3, <2>5, <2>9, <2>10, <2>12, <2>13, <2>14, <2>15 DEF Accepts
  <2> QED BY <2>11, <2>16 DEF n
<1> QED BY <1>2, <1>3 DEF EnqueueInto

\* A handler enqueues its message into the registry's queue, or into a new one.
LEMMA EnqueueRunEffect ==
  ASSUME Types, NEW m \in Message, NEW g \in Setting, EnqueueFollowupRun(m, g)
  PROVE  Objects' /\ Effect
<1>1. current \in QueueId \cup {None} /\ \A q \in QueueId : queues[q] \in Object
  BY DEF Types
<1>2. ASSUME NEW o \in Object
      PROVE  /\ WithSetting(o, g) \in Object
             /\ WithSetting(o, g).items = o.items /\ WithSetting(o, g).droppedCount = o.droppedCount
  <2>1. /\ g.mode \in {"collect", "followup"} /\ g.cap \in Nat \ {0}
        /\ g.dropPolicy \in {"old", "new", "summarize"}
    BY Settings
  <2> QED BY <2>1 DEF WithSetting, Object
<1>3. ASSUME NEW q \in QueueId, NEW s \in Object, EnqueueInto(q, s, m),
             s.items = Items(q), s.droppedCount = queues[q].droppedCount,
             current # None => q = current,
             current = None => Items(q) = <<>> /\ drains[q].pc = "off"
      PROVE  Objects' /\ Effect
  <2>1. Objects' /\ (Rests \/ Accepts(q, m, DropCount(s)))
    BY <1>3, EnqueueEffect
  <2>2. DropCount(s) \in Nat
    <3>1. s.items \in Seq(Message)
      BY Fields
    <3>2. Len(s.items) \in Nat /\ DropCount(s) \in 0..Len(s.items)
      BY <3>1, LenProperties, DropEffect
    <3> QED BY <3>2
  <2> QED BY <2>1, <2>2 DEF Effect
<1>4. CASE current # None
  <2>1. current \in QueueId
    BY <1>1, <1>4
  <2>2. EnqueueInto(current, WithSetting(queues[current], g), m)
    BY <1>4 DEF EnqueueFollowupRun
  <2> QED BY <1>1, <1>2, <1>3, <1>4, <2>1, <2>2 DEF Items
<1>5. CASE current = None
  <2> DEFINE free == {q \in QueueId : Unreachable(q)}
             q0 == CHOOSE q \in free : TRUE
  <2>1. free # {} /\ EnqueueInto(q0, WithSetting(Unused, g), m)
    BY <1>5 DEF EnqueueFollowupRun
  <2>2. q0 \in free
    BY <2>1
  <2> HIDE DEF q0
  <2>3. q0 \in QueueId /\ queues[q0] = Unused /\ drains[q0].pc = "off"
    BY <2>2 DEF Unreachable
  <2> HIDE DEF free
  <2>4. Unused \in Object /\ Unused.items = <<>> /\ Unused.droppedCount = 0
    BY Fields
  <2> QED BY <1>2, <1>3, <1>5, <2>1, <2>3, <2>4 DEF Items
<1> QED BY <1>4, <1>5

-----------------------------------------------------------------------------
\* A turn takes messages from the front.
LEMMA TurnFacts ==
  ASSUME NEW s \in Object, NEW f \in BOOLEAN, NextTurn(s, f) # NoTurn
  PROVE  LET t == NextTurn(s, f) IN
         /\ t \in Turn /\ t.kind # "none"
         /\ \E n \in 0..Len(s.items) : t.items = SubSeq(s.items, 1, n)
<1> DEFINE told == IF SummaryPending(s) THEN s.summaryLines ELSE <<>>
           first == SubSeq(s.items, 1, 1)
           batch == [kind |-> "batch", items |-> s.items, told |-> told]
           summary == [kind |-> "summary", items |-> first, told |-> told]
           item == [kind |-> "item", items |-> first, told |-> <<>>]
           B == s.mode = "collect" /\ ~Forced(s, f) /\ s.lastRun
           S == s.mode = "followup" /\ SummaryPending(s) /\ s.items # <<>>
           I == (Forced(s, f) \/ (s.mode = "followup" /\ ~SummaryPending(s))) /\ s.items # <<>>
           Goal(t) == /\ t \in Turn /\ t.kind # "none"
                      /\ \E n \in 0..Len(s.items) : t.items = SubSeq(s.items, 1, n)
<1>1. s.items \in Seq(Message) /\ Len(s.items) \in Nat /\ s.summaryLines \in Seq(Message)
  BY Fields, LenProperties
<1>2. told \in Seq(Message) /\ <<>> \in Seq(Message)
  BY <1>1, EmptySeq
<1>3. s.items # <<>> => first \in Seq(Message) /\ 1 \in 0..Len(s.items)
  <2>1. s.items # <<>> => Len(s.items) # 0
    BY <1>1, EmptySeq
  <2>2. s.items # <<>> => 1 \in 0..Len(s.items)
    BY <1>1, <2>1
  <2> QED BY <1>1, <2>2, FrontSeq
<1>4. ASSUME B PROVE Goal(batch)
  <2> HIDE DEF told
  <2>1. batch \in Turn /\ batch.kind # "none" /\ batch.items = s.items
    BY <1>1, <1>2 DEF Turn, Kinds
  <2>2. \E n \in 0..Len(s.items) : s.items = SubSeq(s.items, 1, n)
    <3>1. Len(s.items) \in 0..Len(s.items) /\ s.items = SubSeq(s.items, 1, Len(s.items))
      BY <1>1, SubSeqFull
    <3> QED BY <3>1
  <2> HIDE DEF batch
  <2> QED BY <2>1, <2>2
<1>5. ASSUME S PROVE Goal(summary)
  <2>1. first \in Seq(Message) /\ 1 \in 0..Len(s.items)
    BY <1>3, <1>5
  <2> HIDE DEF told
  <2>2. summary \in Turn /\ summary.kind = "summary" /\ summary.items = first
    BY <1>2, <2>1 DEF Turn, Kinds
  <2> HIDE DEF summary
  <2> QED BY <2>1, <2>2
<1>6. ASSUME I PROVE Goal(item)
  <2>1. first \in Seq(Message) /\ 1 \in 0..Len(s.items)
    BY <1>3, <1>6
  <2>2. item \in Turn /\ item.kind = "item" /\ item.items = first
    BY <1>2, <2>1 DEF Turn, Kinds
  <2> HIDE DEF item
  <2> QED BY <2>1, <2>2
<1>7. NextTurn(s, f) = CASE B -> batch [] S -> summary [] I -> item [] OTHER -> NoTurn
  BY DEF NextTurn
<1>8. /\ ~(B /\ S) /\ ~(B /\ I) /\ ~(S /\ I)
  BY DEF Forced
<1> HIDE DEF B, S, I, batch, summary, item
<1>9. \/ B /\ NextTurn(s, f) = batch
      \/ S /\ NextTurn(s, f) = summary
      \/ I /\ NextTurn(s, f) = item
  BY <1>7, <1>8
<1> HIDE DEF Goal
<1>10. Goal(NextTurn(s, f))
  BY <1>4, <1>5, <1>6, <1>9
<1> QED BY <1>10 DEF Goal

\* A turn begins.
LEMMA BeginEffect ==
  ASSUME Types, NEW q \in QueueId, BeginTurn(q)
  PROVE  Objects' /\ Begins(q)
<1> DEFINE s == queues[q]
           t == NextTurn(s, drains[q].forced)
           d == [pc |-> "running", turn |-> t, forced |-> drains[q].forced \/ Forced(s, FALSE)]
<1>1. /\ queues \in [QueueId -> Object] /\ drains \in [QueueId -> Drain] /\ hist \in History
      /\ recent \subseteq Message /\ callback \in BOOLEAN /\ current \in QueueId \cup {None}
      /\ \A r \in QueueId : TurnOK(drains[r])
  BY DEF Types
<1>2. s \in Object /\ drains[q].forced \in BOOLEAN /\ t # NoTurn
  BY <1>1, Fields DEF BeginTurn
<1>3. /\ t \in Turn /\ t.kind # "none"
      /\ \E n \in 0..Len(s.items) : t.items = SubSeq(s.items, 1, n)
  BY <1>2, TurnFacts
<1>4. d \in Drain /\ d.turn = t /\ TurnOK(d)
  <2>1. (drains[q].forced \/ Forced(s, FALSE)) \in BOOLEAN
    OBVIOUS
  <2> HIDE DEF t
  <2> QED BY <1>3, <2>1 DEF Drain, TurnOK
<1>5. /\ drains' = [drains EXCEPT ![q] = d] /\ drains[q].pc = "debounce"
      /\ hist' = [hist EXCEPT !.carriers = @ \union (IF t.kind = "summary" THEN Range(t.items) ELSE {})]
      /\ UNCHANGED <<queues, current, callback, recent>>
  BY DEF BeginTurn
<1> HIDE DEF d, t
<1>6. drains' \in [QueueId -> Drain] /\ drains'[q] = d /\ \A r \in QueueId \ {q} : drains'[r] = drains[r]
  BY <1>1, <1>4, <1>5
<1> DEFINE c == hist.carriers \union (IF t.kind = "summary" THEN Range(t.items) ELSE {})
<1>7. c \subseteq Message /\ hist.carriers \subseteq c
      /\ (t.kind = "summary" => \A x \in Message : In(x, t.items) => x \in c)
  <2>1. t.items \in Seq(Message)
    BY <1>3, Fields
  <2>2. Range(t.items) \subseteq Message /\ \A x \in Message : In(x, t.items) => x \in Range(t.items)
    BY <2>1, Members
  <2> QED BY <2>2, TypesUse
<1>8. hist' = [hist EXCEPT !.carriers = c]
  BY <1>1, <1>5 DEF History
<1> HIDE DEF c
<1>9. /\ hist' \in History /\ hist'.carriers = c
      /\ hist'.accepted = hist.accepted /\ hist'.handled = hist.handled
      /\ hist'.dropped = hist.dropped /\ hist'.cleared = hist.cleared
      /\ hist'.raced = hist.raced /\ hist'.split = hist.split
  BY <1>1, <1>7, <1>8 DEF History
<1>10. Objects'
  BY <1>1, <1>4, <1>5, <1>6, <1>9 DEF Objects
<1>11. Begins(q)
  BY <1>3, <1>4, <1>5, <1>6, <1>7, <1>9 DEF Begins, Items
<1> QED BY <1>10, <1>11

-----------------------------------------------------------------------------
\* What scheduling leaves when no message has moved before.
LEMMA ScheduledRests ==
  ASSUME Types, NEW ds \in [QueueId -> Drain], Scheduled(queues, ds),
         \A r \in QueueId : ds[r] = drains[r] \/ ds[r] = Off,
         Solo => Solo', UNCHANGED <<recent, hist>>
  PROVE  Objects' /\ Rests
<1>1. /\ queues \in [QueueId -> Object] /\ drains \in [QueueId -> Drain] /\ hist \in History
      /\ recent \subseteq Message /\ current \in QueueId \cup {None}
      /\ \A r \in QueueId : TurnOK(drains[r])
  BY DEF Types
<1>2. \A r \in QueueId : queues[r].droppedCount \in Nat
  BY <1>1, Fields
<1>3. Off.turn = NoTurn /\ TurnOK(Off)
  BY Fields DEF TurnOK
<1>4. Objects'
  BY <1>1, <1>3 DEF Objects, Scheduled
<1>5. \A r \in QueueId : drains'[r].turn = drains[r].turn \/ drains'[r].turn = NoTurn
  BY <1>3 DEF Scheduled
<1>6. \A r \in QueueId : queues'[r].items = Items(r)
  BY DEF Scheduled, Items
<1>7. \A r \in QueueId : queues'[r].droppedCount <= queues[r].droppedCount
  BY <1>2 DEF Scheduled
<1> QED BY <1>4, <1>5, <1>6, <1>7 DEF Rests, Rewinds

\* A drain ends, and may start again.
LEMMA EndRests ==
  ASSUME Types, NEW q \in QueueId, drains[q].pc # "off", EndDrain(q, queues),
         UNCHANGED <<recent, hist>>
  PROVE  Objects' /\ Rests
<1> DEFINE ds == [drains EXCEPT ![q] = Off]
<1>1. queues \in [QueueId -> Object] /\ drains \in [QueueId -> Drain]
  BY DEF Types
<1>2. Scheduled(queues, ds)
  BY <1>1, EndEffect
<1>3. Solo => Solo'
  BY <1>1, EndEffect DEF Solo, Items
<1>4. ds \in [QueueId -> Drain] /\ \A r \in QueueId : ds[r] = drains[r] \/ ds[r] = Off
  BY <1>1, Fields
<1> HIDE DEF ds
<1> QED BY <1>2, <1>3, <1>4, ScheduledRests

\* An auto-reply turn ends in a drain.
LEMMA TurnEndsRests ==
  ASSUME Types, TurnEnds
  PROVE  Objects' /\ Rests
<1>1. queues \in [QueueId -> Object] /\ drains \in [QueueId -> Drain]
  BY DEF Types
<1>2. ScheduleFollowupDrain(queues, drains) /\ UNCHANGED <<recent, hist>>
  BY DEF TurnEnds
<1>3. Scheduled(queues, drains)
  BY <1>1, <1>2, ScheduleEffect
<1>4. Solo => Solo'
  BY <1>1, <1>2, ScheduleEffect DEF Solo, Items
<1> QED BY <1>1, <1>2, <1>3, <1>4, ScheduledRests

\* A turn has succeeded.
LEMMA SucceedsEffect ==
  ASSUME Types, NEW q \in QueueId, TurnSucceeds(q)
  PROVE  Objects' /\ Ends(q)
<1> DEFINE t == drains[q].turn
           s == AfterTurn(queues[q], t)
           qs == [queues EXCEPT ![q] = s]
           rest == SubSeq(Items(q), Len(Taken(q)) + 1, Len(Items(q)))
           handled == IF t.kind = "summary" THEN hist.handled ELSE hist.handled \o Taken(q)
<1>1. /\ queues \in [QueueId -> Object] /\ drains \in [QueueId -> Drain] /\ hist \in History
      /\ recent \subseteq Message /\ callback \in BOOLEAN /\ current \in QueueId \cup {None}
      /\ \A r \in QueueId : TurnOK(drains[r])
  BY DEF Types
<1>2. /\ Items(q) \in Seq(Message) /\ Taken(q) \in Seq(Message) /\ queues[q] \in Object
      /\ t \in Turn /\ queues[q].droppedCount \in Nat /\ drains[q].pc = "running"
      /\ drains[q].forced \in BOOLEAN
  BY <1>1, TypesUse, Fields DEF TurnSucceeds
<1>3. rest \in Seq(Message)
  BY <1>2, CutSeq, LenProperties
<1>4. s \in Object /\ s.items = rest /\ s.droppedCount <= queues[q].droppedCount
  <2> DEFINE o == [queues[q] EXCEPT !.items = rest]
  <2>1. o \in Object /\ o.items = rest /\ o.droppedCount = queues[q].droppedCount
    BY <1>2, <1>3 DEF Object
  <2>2. WithoutFirst(queues[q], Len(t.items)) = o
    BY DEF WithoutFirst, Items, Taken
  <2> HIDE DEF o
  <2>3. ClearQueueSummaryState(o) \in Object /\ ClearQueueSummaryState(o).items = rest
        /\ ClearQueueSummaryState(o).droppedCount = 0
    BY <2>1, EmptySeq DEF ClearQueueSummaryState, Object
  <2>4. s = IF t.told # <<>> THEN ClearQueueSummaryState(o) ELSE o
    BY <2>2 DEF AfterTurn
  <2> HIDE DEF s
  <2> QED BY <1>2, <2>1, <2>3, <2>4
<1>5. /\ Continue(q, qs, drains[q].forced) /\ recent' = recent
      /\ hist' = [hist EXCEPT !.handled = IF t.kind = "summary" THEN @ ELSE @ \o t.items,
                              !.told = @ \union Range(t.told)]
  BY DEF TurnSucceeds
<1> HIDE DEF s
<1>6. /\ qs \in [QueueId -> Object] /\ qs[q] = s /\ \A r \in QueueId \ {q} : qs[r] = queues[r]
  BY <1>1, <1>4
<1> HIDE DEF qs
<1>7. \A r \in QueueId : queues[r].droppedCount \in Nat
  BY <1>1, Fields
<1>8. /\ queues' \in [QueueId -> Object] /\ drains' \in [QueueId -> Drain]
      /\ callback' \in BOOLEAN /\ current' \in QueueId \cup {None}
      /\ \A r \in QueueId : queues'[r].items = qs[r].items
                            /\ queues'[r].droppedCount \in {qs[r].droppedCount, 0}
      /\ drains'[q].turn = NoTurn /\ TurnOK(drains'[q])
      /\ \A r \in QueueId \ {q} : drains'[r] = drains[r] \/ (drains'[r].turn = NoTurn /\ TurnOK(drains'[r]))
  <2>1. CASE HasWork(qs[q])
    <3>1. /\ queues' = qs /\ drains' = [drains EXCEPT ![q] = Waiting(drains[q].forced)]
          /\ UNCHANGED <<current, callback>>
      BY <1>5, <2>1 DEF Continue
    <3>2. Waiting(drains[q].forced) \in Drain /\ Waiting(drains[q].forced).turn = NoTurn
          /\ TurnOK(Waiting(drains[q].forced))
      BY <1>2, Fields DEF TurnOK
    <3> QED BY <1>1, <1>6, <3>1, <3>2
  <2>2. CASE ~HasWork(qs[q])
    <3>1. EndDrain(q, qs)
      BY <1>5, <2>2 DEF Continue
    <3>2. Scheduled(qs, [drains EXCEPT ![q] = Off])
      BY <1>2, <1>6, <3>1, EndEffect
    <3>3. Off.turn = NoTurn /\ TurnOK(Off)
      BY Fields DEF TurnOK
    <3> QED BY <1>1, <3>2, <3>3 DEF Scheduled
  <2> QED BY <2>1, <2>2
<1>9. Solo => Solo'
  <2> SUFFICES ASSUME Solo PROVE Solo'
    OBVIOUS
  <2>1. q = current /\ \A r \in QueueId : r # current => drains[r].pc = "off" /\ qs[r].items = <<>>
    BY <1>2, <1>6 DEF Solo, Items
  <2>2. CASE HasWork(qs[q])
    <3>1. queues' = qs /\ drains' = [drains EXCEPT ![q] = Waiting(drains[q].forced)] /\ current' = current
      BY <1>5, <2>2 DEF Continue
    <3> QED BY <1>1, <2>1, <3>1 DEF Solo, Items
  <2>3. CASE ~HasWork(qs[q])
    <3>1. EndDrain(q, qs)
      BY <1>5, <2>3 DEF Continue
    <3> QED BY <1>2, <1>6, <2>1, <3>1, EndEffect
  <2> QED BY <2>2, <2>3
<1> DEFINE told == hist.told \union Range(t.told)
<1>10. told \subseteq Message /\ handled \in Seq(Message)
  <2>1. hist.told \subseteq Message /\ hist.handled \in Seq(Message)
    BY <1>1 DEF History
  <2>2. t.told \in Seq(Message)
    BY <1>2, Fields
  <2>3. Range(t.told) \subseteq Message
    BY <2>2, Members
  <2> QED BY <1>2, <2>1, <2>3, LongerSeq
<1>11. hist' = [hist EXCEPT !.handled = handled, !.told = told]
  BY <1>1, <1>5 DEF History, Taken
<1>12. handled = IF drains[q].turn.kind = "summary" THEN hist.handled ELSE hist.handled \o Taken(q)
  OBVIOUS
<1> HIDE DEF handled, told, rest, t
<1>13. /\ hist' \in History /\ hist'.handled = handled
       /\ hist'.accepted = hist.accepted /\ hist'.carriers = hist.carriers
       /\ hist'.dropped = hist.dropped /\ hist'.cleared = hist.cleared
       /\ hist'.raced = hist.raced /\ hist'.split = hist.split
  BY <1>1, <1>10, <1>11 DEF History
<1>14. Objects'
  BY <1>1, <1>5, <1>8, <1>13 DEF Objects
<1>15. /\ queues'[q].items = rest
       /\ \A r \in QueueId \ {q} : queues'[r].items = Items(r)
       /\ \A r \in QueueId : queues'[r].droppedCount <= queues[r].droppedCount
       /\ \A r \in QueueId : drains'[r].turn = drains[r].turn \/ drains'[r].turn = NoTurn
  BY <1>4, <1>6, <1>7, <1>8 DEF Items
<1>16. Ends(q)
  BY <1>2, <1>5, <1>8, <1>9, <1>12, <1>13, <1>15 DEF Ends, Rewinds, rest
<1> QED BY <1>14, <1>16

\* The queue is cleared.
LEMMA ClearEffect ==
  ASSUME Types, ClearSessionQueues
  PROVE  Objects' /\ Clears
<1> DEFINE cleared(q) == ClearQueueSummaryState([queues[q] EXCEPT !.items = <<>>, !.lastRun = FALSE])
           qs == [q \in QueueId |-> IF q = current THEN cleared(q) ELSE queues[q]]
           gone == UNION {Range(queues[q].items) : q \in {current} \ {None}}
           all == hist.cleared \cup gone
           split == hist.split \/ \E q \in QueueId : q = current /\ drains[q].pc # "off"
<1>1. /\ queues \in [QueueId -> Object] /\ drains \in [QueueId -> Drain] /\ hist \in History
      /\ recent \subseteq Message /\ current \in QueueId \cup {None}
      /\ \A r \in QueueId : TurnOK(drains[r])
  BY DEF Types
<1>2. ASSUME NEW q \in QueueId
      PROVE  cleared(q) \in Object /\ cleared(q).items = <<>> /\ cleared(q).droppedCount = 0
  <2> DEFINE o == [queues[q] EXCEPT !.items = <<>>, !.lastRun = FALSE]
  <2>1. o \in Object /\ o.items = <<>>
    BY <1>1, EmptySeq DEF Object
  <2> HIDE DEF o
  <2>2. ClearQueueSummaryState(o) \in Object /\ ClearQueueSummaryState(o).items = <<>>
        /\ ClearQueueSummaryState(o).droppedCount = 0
    BY <2>1, EmptySeq DEF ClearQueueSummaryState, Object
  <2> QED BY <2>2 DEF o
<1> HIDE DEF cleared
<1>3. /\ callback' = FALSE /\ current' = None /\ queues' = Collected(qs, drains, None)
      /\ hist' = [hist EXCEPT !.cleared = @ \cup gone,
                              !.split = @ \/ \E q \in QueueId : q = current /\ drains[q].pc # "off"]
      /\ UNCHANGED <<recent, drains>>
  BY DEF ClearSessionQueues, cleared
<1>4. /\ qs \in [QueueId -> Object]
      /\ \A r \in QueueId : /\ qs[r].items = IF r = current THEN <<>> ELSE Items(r)
                            /\ qs[r].droppedCount \in {queues[r].droppedCount, 0}
  BY <1>1, <1>2 DEF Items
<1> HIDE DEF qs
<1>5. /\ queues' \in [QueueId -> Object]
      /\ \A r \in QueueId : queues'[r].items = qs[r].items
                            /\ queues'[r].droppedCount \in {qs[r].droppedCount, 0}
  BY <1>3, <1>4, CollectedObjects
<1>6. \A r \in QueueId : queues[r].droppedCount \in Nat
  BY <1>1, Fields
<1>7. \A r \in QueueId : queues'[r].droppedCount <= queues[r].droppedCount
  BY <1>4, <1>5, <1>6
<1>8. /\ all \subseteq Message
      /\ current # None => \A x \in Message : In(x, Items(current)) => x \in all
  <2>1. \A r \in QueueId : /\ Range(queues[r].items) \subseteq Message
                           /\ \A x \in Message : In(x, Items(r)) => x \in Range(queues[r].items)
    BY TypesUse, Members DEF Items
  <2>2. hist.cleared \subseteq Message
    BY TypesUse
  <2> QED BY <1>1, <2>1, <2>2
<1>9. split \in BOOLEAN
  BY <1>1 DEF History
<1>10. hist' = [hist EXCEPT !.cleared = all, !.split = split]
  BY <1>1, <1>3 DEF History
<1>11. hist.cleared \subseteq all
       /\ (\A x \in all \ hist.cleared : current # None /\ In(x, Items(current)))
       /\ (hist.split \/ (current # None /\ drains[current].pc # "off") => split)
  <2>1. ASSUME NEW x \in gone PROVE current # None /\ In(x, Items(current))
    <3>1. current \in QueueId /\ current # None /\ x \in Range(Items(current))
      BY <1>1, <2>1 DEF Items
    <3> QED BY <3>1, TypesUse, Members
  <2> HIDE DEF gone
  <2> QED BY <1>1, <2>1
<1> HIDE DEF all, split
<1>12. /\ hist' \in History /\ hist'.cleared = all /\ hist'.split = split
       /\ hist'.accepted = hist.accepted /\ hist'.carriers = hist.carriers
       /\ hist'.dropped = hist.dropped /\ hist'.handled = hist.handled /\ hist'.raced = hist.raced
  BY <1>1, <1>8, <1>9, <1>10 DEF History
<1>13. Objects'
  BY <1>1, <1>3, <1>5, <1>12 DEF Objects
<1>14. Clears
  BY <1>3, <1>4, <1>5, <1>7, <1>8, <1>11, <1>12 DEF Clears
<1> QED BY <1>13, <1>14

\* Nothing happens to the queue.
LEMMA NothingRests ==
  ASSUME Types, UNCHANGED <<queues, current, callback, recent, drains, hist>>
  PROVE  Objects' /\ Rests
<1>1. \A r \in QueueId : queues[r].droppedCount \in Nat
  BY Fields DEF Types
<1>2. Solo => Solo'
  BY DEF Solo, Items
<1> QED BY <1>1, <1>2 DEF Types, Objects, Rests, Rewinds, Items

\* Every step has one of the effects, and the types stay.
LEMMA NextEffect ==
  ASSUME Types, [Next]_vars
  PROVE  Types' /\ Effect
<1> DEFINE Rest == /\ starved' \in BOOLEAN /\ turn' \in BOOLEAN /\ otherRun' \in BOOLEAN
                   /\ deciding' \subseteq Message
                   /\ failures' \in 0..MaxFailures /\ clears' \in 0..MaxClears
           Goal == Objects' /\ Effect /\ Rest
<1>1. /\ starved \in BOOLEAN /\ turn \in BOOLEAN /\ otherRun \in BOOLEAN
      /\ deciding \subseteq Message
      /\ failures \in 0..MaxFailures /\ clears \in 0..MaxClears
      /\ MaxFailures \in Nat /\ MaxClears \in Nat
  BY FollowupBounds DEF Types
<1>2. ASSUME NEW m \in Message, ReadActive(m) PROVE Goal
  BY <1>1, <1>2, NothingRests DEF ReadActive, queueVars, Effect
<1>3. ASSUME NEW m \in Message, NEW g \in Setting, EnqueueFollowupRun(m, g) PROVE Goal
  <2>1. Rest
    BY <1>1, <1>3 DEF EnqueueFollowupRun
  <2> HIDE DEF Rest
  <2> QED BY <1>3, <2>1, EnqueueRunEffect
<1>4. ASSUME NEW q \in QueueId, BeginTurn(q) PROVE Goal
  <2>1. Rest
    BY <1>1, <1>4 DEF BeginTurn, envVars
  <2> HIDE DEF Rest
  <2> QED BY <1>4, <2>1, BeginEffect DEF Effect
<1>5. ASSUME NEW q \in QueueId, BreakDrain(q) PROVE Goal
  <2>1. Rest
    BY <1>1, <1>5 DEF BreakDrain, envVars
  <2>2. drains[q].pc # "off" /\ EndDrain(q, queues) /\ UNCHANGED <<recent, hist>>
    BY <1>5 DEF BreakDrain
  <2> HIDE DEF Rest
  <2> QED BY <2>1, <2>2, EndRests DEF Effect
<1>6. ASSUME NEW q \in QueueId, TurnSucceeds(q) PROVE Goal
  <2>1. Rest
    BY <1>1, <1>6 DEF TurnSucceeds, envVars
  <2> HIDE DEF Rest
  <2> QED BY <1>6, <2>1, SucceedsEffect DEF Effect
<1>7. ASSUME NEW q \in QueueId, TurnFails(q) PROVE Goal
  <2>1. Rest
    BY <1>1, <1>7 DEF TurnFails
  <2>2. drains[q].pc # "off" /\ EndDrain(q, queues) /\ UNCHANGED <<recent, hist>>
    BY <1>7 DEF TurnFails
  <2> HIDE DEF Rest
  <2> QED BY <2>1, <2>2, EndRests DEF Effect
<1>8. ASSUME ClearSessionQueues PROVE Goal
  <2>1. Rest
    <3>1. clears < MaxClears /\ clears' = clears + 1
          /\ UNCHANGED <<starved, deciding, turn, otherRun, failures>>
      BY <1>8 DEF ClearSessionQueues
    <3> QED BY <1>1, <3>1
  <2> HIDE DEF Rest
  <2> QED BY <1>8, <2>1, ClearEffect DEF Effect
<1>9. ASSUME TurnStarts \/ OtherRun PROVE Goal
  BY <1>1, <1>9, NothingRests DEF TurnStarts, OtherRun, queueVars, Effect
<1>10. ASSUME TurnEnds PROVE Goal
  <2>1. Rest
    BY <1>1, <1>10 DEF TurnEnds
  <2> HIDE DEF Rest
  <2> QED BY <1>10, <2>1, TurnEndsRests DEF Effect
<1>11. ASSUME UNCHANGED vars PROVE Goal
  BY <1>1, <1>11, NothingRests DEF vars, queueVars, envVars, Effect
<1> HIDE DEF Goal
<1>12. Goal
  BY <1>2, <1>3, <1>4, <1>5, <1>6, <1>7, <1>8, <1>9, <1>10, <1>11 DEF Next
<1> QED BY <1>12 DEF Goal, Objects, Types

-----------------------------------------------------------------------------
\* A message has one place.

\* What Once says, queue by queue.
LEMMA OnceUse ==
  ASSUME Types, Once, NEW q \in QueueId
  PROVE  /\ NoRepeats(Items(q)) /\ NoRepeats(Taken(q)) /\ AtFront(q)
         /\ Apart(Items(q), hist.handled) /\ Apart(Taken(q), hist.handled)
         /\ \A x : In(x, Items(q)) => x \in recent \ (hist.dropped \cup hist.cleared)
         /\ \A x : In(x, Taken(q)) => x \in recent
         /\ \A r \in QueueId \ {q} :
              Apart(Items(q), Items(r)) /\ Apart(Items(q), Taken(r)) /\ Apart(Taken(q), Taken(r))
<1>1. \A x : In(x, Items(q)) \/ In(x, Taken(q)) => x \in Message
  BY TypesUse, Members
<1> QED BY <1>1 DEF Once

\* Messages leave, are taken by a turn or are run: it stays so.
LEMMA OnceStays ==
  ASSUME Types, Once, recent' = recent,
         hist'.accepted = hist.accepted, hist'.dropped = hist.dropped,
         hist'.cleared \subseteq recent,
         \A r \in QueueId : \A x \in hist'.cleared \ hist.cleared : ~In(x, queues'[r].items),
         NoRepeats(hist'.handled), \A x \in Message : In(x, hist'.handled) => x \in recent,
         \A r \in QueueId :
           /\ NoRepeats(queues'[r].items) /\ NoRepeats(drains'[r].turn.items) /\ AtFront(r)'
           /\ Apart(queues'[r].items, hist'.handled) /\ Apart(drains'[r].turn.items, hist'.handled)
           /\ \A x \in Message : In(x, queues'[r].items) => In(x, Items(r))
           /\ \A x \in Message :
                In(x, drains'[r].turn.items) => In(x, Taken(r)) \/ In(x, Items(r))
  PROVE  Once'
<1>1. \A r \in QueueId :
        /\ \A x \in Message :
             In(x, queues'[r].items) => x \in recent \ (hist.dropped \cup hist'.cleared)
        /\ \A x \in Message : In(x, drains'[r].turn.items) => x \in recent
  BY OnceUse
<1>2. ASSUME NEW q \in QueueId, NEW r \in QueueId, q # r
      PROVE  /\ Apart(queues'[q].items, queues'[r].items)
             /\ Apart(queues'[q].items, drains'[r].turn.items)
             /\ Apart(drains'[q].turn.items, drains'[r].turn.items)
  <2>1. \A x \in Message : /\ ~(In(x, Items(q)) /\ In(x, Items(r)))
                           /\ ~(In(x, Items(q)) /\ In(x, Taken(r)))
                           /\ ~(In(x, Taken(q)) /\ In(x, Items(r)))
                           /\ ~(In(x, Taken(q)) /\ In(x, Taken(r)))
    BY <1>2 DEF Once, Apart
  <2> QED BY <2>1 DEF Apart
<1>3. /\ NoRepeats(hist'.accepted)
      /\ \A x \in Message : In(x, hist'.accepted) <=> x \in recent'
      /\ hist'.dropped \subseteq recent' /\ hist'.cleared \subseteq recent'
  BY DEF Once
<1> QED BY <1>1, <1>2, <1>3 DEF Once, Items, Taken

LEMMA OnceAccepts ==
  ASSUME Types, Once, NEW q \in QueueId, NEW m \in Message, NEW n \in Nat, Accepts(q, m, n)
  PROVE  Once'
<1> DEFINE a == SubSeq(Items(q), 1, n)
           b == SubSeq(Items(q), n + 1, Len(Items(q)))
           c == Append(b, m)
<1>1. /\ Items(q) \in Seq(Message) /\ Taken(q) \in Seq(Message) /\ hist.accepted \in Seq(Message)
      /\ hist.handled \in Seq(Message) /\ n \in 0..Len(Items(q))
      /\ Len(Items(q)) \in Nat /\ Len(Taken(q)) \in Nat
  BY TypesUse, LenProperties DEF Accepts
<1>2. /\ queues'[q].items = c /\ drains'[q].turn.items = Taken(q)
      /\ \A r \in QueueId \ {q} : queues'[r].items = Items(r) /\ drains'[r].turn.items = Taken(r)
      /\ m \notin recent /\ recent' = recent \cup {m}
      /\ hist'.accepted = Append(hist.accepted, m) /\ hist'.handled = hist.handled
      /\ hist'.dropped = hist.dropped \cup Range(a) /\ hist'.cleared = hist.cleared
  BY DEF Accepts, Items, Taken
<1>3. /\ b \in Seq(Message) /\ a \in Seq(Message) /\ Len(b) \in Nat
      /\ \A i \in 1..Len(b) : n + i \in 1..Len(Items(q)) /\ b[i] = Items(q)[n + i]
  BY <1>1, CutSeq, FrontSeq
<1>4. /\ \A x : In(x, Items(q)) <=> In(x, a) \/ In(x, b)
      /\ NoRepeats(b) /\ Apart(a, b)
  BY <1>1, OnceUse, CutMembers
<1>5. \A x : x \in Range(a) <=> In(x, a)
  BY <1>3, Members
<1> HIDE DEF a, b
<1>6. /\ Len(c) = Len(b) + 1 /\ \A i \in 1..Len(b) : c[i] = b[i]
      /\ c[Len(b) + 1] = m
      /\ \A y : In(y, c) <=> In(y, b) \/ y = m
      /\ NoRepeats(b) /\ ~In(m, b) => NoRepeats(c)
  BY <1>3, LongerSeq
<1> HIDE DEF c
<1>7. /\ \A r \in QueueId : ~In(m, Items(r)) /\ ~In(m, Taken(r))
      /\ ~In(m, hist.handled) /\ ~In(m, hist.accepted) /\ m \notin hist.dropped
      /\ NoRepeats(hist.accepted) /\ NoRepeats(hist.handled)
      /\ \A x \in Message : In(x, hist.accepted) <=> x \in recent
      /\ \A x \in Message : In(x, hist.handled) => x \in recent
      /\ hist.dropped \subseteq recent /\ hist.cleared \subseteq recent
  BY <1>2, OnceUse DEF Once
<1>8. /\ NoRepeats(hist'.accepted)
      /\ \A x \in Message : In(x, hist'.accepted) <=> x \in recent'
      /\ NoRepeats(hist'.handled)
      /\ \A x \in Message : In(x, hist'.handled) => x \in recent'
  <2>1. /\ NoRepeats(Append(hist.accepted, m))
        /\ \A y : In(y, Append(hist.accepted, m)) <=> In(y, hist.accepted) \/ y = m
    BY <1>1, <1>7, LongerSeq
  <2> QED BY <1>2, <1>7, <2>1
<1>9. hist'.dropped \subseteq recent' /\ hist'.cleared \subseteq recent'
  BY <1>2, <1>4, <1>5, <1>7, OnceUse
<1>10. NoRepeats(c) /\ \A x : In(x, c) => In(x, Items(q)) \/ x = m
  BY <1>4, <1>6, <1>7
<1>11. \A i \in 1..Len(c) : In(c[i], Taken(q)) => i <= Len(Taken(q))
  <2> SUFFICES ASSUME NEW i \in 1..Len(c), In(c[i], Taken(q)) PROVE i <= Len(Taken(q))
    OBVIOUS
  <2>1. i \in 1..Len(b)
    BY <1>3, <1>6, <1>7
  <2>2. c[i] = Items(q)[n + i] /\ n + i \in 1..Len(Items(q))
    BY <1>3, <1>6, <2>1
  <2>3. n + i <= Len(Taken(q))
    BY <2>2, OnceUse DEF AtFront
  <2> QED BY <1>1, <2>1, <2>3
<1>12. \A x : In(x, c) => x \in recent' \ (hist'.dropped \cup hist'.cleared)
  <2>1. \A x : In(x, a) \/ In(x, b) =>
          x \in recent /\ x \notin hist.dropped \cup hist.cleared /\ x # m
    BY <1>4, <1>7, OnceUse
  <2>2. \A x : In(x, b) => ~In(x, a)
    BY <1>3, <1>4, Members DEF Apart
  <2> QED BY <1>2, <1>5, <1>6, <1>7, <2>1, <2>2
<1>13. \A r \in QueueId \ {q} : \A x :
         In(x, Items(r)) => x \in recent' \ (hist'.dropped \cup hist'.cleared)
  <2>1. \A r \in QueueId \ {q} : \A x : In(x, Items(r)) => ~In(x, a)
    BY <1>3, <1>4, OnceUse, Members DEF Apart
  <2> QED BY <1>2, <1>5, <2>1, OnceUse
<1>14. \A r \in QueueId :
         /\ NoRepeats(queues'[r].items) /\ NoRepeats(drains'[r].turn.items)
         /\ Apart(queues'[r].items, hist'.handled) /\ Apart(drains'[r].turn.items, hist'.handled)
         /\ \A x \in Message :
              In(x, queues'[r].items) => x \in recent' \ (hist'.dropped \cup hist'.cleared)
         /\ \A x \in Message : In(x, drains'[r].turn.items) => x \in recent'
  <2>1. Apart(c, hist.handled)
    BY <1>7, <1>10, OnceUse DEF Apart
  <2> QED BY <1>2, <1>10, <1>12, <1>13, <2>1, OnceUse
<1>15. \A r \in QueueId :
         \A i \in 1..Len(queues'[r].items) :
           In(queues'[r].items[i], drains'[r].turn.items) => i <= Len(drains'[r].turn.items)
  BY <1>2, <1>11, OnceUse DEF AtFront
<1>16. ASSUME NEW r \in QueueId, NEW u \in QueueId, r # u
       PROVE  /\ Apart(queues'[r].items, queues'[u].items)
              /\ Apart(queues'[r].items, drains'[u].turn.items)
              /\ Apart(drains'[r].turn.items, drains'[u].turn.items)
  <2>1. /\ \A x \in Message : /\ ~(In(x, Items(r)) /\ In(x, Items(u)))
                              /\ ~(In(x, Items(r)) /\ In(x, Taken(u)))
        /\ Apart(Taken(r), Taken(u))
    BY <1>16 DEF Once, Apart
  <2>2. \A v \in QueueId : \A x : In(x, queues'[v].items) => In(x, Items(v)) \/ (v = q /\ x = m)
    BY <1>2, <1>10
  <2>3. \A v \in QueueId : drains'[v].turn.items = Taken(v)
    BY <1>2
  <2> QED BY <1>7, <1>16, <2>1, <2>2, <2>3 DEF Apart
<1> QED BY <1>8, <1>9, <1>14, <1>15, <1>16 DEF Once, Items, Taken, AtFront

LEMMA OnceBegins ==
  ASSUME Types, Once, NEW q \in QueueId, Begins(q)
  PROVE  Once'
<1>1. PICK n \in 0..Len(Items(q)) : drains'[q].turn.items = SubSeq(Items(q), 1, n)
  BY DEF Begins
<1> DEFINE a == SubSeq(Items(q), 1, n)
<1>2. /\ Items(q) \in Seq(Message) /\ hist.handled \in Seq(Message) /\ Len(Items(q)) \in Nat
  BY TypesUse, LenProperties
<1>3. Len(a) = n /\ \A i \in 1..n : i \in 1..Len(Items(q)) /\ a[i] = Items(q)[i]
  BY <1>2, FrontSeq
<1>4. \A x : In(x, a) => In(x, Items(q))
  BY <1>2, CutMembers
<1> HIDE DEF a
<1>5. NoRepeats(a)
  BY <1>3, OnceUse DEF NoRepeats
<1>6. \A i \in 1..Len(Items(q)) : In(Items(q)[i], a) => i <= Len(a)
  <2> SUFFICES ASSUME NEW i \in 1..Len(Items(q)), In(Items(q)[i], a) PROVE i <= Len(a)
    OBVIOUS
  <2>1. PICK j \in 1..Len(a) : a[j] = Items(q)[i]
    BY DEF In
  <2>2. i = j
    BY <1>3, <2>1, OnceUse DEF NoRepeats
  <2> QED BY <1>2, <1>3, <2>1, <2>2
<1>7. /\ \A r \in QueueId : queues'[r].items = Items(r)
      /\ \A r \in QueueId \ {q} : drains'[r].turn.items = Taken(r)
      /\ recent' = recent /\ hist'.accepted = hist.accepted /\ hist'.dropped = hist.dropped
      /\ hist'.handled = hist.handled /\ drains'[q].turn.items = a /\ hist'.cleared = hist.cleared
  BY <1>1 DEF Begins, Items, Taken, a
<1>8. /\ NoRepeats(hist'.handled) /\ \A x \in Message : In(x, hist'.handled) => x \in recent
      /\ hist'.cleared \subseteq recent /\ hist'.cleared \ hist.cleared = {}
  BY <1>7 DEF Once
<1>9. \A r \in QueueId : AtFront(r)'
  BY <1>6, <1>7, OnceUse DEF AtFront, Items, Taken
<1>10. \A r \in QueueId :
         /\ NoRepeats(queues'[r].items) /\ NoRepeats(drains'[r].turn.items)
         /\ Apart(queues'[r].items, hist'.handled) /\ Apart(drains'[r].turn.items, hist'.handled)
         /\ \A x \in Message : In(x, queues'[r].items) => In(x, Items(r))
         /\ \A x \in Message :
              In(x, drains'[r].turn.items) => In(x, Taken(r)) \/ In(x, Items(r))
  <2>1. Apart(a, hist.handled)
    BY <1>4, OnceUse DEF Apart
  <2> QED BY <1>4, <1>5, <1>7, <2>1, OnceUse
<1> QED BY <1>7, <1>8, <1>9, <1>10, OnceStays

\* The messages that are left when a turn has ended were not part of it.
LEMMA Left ==
  ASSUME Types, Once, NEW q \in QueueId
  PROVE  LET c == SubSeq(Items(q), Len(Taken(q)) + 1, Len(Items(q))) IN
         /\ NoRepeats(c)
         /\ \A x : In(x, c) => In(x, Items(q)) /\ ~In(x, Taken(q))
<1> DEFINE k == Len(Taken(q))
           c == SubSeq(Items(q), k + 1, Len(Items(q)))
<1>1. Items(q) \in Seq(Message) /\ k \in Nat /\ Len(Items(q)) \in Nat
  BY TypesUse, LenProperties
<1> HIDE DEF k
<1>2. Len(c) \in Nat /\ \A i \in 1..Len(c) : k + i \in 1..Len(Items(q)) /\ c[i] = Items(q)[k + i]
  BY <1>1, CutSeq
<1> HIDE DEF c
<1>3. NoRepeats(c)
  <2> SUFFICES ASSUME NEW i \in 1..Len(c), NEW j \in 1..Len(c), c[i] = c[j] PROVE i = j
    BY DEF NoRepeats
  <2>1. NoRepeats(Items(q))
    BY OnceUse
  <2>2. /\ k + i \in 1..Len(Items(q)) /\ k + j \in 1..Len(Items(q))
        /\ Items(q)[k + i] = Items(q)[k + j]
    BY <1>2
  <2>3. k + i = k + j
    BY <2>1, <2>2 DEF NoRepeats
  <2> QED BY <1>1, <1>2, <2>3
<1>4. ASSUME NEW x, In(x, c) PROVE In(x, Items(q)) /\ ~In(x, Taken(q))
  <2>1. PICK i \in 1..Len(c) : c[i] = x
    BY <1>4 DEF In
  <2>2. k + i \in 1..Len(Items(q)) /\ x = Items(q)[k + i]
    BY <1>2, <2>1
  <2>3. ~(k + i <= k)
    BY <1>1, <1>2, <2>1
  <2>4. In(x, Taken(q)) => k + i <= k
    BY <2>2, OnceUse DEF AtFront, k
  <2> QED BY <2>2, <2>3, <2>4 DEF In
<1> QED BY <1>3, <1>4 DEF c, k

LEMMA OnceEnds ==
  ASSUME Types, Once, NEW q \in QueueId, Ends(q)
  PROVE  Once'
<1>1. /\ hist.handled \in Seq(Message) /\ Taken(q) \in Seq(Message)
      /\ NoTurn.items = <<>> /\ NoRepeats(<<>>) /\ \A x : ~In(x, <<>>)
  <2>1. Len(<<>>) = 0
    BY EmptySeq
  <2> QED BY <2>1, TypesUse, Fields DEF NoRepeats, In
<1>2. /\ NoRepeats(queues'[q].items) /\ drains'[q].turn.items = <<>>
      /\ \A x : In(x, queues'[q].items) => In(x, Items(q)) /\ ~In(x, Taken(q))
  BY <1>1, Left DEF Ends
<1>3. \A r \in QueueId \ {q} :
        /\ queues'[r].items = Items(r)
        /\ drains'[r].turn.items = Taken(r) \/ drains'[r].turn.items = <<>>
  BY <1>1 DEF Ends, Rewinds, Taken
<1>4. /\ recent' = recent /\ hist'.accepted = hist.accepted /\ hist'.dropped = hist.dropped
      /\ hist'.handled = hist.handled \/ hist'.handled = hist.handled \o Taken(q)
      /\ hist'.cleared \subseteq recent /\ hist'.cleared \ hist.cleared = {}
  BY DEF Ends, Taken, Once
<1>5. NoRepeats(hist.handled) /\ \A x \in Message : In(x, hist.handled) => x \in recent
  BY DEF Once
<1>6. /\ \A y : In(y, hist'.handled) => In(y, hist.handled) \/ In(y, Taken(q))
      /\ NoRepeats(hist'.handled)
  <2>1. /\ \A y : In(y, hist.handled \o Taken(q)) <=> In(y, hist.handled) \/ In(y, Taken(q))
        /\ NoRepeats(hist.handled) /\ NoRepeats(Taken(q)) /\ Apart(hist.handled, Taken(q))
             => NoRepeats(hist.handled \o Taken(q))
    BY <1>1, LongerSeq
  <2>2. NoRepeats(Taken(q)) /\ Apart(hist.handled, Taken(q))
    BY OnceUse DEF Apart
  <2> QED BY <1>4, <1>5, <2>1, <2>2
<1>7. \A x \in Message : In(x, hist'.handled) => x \in recent
  BY <1>5, <1>6, OnceUse
<1>8. \A r \in QueueId : AtFront(r)'
  <2>1. AtFront(q)'
    BY <1>1, <1>2 DEF AtFront, Items, Taken
  <2>2. \A r \in QueueId \ {q} : AtFront(r)'
    BY <1>1, <1>3, OnceUse DEF AtFront, Items, Taken
  <2> QED BY <2>1, <2>2
<1>9. \A r \in QueueId : /\ NoRepeats(queues'[r].items) /\ NoRepeats(drains'[r].turn.items)
                         /\ \A x \in Message : In(x, queues'[r].items) => In(x, Items(r))
                         /\ \A x \in Message :
                              In(x, drains'[r].turn.items) => In(x, Taken(r)) \/ In(x, Items(r))
  BY <1>1, <1>2, <1>3, OnceUse
<1>10. ASSUME NEW r \in QueueId
       PROVE  Apart(queues'[r].items, hist'.handled) /\ Apart(drains'[r].turn.items, hist'.handled)
  <2>1. CASE r = q
    <3>1. Apart(queues'[q].items, hist'.handled)
      BY <1>2, <1>6, OnceUse DEF Apart
    <3>2. Apart(drains'[q].turn.items, hist'.handled)
      BY <1>1, <1>2 DEF Apart
    <3> QED BY <2>1, <3>1, <3>2
  <2>2. CASE r # q
    <3>1. /\ Apart(Items(r), hist.handled) /\ Apart(Taken(r), hist.handled)
          /\ Apart(Items(r), Taken(q)) /\ Apart(Taken(r), Taken(q))
      BY <2>2, OnceUse
    <3>2. Apart(Items(r), hist'.handled) /\ Apart(Taken(r), hist'.handled) /\ Apart(<<>>, hist'.handled)
      BY <1>1, <1>6, <3>1 DEF Apart
    <3> QED BY <1>3, <2>2, <3>2
  <2> QED BY <2>1, <2>2
<1> QED BY <1>4, <1>6, <1>7, <1>8, <1>9, <1>10, OnceStays

\* Queues stay as they are or are emptied, and so are turns.
LEMMA OnceRests ==
  ASSUME Types, Once, recent' = recent, hist'.accepted = hist.accepted,
         hist'.handled = hist.handled, hist'.dropped = hist.dropped,
         hist'.cleared \subseteq recent,
         \A r \in QueueId : \A x \in hist'.cleared \ hist.cleared : ~In(x, queues'[r].items),
         \A r \in QueueId :
           /\ queues'[r].items = Items(r) \/ queues'[r].items = <<>>
           /\ drains'[r].turn.items = Taken(r) \/ drains'[r].turn.items = <<>>
  PROVE  Once'
<1>1. NoRepeats(<<>>) /\ (\A x : ~In(x, <<>>)) /\ Len(<<>>) = 0 /\ \A s : Apart(<<>>, s)
  <2>1. Len(<<>>) = 0
    BY EmptySeq
  <2> QED BY <2>1 DEF NoRepeats, In, Apart
<1>2. NoRepeats(hist'.handled) /\ \A x \in Message : In(x, hist'.handled) => x \in recent
  BY DEF Once
<1>3. ASSUME NEW r \in QueueId PROVE AtFront(r)'
  <2>1. CASE queues'[r].items = <<>>
    BY <1>1, <2>1 DEF AtFront, Items
  <2>2. CASE queues'[r].items = Items(r) /\ drains'[r].turn.items = Taken(r)
    BY <2>2, OnceUse DEF AtFront, Items, Taken
  <2>3. CASE drains'[r].turn.items = <<>>
    BY <1>1, <2>3 DEF AtFront, Taken
  <2> QED BY <2>1, <2>2, <2>3
<1>4. \A r \in QueueId :
        /\ NoRepeats(queues'[r].items) /\ NoRepeats(drains'[r].turn.items)
        /\ Apart(queues'[r].items, hist'.handled) /\ Apart(drains'[r].turn.items, hist'.handled)
        /\ \A x \in Message : In(x, queues'[r].items) => In(x, Items(r))
        /\ \A x \in Message :
             In(x, drains'[r].turn.items) => In(x, Taken(r)) \/ In(x, Items(r))
  BY <1>1, OnceUse
<1> QED BY <1>2, <1>3, <1>4, OnceStays

LEMMA OncePart ==
  ASSUME Types, Once, Effect
  PROVE  Once'
<1>1. NoTurn.items = <<>>
  BY Fields
<1>2. ASSUME Rests PROVE Once'
  <2>1. hist'.cleared \subseteq recent /\ hist'.cleared \ hist.cleared = {}
    BY <1>2 DEF Rests, Once
  <2> QED BY <1>1, <1>2, <2>1, OnceRests DEF Rests, Rewinds, Taken
<1>3. ASSUME Clears PROVE Once'
  <2>1. current \in QueueId \cup {None} /\ hist.cleared \subseteq recent
    BY DEF Types, Once
  <2>2. hist'.cleared \subseteq recent
    BY <1>3, <2>1, OnceUse DEF Clears
  <2>3. ASSUME NEW r \in QueueId, NEW x \in hist'.cleared \ hist.cleared
        PROVE  ~In(x, queues'[r].items)
    <3>1. current \in QueueId /\ In(x, Items(current))
      BY <1>3, <2>1 DEF Clears
    <3>2. CASE r = current
      <4>1. queues'[r].items = <<>> /\ Len(<<>>) = 0
        BY <1>3, <3>2, EmptySeq DEF Clears
      <4> QED BY <4>1 DEF In
    <3>3. CASE r # current
      <4>1. queues'[r].items = Items(r) /\ Apart(Items(current), Items(r)) /\ x \in Message
        BY <1>3, <3>1, <3>3, OnceUse, TypesUse, Members DEF Clears
      <4> QED BY <3>1, <4>1 DEF Apart
    <3> QED BY <3>2, <3>3
  <2> QED BY <1>3, <2>2, <2>3, OnceRests DEF Clears, Taken
<1> QED BY <1>2, <1>3, OnceAccepts, OnceBegins, OnceEnds DEF Effect

-----------------------------------------------------------------------------
\* Counts and drains.

\* As many messages are dropped as leave the front of a queue.
LEMMA DroppedMessages ==
  ASSUME NEW s \in Seq(Message), NoRepeats(s), NEW n \in 0..Len(s), NEW D \in SUBSET Message,
         \A x : In(x, s) => x \notin D
  PROVE  Cardinality(D \cup Range(SubSeq(s, 1, n))) = Cardinality(D) + n
<1> DEFINE a == SubSeq(s, 1, n)
           R == Range(a)
<1>1. /\ a \in Seq(Message) /\ Len(a) = n
      /\ \A i \in 1..n : i \in 1..Len(s) /\ a[i] = s[i]
  BY FrontSeq
<1>2. n \in Nat /\ \A x : In(x, a) => In(x, s)
  BY LenProperties, CutMembers
<1> HIDE DEF a
<1>3. DOMAIN a = 1..n /\ a \in [1..n -> Message]
  BY <1>1, LenProperties
<1>4. R \subseteq Message /\ R \cap D = {}
  BY <1>1, <1>2, Members
<1>5. a \in Bijection(1..n, R)
  <2>1. a \in [1..n -> R] /\ \A x \in R : \E i \in 1..n : a[i] = x
    BY <1>3 DEF Range
  <2>2. \A i, j \in 1..n : a[i] = a[j] => i = j
    BY <1>1 DEF NoRepeats
  <2> HIDE DEF R
  <2> QED BY <2>1, <2>2 DEF Bijection, Injection, Surjection, IsInjective
<1> HIDE DEF R
<1>6. Cardinality(1..n) = n /\ IsFiniteSet(1..n)
  <2>1. 1 \in Int /\ n \in Int /\ (1 <= n => n - 1 + 1 = n) /\ (1 > n => n = 0)
    BY <1>2
  <2> QED BY <2>1, FS_Interval
<1>7. Cardinality(R) = n
  BY <1>5, <1>6, FS_Bijection DEF ExistsBijection
<1>8. IsFiniteSet(R) /\ IsFiniteSet(D) /\ IsFiniteSet(Message)
  BY <1>4, FiniteMessages, FS_Subset
<1>9. Cardinality(D \cup R) = Cardinality(D) + Cardinality(R) - Cardinality(D \cap R)
  BY <1>8, FS_Union
<1>10. Cardinality(D \cap R) = 0
  <2>1. D \cap R = {}
    BY <1>4
  <2> QED BY <2>1, FS_EmptySet
<1>11. Cardinality(D) \in Nat
  BY <1>8, FS_CardinalityType
<1> QED BY <1>2, <1>7, <1>9, <1>10, <1>11 DEF R, a

LEMMA TallyPart ==
  ASSUME Types, Types', Once, Tally, Effect
  PROVE  Tally'
<1> DEFINE D == Cardinality(hist.dropped)
<1>1. /\ D \in Nat
      /\ \A r \in QueueId : /\ queues[r].droppedCount \in Nat /\ queues'[r].droppedCount \in Nat
                            /\ queues[r].droppedCount <= D
  <2>1. /\ \A r \in QueueId : queues[r] \in Object /\ queues'[r] \in Object
        /\ hist.dropped \in SUBSET Message
    BY TypesUse DEF Types
  <2>2. IsFiniteSet(hist.dropped)
    BY <2>1, FiniteMessages, FS_Subset
  <2> QED BY <2>1, <2>2, Fields, FS_CardinalityType DEF Tally
<1>2. ASSUME hist'.dropped = hist.dropped,
             \A r \in QueueId : queues'[r].droppedCount <= queues[r].droppedCount
      PROVE  Tally'
  <2>1. \A r \in QueueId : queues'[r].droppedCount <= D
    <3> HIDE DEF D
    <3> QED BY <1>1, <1>2
  <2> QED BY <1>2, <2>1 DEF Tally
<1>3. ASSUME NEW q \in QueueId, NEW m \in Message, NEW n \in Nat, Accepts(q, m, n) PROVE Tally'
  <2>1. /\ hist'.dropped = hist.dropped \cup Range(SubSeq(Items(q), 1, n)) /\ n \in 0..Len(Items(q))
        /\ queues'[q].droppedCount <= queues[q].droppedCount + n
        /\ \A r \in QueueId \ {q} : queues'[r] = queues[r]
    BY <1>3 DEF Accepts
  <2>2. Cardinality(hist'.dropped) = D + n
    BY <2>1, TypesUse, OnceUse, DroppedMessages
  <2>3. \A r \in QueueId : queues'[r].droppedCount <= D + n
    <3> HIDE DEF D
    <3> QED BY <1>1, <2>1
  <2> QED BY <2>2, <2>3 DEF Tally
<1>4. ASSUME NEW q \in QueueId, Begins(q) PROVE Tally'
  <2>1. \A r \in QueueId : queues'[r].droppedCount <= queues[r].droppedCount
    BY <1>1, <1>4 DEF Begins
  <2> QED BY <1>2, <1>4, <2>1 DEF Begins
<1>5. ASSUME NEW q \in QueueId, Ends(q) PROVE Tally'
  BY <1>2, <1>5 DEF Ends, Rewinds
<1>6. ASSUME Rests PROVE Tally'
  BY <1>2, <1>6 DEF Rests, Rewinds
<1>7. ASSUME Clears PROVE Tally'
  BY <1>2, <1>7 DEF Clears
<1> QED BY <1>3, <1>4, <1>5, <1>6, <1>7 DEF Effect

\* A history in which a queue was cleared under its drain stays one.
LEMMA SplitStays ==
  ASSUME Effect, ~hist'.split
  PROVE  ~hist.split
BY DEF Effect, Accepts, Begins, Ends, Rests, Clears

LEMMA SoloPart ==
  ASSUME Types, Solo, Effect, ~hist'.split
  PROVE  Solo'
<1>1. current \in QueueId \cup {None} /\ None \notin QueueId
  BY QueueIds DEF Types
<1>2. \A r \in QueueId : r # current => drains[r].pc = "off" /\ Items(r) = <<>>
  BY DEF Solo
<1>3. ASSUME NEW q \in QueueId, NEW m \in Message, NEW n \in Nat, Accepts(q, m, n) PROVE Solo'
  BY <1>1, <1>2, <1>3 DEF Accepts, Solo, Items
<1>4. ASSUME NEW q \in QueueId, Begins(q) PROVE Solo'
  BY <1>2, <1>4 DEF Begins, Solo, Items
<1>5. ASSUME Rewinds PROVE Solo'
  BY <1>5 DEF Rewinds
<1>6. ASSUME Clears PROVE Solo'
  <2>1. current \in QueueId => drains[current].pc = "off"
    BY <1>1, <1>6 DEF Clears
  <2>2. \A r \in QueueId : drains'[r].pc = "off" /\ queues'[r].items = <<>>
    BY <1>2, <1>6, <2>1 DEF Clears
  <2> QED BY <2>2 DEF Solo, Items
<1> QED BY <1>3, <1>4, <1>5, <1>6 DEF Effect, Ends, Rests

-----------------------------------------------------------------------------
\* The order of messages.

\* What Ordered says, queue by queue.
LEMMA OrderedUse ==
  ASSUME Types, Ordered, NEW q \in QueueId
  PROVE  LET s == hist.accepted IN
         /\ InOrder(Items(q), s) /\ InOrder(Taken(q), s)
         /\ \A x, y : In(x, hist.handled) /\ (In(y, Items(q)) \/ In(y, Taken(q))) => Earlier(x, y, s)
         /\ \A x, y : In(x, Taken(q)) /\ In(y, Items(q)) => In(y, Taken(q)) \/ Earlier(x, y, s)
<1>1. /\ \A x : In(x, Items(q)) \/ In(x, Taken(q)) => x \in Message
      /\ \A x : In(x, hist.handled) => x \in Message
  BY TypesUse, Members
<1> QED BY <1>1 DEF Ordered

\* The end of a sequence is in the order that the sequence is in.
LEMMA CutOrder ==
  ASSUME NEW t \in Seq(Message), NEW n \in Nat, NEW s, InOrder(t, s)
  PROVE  InOrder(SubSeq(t, n + 1, Len(t)), s)
<1> DEFINE c == SubSeq(t, n + 1, Len(t))
<1>1. Len(c) \in Nat /\ \A i \in 1..Len(c) : n + i \in 1..Len(t) /\ c[i] = t[n + i]
  BY CutSeq
<1> HIDE DEF c
<1>2. ASSUME NEW i \in 1..Len(c), NEW j \in 1..Len(c), i < j PROVE Earlier(c[i], c[j], s)
  <2>1. n + i < n + j
    BY <1>1, <1>2
  <2> QED BY <1>1, <2>1 DEF InOrder
<1> QED BY <1>2 DEF InOrder, c

\* An order grows with the messages that are accepted, and a new one is the last.
LEMMA LongerOrder ==
  ASSUME NEW s \in Seq(Message), NEW m \in Message
  PROVE  LET l == Append(s, m) IN
         /\ \A x, y : Earlier(x, y, s) => Earlier(x, y, l)
         /\ \A x : In(x, s) => Earlier(x, m, l)
         /\ \A t : InOrder(t, s) => InOrder(t, l)
<1> DEFINE l == Append(s, m)
<1>1. /\ Len(s) \in Nat /\ Len(l) = Len(s) + 1
      /\ \A i \in 1..Len(s) : l[i] = s[i]
      /\ l[Len(s) + 1] = m
  BY LenProperties, LongerSeq
<1> HIDE DEF l
<1>2. /\ \A i \in 1..Len(s) : i \in 1..Len(l) /\ i < Len(s) + 1
      /\ Len(s) + 1 \in 1..Len(l)
  BY <1>1
<1>3. \A x, y : Earlier(x, y, s) => Earlier(x, y, l)
  BY <1>1, <1>2 DEF Earlier
<1>4. \A x : In(x, s) => Earlier(x, m, l)
  BY <1>1, <1>2 DEF Earlier, In
<1>5. \A t : InOrder(t, s) => InOrder(t, l)
  BY <1>3 DEF InOrder
<1> QED BY <1>3, <1>4, <1>5 DEF l

LEMMA OrderedAccepts ==
  ASSUME Types, Once, Ordered, NEW q \in QueueId, NEW m \in Message, NEW n \in Nat,
         Accepts(q, m, n)
  PROVE  Ordered'
<1> DEFINE s == hist.accepted
           l == Append(s, m)
           b == SubSeq(Items(q), n + 1, Len(Items(q)))
           c == Append(b, m)
<1>1. /\ Items(q) \in Seq(Message) /\ s \in Seq(Message) /\ n \in 0..Len(Items(q))
      /\ \A r \in QueueId : \A x : In(x, Items(r)) \/ In(x, Taken(r)) => x \in Message
      /\ \A x : In(x, hist.handled) => x \in Message
  BY TypesUse, Members DEF Accepts
<1>2. /\ queues'[q].items = c /\ drains'[q].turn.items = Taken(q)
      /\ \A r \in QueueId \ {q} : queues'[r].items = Items(r) /\ drains'[r].turn.items = Taken(r)
      /\ hist'.accepted = l /\ hist'.handled = hist.handled
  BY DEF Accepts, Items, Taken
<1>3. /\ \A x, y : Earlier(x, y, s) => Earlier(x, y, l)
      /\ \A x : In(x, s) => Earlier(x, m, l)
      /\ \A t : InOrder(t, s) => InOrder(t, l)
  BY <1>1, LongerOrder
<1>4. /\ b \in Seq(Message) /\ Len(b) \in Nat /\ InOrder(b, s)
      /\ \A x : In(x, b) => In(x, Items(q))
  BY <1>1, CutSeq, CutMembers, CutOrder, OrderedUse
<1> HIDE DEF b
<1>5. /\ Len(c) = Len(b) + 1 /\ \A i \in 1..Len(b) : c[i] = b[i]
      /\ c[Len(b) + 1] = m
      /\ \A y : In(y, c) <=> In(y, b) \/ y = m
  BY <1>4, LongerSeq
<1> HIDE DEF c, l
<1>6. /\ \A x : In(x, hist.handled) => In(x, s)
      /\ \A r \in QueueId : \A x : In(x, Items(r)) \/ In(x, Taken(r)) => In(x, s)
  <2>1. \A x \in Message : In(x, s) <=> x \in recent
    BY DEF Once
  <2>2. \A x \in Message : In(x, hist.handled) => x \in recent
    BY DEF Once
  <2> HIDE DEF s
  <2> QED BY <1>1, <2>1, <2>2, OnceUse
<1>7. InOrder(c, l)
  <2> SUFFICES ASSUME NEW i \in 1..Len(c), NEW j \in 1..Len(c), i < j PROVE Earlier(c[i], c[j], l)
    BY DEF InOrder
  <2>1. i \in 1..Len(b) /\ (j \in 1..Len(b) \/ j = Len(b) + 1)
    BY <1>4, <1>5
  <2>2. CASE j \in 1..Len(b)
    <3>1. Earlier(b[i], b[j], s)
      BY <1>4, <2>1, <2>2 DEF InOrder
    <3> QED BY <1>3, <1>5, <2>1, <2>2, <3>1
  <2>3. CASE j = Len(b) + 1
    <3>1. In(b[i], s)
      BY <1>4, <1>6, <2>1 DEF In
    <3> QED BY <1>3, <1>5, <2>1, <2>3, <3>1
  <2> QED BY <2>1, <2>2, <2>3
<1>8. InOrder(hist.handled, l)
  BY <1>3 DEF Ordered
<1>9. ASSUME NEW r \in QueueId
      PROVE  /\ InOrder(queues'[r].items, l) /\ InOrder(drains'[r].turn.items, l)
             /\ \A x, y \in Message :
                  /\ In(x, hist.handled) /\ (In(y, queues'[r].items) \/ In(y, drains'[r].turn.items))
                       => Earlier(x, y, l)
                  /\ In(x, drains'[r].turn.items) /\ In(y, queues'[r].items)
                       => In(y, drains'[r].turn.items) \/ Earlier(x, y, l)
  <2>1. drains'[r].turn.items = Taken(r)
    BY <1>2
  <2>2. InOrder(queues'[r].items, l) /\ InOrder(Taken(r), l)
    BY <1>2, <1>3, <1>7, OrderedUse
  <2>3. \A y : In(y, queues'[r].items) => In(y, Items(r)) \/ y = m
    BY <1>2, <1>4, <1>5
  <2>4. \A x, y : In(x, hist.handled) /\ (In(y, Items(r)) \/ In(y, Taken(r))) => Earlier(x, y, l)
    BY <1>3, OrderedUse
  <2>5. \A x, y : In(x, Taken(r)) /\ In(y, Items(r)) => In(y, Taken(r)) \/ Earlier(x, y, l)
    BY <1>3, OrderedUse
  <2>6. \A x : In(x, hist.handled) \/ In(x, Taken(r)) => Earlier(x, m, l)
    BY <1>3, <1>6
  <2> QED BY <2>1, <2>2, <2>3, <2>4, <2>5, <2>6
<1> QED BY <1>2, <1>8, <1>9 DEF Ordered, Items, Taken

LEMMA OrderedBegins ==
  ASSUME Types, Once, Ordered, NEW q \in QueueId, Begins(q)
  PROVE  Ordered'
<1>1. PICK n \in 0..Len(Items(q)) : drains'[q].turn.items = SubSeq(Items(q), 1, n)
  BY DEF Begins
<1> DEFINE a == SubSeq(Items(q), 1, n)
           s == hist.accepted
<1>2. Items(q) \in Seq(Message) /\ Len(Items(q)) \in Nat
  BY TypesUse, LenProperties
<1>3. Len(a) = n /\ \A i \in 1..n : i \in 1..Len(Items(q)) /\ a[i] = Items(q)[i]
  BY <1>2, FrontSeq
<1>4. \A x : In(x, a) => In(x, Items(q))
  BY <1>2, CutMembers
<1>5. /\ \A r \in QueueId : queues'[r].items = Items(r)
      /\ \A r \in QueueId \ {q} : drains'[r].turn.items = Taken(r)
      /\ hist'.accepted = s /\ hist'.handled = hist.handled /\ drains'[q].turn.items = a
  BY <1>1 DEF Begins, Items, Taken
<1> HIDE DEF a
<1>6. InOrder(a, s)
  BY <1>3, OrderedUse DEF InOrder
<1>7. ASSUME NEW x, NEW y, In(x, a), In(y, Items(q)) PROVE In(y, a) \/ Earlier(x, y, s)
  <2>1. PICK i \in 1..Len(a) : a[i] = x
    BY <1>7 DEF In
  <2>2. PICK j \in 1..Len(Items(q)) : Items(q)[j] = y
    BY <1>7 DEF In
  <2>3. CASE j <= n
    <3>1. j \in 1..Len(a)
      BY <1>2, <1>3, <2>3
    <3> QED BY <1>3, <2>2, <3>1 DEF In
  <2>4. CASE j > n
    <3>1. i < j /\ i \in 1..Len(Items(q)) /\ Items(q)[i] = x
      BY <1>2, <1>3, <2>1, <2>4
    <3> QED BY <2>2, <3>1, OrderedUse DEF InOrder
  <2> QED BY <1>2, <2>3, <2>4
<1>8. InOrder(hist.handled, s)
  BY DEF Ordered
<1>9. ASSUME NEW r \in QueueId
      PROVE  /\ InOrder(queues'[r].items, s) /\ InOrder(drains'[r].turn.items, s)
             /\ \A x, y \in Message :
                  /\ In(x, hist.handled) /\ (In(y, queues'[r].items) \/ In(y, drains'[r].turn.items))
                       => Earlier(x, y, s)
                  /\ In(x, drains'[r].turn.items) /\ In(y, queues'[r].items)
                       => In(y, drains'[r].turn.items) \/ Earlier(x, y, s)
  <2> HIDE DEF s
  <2>1. CASE r = q
    <3>1. \A x, y : In(x, hist.handled) /\ (In(y, Items(q)) \/ In(y, a)) => Earlier(x, y, s)
      BY <1>4, OrderedUse DEF s
    <3>2. InOrder(Items(q), s)
      BY OrderedUse DEF s
    <3> QED BY <1>5, <1>6, <1>7, <2>1, <3>1, <3>2
  <2>2. CASE r # q
    <3>1. queues'[r].items = Items(r) /\ drains'[r].turn.items = Taken(r)
      BY <1>5, <2>2
    <3> QED BY <3>1, OrderedUse DEF s
  <2> QED BY <2>1, <2>2
<1> QED BY <1>5, <1>8, <1>9 DEF Ordered, Items, Taken

\* The messages of a turn come after all that have been run.
LEMMA OrderedEnds ==
  ASSUME Types, Once, Solo, Ordered, NEW q \in QueueId, Ends(q)
  PROVE  Ordered'
<1> DEFINE s == hist.accepted
           h == hist'.handled
<1>1. /\ hist.handled \in Seq(Message) /\ Taken(q) \in Seq(Message) /\ Items(q) \in Seq(Message)
      /\ Len(Taken(q)) \in Nat /\ Len(hist.handled) \in Nat
      /\ NoTurn.items = <<>> /\ InOrder(<<>>, s) /\ \A x : ~In(x, <<>>)
  <2>1. Len(<<>>) = 0
    BY EmptySeq
  <2> QED BY <2>1, TypesUse, Fields, LenProperties DEF InOrder, In
<1>2. \A r \in QueueId \ {q} : Items(r) = <<>> /\ Taken(r) = <<>>
  <2>1. q = current
    BY DEF Ends, Solo
  <2> QED BY <2>1, TypesUse DEF Solo
<1>3. /\ drains'[q].turn.items = <<>>
      /\ \A r \in QueueId \ {q} : queues'[r].items = <<>> /\ drains'[r].turn.items = <<>>
      /\ hist'.accepted = s
  BY <1>1, <1>2 DEF Ends, Rewinds, Taken
<1>4. \A x : In(x, queues'[q].items) => In(x, Items(q)) /\ ~In(x, Taken(q))
  BY Left DEF Ends
<1>5. InOrder(queues'[q].items, s)
  BY <1>1, CutOrder, OrderedUse DEF Ends
<1>6. InOrder(h, s) /\ \A x : In(x, h) => In(x, hist.handled) \/ In(x, Taken(q))
  <2>1. InOrder(hist.handled, s)
    BY DEF Ordered
  <2>2. CASE h = hist.handled
    BY <2>1, <2>2
  <2>3. CASE h = hist.handled \o Taken(q)
    <3> DEFINE k == Len(hist.handled)
    <3>1. /\ Len(h) = k + Len(Taken(q))
          /\ \A i \in 1..k : h[i] = hist.handled[i]
          /\ \A i \in 1..Len(Taken(q)) : h[k + i] = Taken(q)[i]
          /\ \A y : In(y, h) <=> In(y, hist.handled) \/ In(y, Taken(q))
      BY <1>1, <2>3, LongerSeq
    <3> HIDE DEF h, s
    <3>2. ASSUME NEW i \in 1..Len(h), NEW j \in 1..Len(h), i < j PROVE Earlier(h[i], h[j], s)
      <4>1. CASE j <= k
        <5>1. i \in 1..k /\ j \in 1..k
          BY <1>1, <3>1, <3>2, <4>1
        <5> QED BY <2>1, <3>1, <3>2, <5>1 DEF InOrder
      <4>2. CASE i <= k /\ j > k
        <5>1. i \in 1..k /\ j - k \in 1..Len(Taken(q)) /\ k + (j - k) = j
          BY <1>1, <3>1, <3>2, <4>2
        <5>2. In(h[i], hist.handled) /\ In(h[j], Taken(q))
          <6>1. h[i] = hist.handled[i] /\ h[k + (j - k)] = Taken(q)[j - k]
            BY <3>1, <5>1
          <6> QED BY <5>1, <6>1 DEF In
        <5> QED BY <5>2, OrderedUse DEF s
      <4>3. CASE i > k /\ j > k
        <5>1. /\ i - k \in 1..Len(Taken(q)) /\ k + (i - k) = i
              /\ j - k \in 1..Len(Taken(q)) /\ k + (j - k) = j /\ i - k < j - k
          BY <1>1, <3>1, <3>2, <4>3
        <5>2. h[k + (i - k)] = Taken(q)[i - k] /\ h[k + (j - k)] = Taken(q)[j - k]
          BY <3>1, <5>1
        <5>3. InOrder(Taken(q), s)
          BY OrderedUse DEF s
        <5>4. Earlier(Taken(q)[i - k], Taken(q)[j - k], s)
          BY <5>1, <5>3 DEF InOrder
        <5> QED BY <5>1, <5>2, <5>4
      <4> QED BY <1>1, <3>2, <4>1, <4>2, <4>3
    <3> QED BY <3>1, <3>2 DEF InOrder
  <2> QED BY <2>2, <2>3 DEF Ends, Taken
<1>7. \A x, y : In(x, h) /\ In(y, queues'[q].items) => Earlier(x, y, s)
  BY <1>4, <1>6, OrderedUse
<1>8. \A r \in QueueId :
        /\ InOrder(queues'[r].items, s) /\ InOrder(drains'[r].turn.items, s)
        /\ \A x, y \in Message :
             /\ In(x, h) /\ (In(y, queues'[r].items) \/ In(y, drains'[r].turn.items))
                  => Earlier(x, y, s)
             /\ In(x, drains'[r].turn.items) /\ In(y, queues'[r].items)
                  => In(y, drains'[r].turn.items) \/ Earlier(x, y, s)
  <2> HIDE DEF s, h
  <2> QED BY <1>1, <1>3, <1>5, <1>7
<1> QED BY <1>3, <1>6, <1>8 DEF Ordered, Items, Taken

LEMMA OrderedRests ==
  ASSUME Types, Ordered, hist'.accepted = hist.accepted, hist'.handled = hist.handled,
         \A r \in QueueId :
           /\ queues'[r].items = Items(r) \/ queues'[r].items = <<>>
           /\ drains'[r].turn.items = Taken(r) \/ drains'[r].turn.items = <<>>
  PROVE  Ordered'
<1> DEFINE s == hist.accepted
<1>1. InOrder(<<>>, s) /\ \A x : ~In(x, <<>>)
  <2>1. Len(<<>>) = 0
    BY EmptySeq
  <2> QED BY <2>1 DEF InOrder, In
<1>2. InOrder(hist.handled, s)
  BY DEF Ordered
<1>3. ASSUME NEW r \in QueueId
      PROVE  /\ InOrder(queues'[r].items, s) /\ InOrder(drains'[r].turn.items, s)
             /\ \A x, y \in Message :
                  /\ In(x, hist.handled) /\ (In(y, queues'[r].items) \/ In(y, drains'[r].turn.items))
                       => Earlier(x, y, s)
                  /\ In(x, drains'[r].turn.items) /\ In(y, queues'[r].items)
                       => In(y, drains'[r].turn.items) \/ Earlier(x, y, s)
  BY <1>1, OrderedUse
<1> QED BY <1>2, <1>3 DEF Ordered, Items, Taken

LEMMA OrderedPart ==
  ASSUME Types, Once, Solo, Ordered, Effect
  PROVE  Ordered'
<1>1. NoTurn.items = <<>>
  BY Fields
<1>2. ASSUME Rests PROVE Ordered'
  BY <1>1, <1>2, OrderedRests DEF Rests, Rewinds, Taken
<1>3. ASSUME Clears PROVE Ordered'
  BY <1>3, OrderedRests DEF Clears, Taken
<1> QED BY <1>2, <1>3, OrderedAccepts, OrderedBegins, OrderedEnds DEF Effect

-----------------------------------------------------------------------------
\* No message is missing.

\* What a turn has taken is at the front of the queue q.
Intact(q) ==
  /\ Len(Taken(q)) <= Len(Items(q))
  /\ \A i \in 1..Len(Taken(q)) : Items(q)[i] = Taken(q)[i]
  /\ drains[q].turn.kind = "summary" => \A x \in Message : In(x, Taken(q)) => x \in hist.carriers

Kept ==
  \A x \in Message : In(x, hist.accepted) =>
    \/ \E q \in QueueId : In(x, Items(q))
    \/ In(x, hist.handled) \/ x \in hist.dropped \cup hist.cleared \cup hist.carriers

LEMMA CompleteParts == Complete <=> (\A q \in QueueId : Intact(q)) /\ Kept
BY DEF Complete, Intact, Kept

LEMMA IntactParts == Complete' <=> (\A q \in QueueId : Intact(q)') /\ Kept'
BY DEF Complete, Intact, Kept

\* A queue without a turn, and one that stays as it is.
LEMMA IntactStays ==
  ASSUME Types, Types', NEW q \in QueueId, hist.carriers \subseteq hist'.carriers
  PROVE  /\ drains'[q].turn = NoTurn => Intact(q)'
         /\ Intact(q) /\ queues'[q].items = Items(q) /\ drains'[q].turn = drains[q].turn => Intact(q)'
<1>1. /\ Len(<<>>) = 0 /\ NoTurn.items = <<>> /\ NoTurn.kind = "none"
      /\ queues'[q].items \in Seq(Message) /\ Len(queues'[q].items) \in Nat
  <2>1. queues'[q] \in Object
    BY DEF Types
  <2> QED BY <2>1, EmptySeq, Fields, LenProperties
<1>2. ASSUME drains'[q].turn = NoTurn PROVE Intact(q)'
  BY <1>1, <1>2 DEF Intact, Items, Taken
<1>3. ASSUME Intact(q), queues'[q].items = Items(q), drains'[q].turn = drains[q].turn
      PROVE  Intact(q)'
  BY <1>3 DEF Intact, Items, Taken
<1> QED BY <1>2, <1>3

LEMMA CompleteAccepts ==
  ASSUME Types, Types', Once, Complete, NEW q \in QueueId, NEW m \in Message, NEW n \in Nat,
         Accepts(q, m, n), ~hist'.raced
  PROVE  Complete'
<1> DEFINE a == SubSeq(Items(q), 1, n)
           b == SubSeq(Items(q), n + 1, Len(Items(q)))
           c == Append(b, m)
           k == Len(Taken(q))
<1>1. /\ Items(q) \in Seq(Message) /\ hist.accepted \in Seq(Message) /\ n \in 0..Len(Items(q))
      /\ Len(Items(q)) \in Nat /\ k \in Nat
  BY TypesUse, LenProperties DEF Accepts
<1>2. /\ queues'[q].items = c /\ drains'[q].turn = drains[q].turn
      /\ \A r \in QueueId \ {q} : queues'[r].items = Items(r) /\ drains'[r].turn = drains[r].turn
      /\ hist'.accepted = Append(hist.accepted, m) /\ hist'.handled = hist.handled
      /\ hist'.dropped = hist.dropped \cup Range(a)
      /\ hist'.cleared = hist.cleared /\ hist'.carriers = hist.carriers
  BY DEF Accepts, Items
<1>3. n > 0 => drains[q].pc # "running"
  BY DEF Accepts
<1>4. n > 0 => drains[q].turn = NoTurn
  BY <1>3, TypesUse
<1>5. /\ a \in Seq(Message) /\ b \in Seq(Message) /\ Len(b) \in Nat
      /\ Len(b) = IF n <= Len(Items(q)) THEN Len(Items(q)) - n ELSE 0
      /\ \A i \in 1..Len(b) : n + i \in 1..Len(Items(q)) /\ b[i] = Items(q)[n + i]
  BY <1>1, CutSeq, FrontSeq
<1>6. \A x : In(x, Items(q)) <=> In(x, a) \/ In(x, b)
  BY <1>1, CutMembers
<1>7. \A x : x \in Range(a) <=> In(x, a)
  BY <1>5, Members
<1> HIDE DEF a, b
<1>8. /\ Len(c) = Len(b) + 1 /\ \A i \in 1..Len(b) : c[i] = b[i]
      /\ \A y : In(y, c) <=> In(y, b) \/ y = m
  BY <1>5, LongerSeq
<1> HIDE DEF c
<1>9. \A r \in QueueId : Intact(r)
  BY CompleteParts
<1>10. Intact(q)'
  <2>1. CASE n > 0
    BY <1>2, <1>4, <2>1, IntactStays
  <2>2. CASE n = 0
    <3>1. Len(b) = Len(Items(q)) /\ \A i \in 1..Len(b) : b[i] = Items(q)[i]
      <4>1. Len(b) = Len(Items(q))
        BY <1>1, <1>5, <2>2
      <4>2. \A i \in 1..Len(b) : n + i = i
        BY <2>2
      <4> QED BY <1>5, <4>1, <4>2
    <3>2. k <= Len(Items(q)) /\ \A i \in 1..k : Items(q)[i] = Taken(q)[i]
      BY <1>9 DEF Intact
    <3>3. k <= Len(c) /\ \A i \in 1..k : i \in 1..Len(b)
      <4> HIDE DEF k
      <4> QED BY <1>1, <1>8, <3>1, <3>2
    <3>4. \A i \in 1..k : c[i] = Taken(q)[i]
      BY <1>8, <3>1, <3>2, <3>3
    <3>5. drains[q].turn.kind = "summary" => \A x \in Message : In(x, Taken(q)) => x \in hist.carriers
      BY <1>9 DEF Intact
    <3> QED BY <1>2, <3>3, <3>4, <3>5 DEF Intact, Items, Taken
  <2> QED BY <1>1, <2>1, <2>2
<1>11. \A r \in QueueId \ {q} : Intact(r)'
  BY <1>2, <1>9, IntactStays
<1>12. Kept'
  <2> SUFFICES ASSUME NEW x \in Message, In(x, hist'.accepted)
               PROVE  \/ \E r \in QueueId : In(x, queues'[r].items)
                      \/ In(x, hist'.handled)
                      \/ x \in hist'.dropped \cup hist'.cleared \cup hist'.carriers
    BY DEF Kept, Items
  <2>1. In(x, hist.accepted) \/ x = m
    BY <1>1, <1>2, LongerSeq
  <2>2. ASSUME NEW r \in QueueId, In(x, Items(r))
        PROVE  In(x, queues'[r].items) \/ x \in hist'.dropped
    BY <1>2, <1>6, <1>7, <1>8, <2>2
  <2>3. Kept
    BY CompleteParts
  <2>4. x = m => In(x, queues'[q].items)
    BY <1>2, <1>8
  <2>5. In(x, hist.accepted) =>
          \/ \E r \in QueueId : In(x, Items(r))
          \/ In(x, hist.handled) \/ x \in hist.dropped \cup hist.cleared \cup hist.carriers
    BY <2>3 DEF Kept
  <2> QED BY <1>2, <2>1, <2>2, <2>4, <2>5
<1> QED BY <1>10, <1>11, <1>12, IntactParts

LEMMA CompleteBegins ==
  ASSUME Types, Types', Complete, NEW q \in QueueId, Begins(q)
  PROVE  Complete'
<1>1. PICK n \in 0..Len(Items(q)) : drains'[q].turn.items = SubSeq(Items(q), 1, n)
  BY DEF Begins
<1> DEFINE a == SubSeq(Items(q), 1, n)
<1>2. Items(q) \in Seq(Message) /\ Len(Items(q)) \in Nat
  BY TypesUse, LenProperties
<1>3. Len(a) = n /\ n <= Len(Items(q)) /\ \A i \in 1..n : a[i] = Items(q)[i]
  BY <1>2, FrontSeq
<1>4. /\ \A r \in QueueId : queues'[r].items = Items(r)
      /\ \A r \in QueueId \ {q} : drains'[r].turn = drains[r].turn
      /\ hist.carriers \subseteq hist'.carriers /\ drains'[q].turn.items = a
      /\ hist'.accepted = hist.accepted /\ hist'.handled = hist.handled
      /\ hist'.dropped = hist.dropped /\ hist'.cleared = hist.cleared
      /\ drains'[q].turn.kind = "summary" =>
           \A x \in Message : In(x, drains'[q].turn.items) => x \in hist'.carriers
  BY <1>1 DEF Begins, Items
<1> HIDE DEF a
<1>5. Intact(q)'
  BY <1>3, <1>4 DEF Intact, Items, Taken
<1>6. \A r \in QueueId \ {q} : Intact(r)'
  BY <1>4, CompleteParts, IntactStays
<1>7. Kept'
  <2>1. Kept
    BY CompleteParts
  <2> QED BY <1>4, <2>1 DEF Kept, Items
<1> QED BY <1>5, <1>6, <1>7, IntactParts

\* A turn that ends has run what leaves the queue, or lent it to a summary.
LEMMA CompleteEnds ==
  ASSUME Types, Types', Complete, NEW q \in QueueId, Ends(q)
  PROVE  Complete'
<1> DEFINE t == Taken(q)
           k == Len(t)
           a == SubSeq(Items(q), 1, k)
           b == SubSeq(Items(q), k + 1, Len(Items(q)))
<1>1. Items(q) \in Seq(Message) /\ t \in Seq(Message) /\ k \in Nat /\ Len(Items(q)) \in Nat
      /\ hist.handled \in Seq(Message)
  BY TypesUse, LenProperties
<1>2. /\ queues'[q].items = b /\ drains'[q].turn = NoTurn
      /\ \A r \in QueueId \ {q} : /\ queues'[r].items = Items(r)
                                  /\ drains'[r].turn = drains[r].turn \/ drains'[r].turn = NoTurn
      /\ hist'.accepted = hist.accepted /\ hist'.dropped = hist.dropped
      /\ hist'.cleared = hist.cleared /\ hist'.carriers = hist.carriers
      /\ hist'.handled = IF drains[q].turn.kind = "summary" THEN hist.handled
                         ELSE hist.handled \o t
  BY DEF Ends, Rewinds
<1>3. /\ k <= Len(Items(q)) /\ \A i \in 1..k : Items(q)[i] = t[i]
      /\ drains[q].turn.kind = "summary" => \A x \in Message : In(x, t) => x \in hist.carriers
  BY CompleteParts DEF Intact
<1>4. k \in 0..Len(Items(q))
  BY <1>1, <1>3
<1>5. Len(a) = k /\ \A i \in 1..k : a[i] = Items(q)[i]
  BY <1>1, <1>4, FrontSeq
<1>6. \A x : In(x, Items(q)) <=> In(x, a) \/ In(x, b)
  BY <1>1, <1>4, CutMembers
<1> HIDE DEF a, b
<1>7. \A x : In(x, a) => In(x, t)
  BY <1>3, <1>5 DEF In
<1>8. \A y : In(y, hist.handled \o t) <=> In(y, hist.handled) \/ In(y, t)
  BY <1>1, LongerSeq
<1>9. \A r \in QueueId : Intact(r)'
  <2>1. \A r \in QueueId \ {q} : Intact(r)'
    BY <1>2, CompleteParts, IntactStays
  <2>2. Intact(q)'
    BY <1>2, IntactStays
  <2> QED BY <2>1, <2>2
<1>10. Kept'
  <2> SUFFICES ASSUME NEW x \in Message, In(x, hist.accepted)
               PROVE  \/ \E r \in QueueId : In(x, queues'[r].items)
                      \/ In(x, hist'.handled)
                      \/ x \in hist.dropped \cup hist.cleared \cup hist.carriers
    BY <1>2 DEF Kept, Items
  <2> HIDE DEF t
  <2>1. In(x, hist.handled) => In(x, hist'.handled)
    BY <1>2, <1>8
  <2>2. In(x, t) => In(x, hist'.handled) \/ x \in hist.carriers
    BY <1>2, <1>3, <1>8
  <2>3. ASSUME NEW r \in QueueId, In(x, Items(r))
        PROVE  In(x, queues'[r].items) \/ In(x, t)
    BY <1>2, <1>6, <1>7, <2>3
  <2>4. Kept
    BY CompleteParts
  <2>5. \/ \E r \in QueueId : In(x, Items(r))
        \/ In(x, hist.handled) \/ x \in hist.dropped \cup hist.cleared \cup hist.carriers
    BY <2>4 DEF Kept
  <2> QED BY <2>1, <2>2, <2>3, <2>5
<1> QED BY <1>9, <1>10, IntactParts

LEMMA CompleteRests ==
  ASSUME Types, Types', Complete, Rests
  PROVE  Complete'
<1>1. /\ hist' = hist /\ \A r \in QueueId : queues'[r].items = Items(r)
      /\ \A r \in QueueId : drains'[r].turn = drains[r].turn \/ drains'[r].turn = NoTurn
  BY DEF Rests, Rewinds
<1>2. \A r \in QueueId : Intact(r)'
  BY <1>1, CompleteParts, IntactStays
<1>3. Kept'
  <2>1. Kept
    BY CompleteParts
  <2> QED BY <1>1, <2>1 DEF Kept, Items
<1> QED BY <1>2, <1>3, IntactParts

\* The queue is cleared, and no drain is at it.
LEMMA CompleteClears ==
  ASSUME Types, Types', Complete, Clears, ~hist'.split
  PROVE  Complete'
<1>1. current \in QueueId \cup {None} /\ None \notin QueueId
  BY QueueIds DEF Types
<1>2. /\ \A r \in QueueId : /\ drains'[r].turn = drains[r].turn
                            /\ r # current => queues'[r].items = Items(r)
      /\ hist'.accepted = hist.accepted /\ hist'.handled = hist.handled
      /\ hist'.dropped = hist.dropped /\ hist.cleared \subseteq hist'.cleared
      /\ hist'.carriers = hist.carriers
      /\ current # None => \A x \in Message : In(x, Items(current)) => x \in hist'.cleared
  BY DEF Clears
<1>3. ASSUME NEW r \in QueueId PROVE Intact(r)'
  <2>1. CASE r = current
    <3>1. drains[r].pc = "off"
      BY <1>1, <2>1 DEF Clears
    <3>2. drains'[r].turn = NoTurn
      BY <1>2, <3>1, TypesUse
    <3> QED BY <1>2, <3>2, IntactStays
  <2>2. CASE r # current
    BY <1>2, <2>2, CompleteParts, IntactStays
  <2> QED BY <2>1, <2>2
<1>4. Kept'
  <2> SUFFICES ASSUME NEW x \in Message, In(x, hist.accepted)
               PROVE  \/ \E r \in QueueId : In(x, queues'[r].items)
                      \/ In(x, hist.handled)
                      \/ x \in hist.dropped \cup hist'.cleared \cup hist.carriers
    BY <1>2 DEF Kept, Items
  <2>1. ASSUME NEW r \in QueueId, In(x, Items(r))
        PROVE  In(x, queues'[r].items) \/ x \in hist'.cleared
    BY <1>1, <1>2, <2>1
  <2>2. Kept
    BY CompleteParts
  <2>3. \/ \E r \in QueueId : In(x, Items(r))
        \/ In(x, hist.handled) \/ x \in hist.dropped \cup hist.cleared \cup hist.carriers
    BY <2>2 DEF Kept
  <2> QED BY <1>2, <2>1, <2>3
<1> QED BY <1>3, <1>4, IntactParts

LEMMA CompletePart ==
  ASSUME Types, Types', Once, Complete, Effect, ~hist'.split, ~hist'.raced
  PROVE  Complete'
BY CompleteAccepts, CompleteBegins, CompleteEnds, CompleteRests, CompleteClears DEF Effect

\* A history in which a queue was shortened under a turn stays one.
LEMMA RacedStays ==
  ASSUME Effect, ~hist'.raced
  PROVE  ~hist.raced
BY DEF Effect, Accepts, Begins, Ends, Rests, Clears

-----------------------------------------------------------------------------
\* The invariant holds, and what follows from it.

LEMMA QueueInit == Init => QueueInv
<1> SUFFICES ASSUME Init PROVE QueueInv
  OBVIOUS
<1>1. \A q \in QueueId : queues[q] = Unused /\ drains[q] = Off
  BY DEF Init
<1>2. /\ \A q \in QueueId : /\ Items(q) = <<>> /\ Taken(q) = <<>> /\ drains[q].pc = "off"
                            /\ drains[q].turn.kind = "none" /\ queues[q].droppedCount = 0
      /\ hist.accepted = <<>> /\ hist.handled = <<>> /\ hist.dropped = {} /\ hist.cleared = {}
      /\ recent = {}
  BY <1>1, Fields DEF Items, Taken, Init
<1>3. /\ Len(<<>>) = 0 /\ NoRepeats(<<>>) /\ (\A x : ~In(x, <<>>))
      /\ (\A s : Apart(<<>>, s)) /\ \A s : InOrder(<<>>, s)
  <2>1. Len(<<>>) = 0
    BY EmptySeq
  <2> QED BY <2>1 DEF NoRepeats, In, Apart, InOrder
<1>4. Types
  <2>1. hist \in History
    BY EmptySeq DEF Init, History
  <2>2. failures \in 0..MaxFailures /\ clears \in 0..MaxClears
    BY FollowupBounds DEF Init
  <2> QED BY <2>1, <2>2, Fields DEF Types, Init, TurnOK
<1>5. Once
  BY <1>2, <1>3 DEF Once, AtFront
<1>6. Tally
  BY <1>2, FS_EmptySet DEF Tally
<1>7. Solo
  BY <1>2 DEF Solo
<1>8. Ordered
  BY <1>2, <1>3 DEF Ordered
<1>9. Complete
  BY <1>2, <1>3 DEF Complete
<1> QED BY <1>4, <1>5, <1>6, <1>7, <1>8, <1>9 DEF QueueInv

LEMMA QueueStep == QueueInv /\ [Next]_vars => QueueInv'
<1> SUFFICES ASSUME QueueInv, [Next]_vars PROVE QueueInv'
  OBVIOUS
<1>1. Types /\ Once /\ Tally
  BY DEF QueueInv
<1>2. Types' /\ Effect
  BY <1>1, NextEffect
<1>3. Once' /\ Tally'
  BY <1>1, <1>2, OncePart, TallyPart
<1>4. ASSUME ~hist'.split PROVE Solo' /\ Ordered'
  <2>1. Solo /\ Ordered
    BY <1>2, <1>4, SplitStays DEF QueueInv
  <2> QED BY <1>1, <1>2, <1>4, <2>1, SoloPart, OrderedPart
<1>5. ASSUME ~hist'.split, ~hist'.raced PROVE Complete'
  <2>1. Complete
    BY <1>2, <1>5, SplitStays, RacedStays DEF QueueInv
  <2> QED BY <1>1, <1>2, <1>5, <2>1, CompletePart
<1> QED BY <1>2, <1>3, <1>4, <1>5 DEF QueueInv

LEMMA QueueInvHolds == Spec => []QueueInv
BY QueueInit, QueueStep, PTL DEF Spec

\* The state is well formed: a summary counts no more messages than there are,
\* and a drain has a turn when it runs.  Unless the queue was cleared under its
\* drain, the only drain under way is that of the queue that messages go to.
THEOREM FollowupCorrect == Spec => []FollowupInv
<1>1. QueueInv => FollowupInv
  <2> SUFFICES ASSUME QueueInv PROVE FollowupInv
    OBVIOUS
  <2>1. Types /\ Tally
    BY DEF QueueInv
  <2>2. ASSUME NEW q \in QueueId
        PROVE  /\ queues[q].items \in Seq(Message) /\ queues[q].summaryLines \in Seq(Message)
               /\ queues[q].droppedCount \in 0..Cardinality(Message)
               /\ queues[q].lastRun \in BOOLEAN
               /\ drains[q].pc \in {"off", "debounce", "running"}
               /\ drains[q].turn.kind \in {"none", "item", "batch", "summary"}
               /\ drains[q].pc = "running" <=> drains[q].turn.kind # "none"
    <3>1. queues[q] \in Object /\ drains[q] \in Drain /\ hist.dropped \subseteq Message
      BY <2>1, TypesUse
    <3>2. queues[q].droppedCount \in 0..Cardinality(Message)
      <4>1. /\ Cardinality(hist.dropped) \in Nat /\ Cardinality(Message) \in Nat
            /\ Cardinality(hist.dropped) <= Cardinality(Message)
        BY <3>1, FiniteMessages, FS_Subset, FS_CardinalityType
      <4>2. queues[q].droppedCount \in Nat /\ queues[q].droppedCount <= Cardinality(hist.dropped)
        BY <2>1, <3>1, Fields DEF Tally
      <4> QED BY <4>1, <4>2
    <3>3. drains[q].pc = "running" <=> drains[q].turn.kind # "none"
      BY <2>1, Fields DEF Types, TurnOK
    <3> QED BY <3>1, <3>2, <3>3, Fields DEF Kinds
  <2>3. FollowupTypeOK
    BY <2>1, <2>2 DEF FollowupTypeOK, Types
  <2>4. SingleDrain
    BY DEF QueueInv, SingleDrain, Solo
  <2> QED BY <2>3, <2>4 DEF FollowupInv
<1> QED BY <1>1, QueueInvHolds, PTL

\* No message is run twice: not when it is delivered again, when turns fail, when
\* the queue is shortened under a turn or when it is cleared and made anew.
THEOREM MessagesHandledOnce == Spec => []HandledOnce
<1>1. QueueInv => HandledOnce
  BY TypesUse, Members DEF QueueInv, Once, HandledOnce
<1> QED BY <1>1, QueueInvHolds, PTL

\* A turn that begins has no message that was cleared: the drain that goes on after
\* clearSessionQueues finds the object empty, and a redelivery is known.
THEOREM ClearedStaysAway == Spec => ClearedNotRun
<1>1. ASSUME QueueInv, [Next]_vars, NEW q \in QueueId, drains'[q].turn # drains[q].turn
      PROVE  Range(drains'[q].turn.items) \cap hist.cleared = {}
  <2>1. Types /\ Once /\ Effect
    BY <1>1, NextEffect DEF QueueInv
  <2>2. CASE drains'[q].turn = NoTurn
    <3>1. <<>> \in Seq(Message) /\ Len(<<>>) = 0
      BY EmptySeq
    <3>2. Range(<<>>) = {}
      BY <3>1, Members DEF In
    <3> QED BY <2>2, <3>2, Fields
  <2>3. CASE drains'[q].turn # NoTurn
    <3>1. Begins(q)
      <4>1. ASSUME NEW r \in QueueId, NEW m \in Message, NEW n \in Nat, Accepts(r, m, n) PROVE FALSE
        BY <1>1, <4>1 DEF Accepts
      <4>2. ~Rewinds /\ ~Clears
        BY <1>1, <2>3 DEF Rewinds, Clears
      <4>3. ASSUME NEW r \in QueueId, Begins(r) PROVE r = q
        BY <1>1, <4>3 DEF Begins
      <4> QED BY <2>1, <4>1, <4>2, <4>3 DEF Effect, Ends, Rests
    <3>2. PICK n \in 0..Len(Items(q)) : drains'[q].turn.items = SubSeq(Items(q), 1, n)
      BY <3>1 DEF Begins
    <3> DEFINE a == SubSeq(Items(q), 1, n)
    <3>3. Items(q) \in Seq(Message) /\ a \in Seq(Message)
      BY <2>1, TypesUse, FrontSeq
    <3>4. \A x : In(x, a) => In(x, Items(q))
      BY <3>3, CutMembers
    <3> HIDE DEF a
    <3>5. \A x \in Range(a) : x \notin hist.cleared
      BY <2>1, <3>3, <3>4, OnceUse, Members
    <3> QED BY <3>2, <3>5 DEF a
  <2> QED BY <2>2, <2>3
<1>2. ASSUME QueueInv, [Next]_vars
      PROVE  [\A q \in QueueId :
                 drains'[q].turn # drains[q].turn =>
                   Range(drains'[q].turn.items) \cap hist.cleared = {}]_vars
  BY <1>1, <1>2
<1> QED BY <1>2, QueueInvHolds, PTL DEF Spec, ClearedNotRun

\* Messages are run in the order in which they were queued, unless the queue was
\* cleared under its drain.
THEOREM MessagesInOrder == Spec => []HandledInOrder
<1>1. QueueInv => HandledInOrder
  <2> SUFFICES ASSUME QueueInv, ~hist.split,
                      NEW i \in 1..Len(hist.accepted), NEW j \in 1..Len(hist.accepted), i < j,
                      hist.accepted[i] \in Range(hist.handled),
                      hist.accepted[j] \in Range(hist.handled)
               PROVE  \E k, n \in 1..Len(hist.handled) :
                        /\ k < n /\ hist.handled[k] = hist.accepted[i]
                        /\ hist.handled[n] = hist.accepted[j]
    BY DEF HandledInOrder
  <2>1. /\ hist.accepted \in Seq(Message) /\ hist.handled \in Seq(Message)
        /\ Len(hist.accepted) \in Nat /\ Len(hist.handled) \in Nat
    BY TypesUse, LenProperties DEF QueueInv
  <2>2. NoRepeats(hist.accepted) /\ InOrder(hist.handled, hist.accepted)
    BY DEF QueueInv, Once, Ordered
  <2>3. PICK k \in 1..Len(hist.handled) : hist.handled[k] = hist.accepted[i]
    BY <2>1, Members DEF In
  <2>4. PICK n \in 1..Len(hist.handled) : hist.handled[n] = hist.accepted[j]
    BY <2>1, Members DEF In
  <2>5. k # n
    BY <2>1, <2>2, <2>3, <2>4 DEF NoRepeats
  <2>6. ~(n < k)
    <3> SUFFICES ASSUME n < k PROVE FALSE
      OBVIOUS
    <3>1. Earlier(hist.handled[n], hist.handled[k], hist.accepted)
      BY <2>2 DEF InOrder
    <3>2. PICK u \in 1..Len(hist.accepted), v \in 1..Len(hist.accepted) :
            u < v /\ hist.accepted[u] = hist.handled[n] /\ hist.accepted[v] = hist.handled[k]
      BY <3>1 DEF Earlier
    <3>3. u = j /\ v = i
      BY <2>2, <2>3, <2>4, <3>2 DEF NoRepeats
    <3> QED BY <2>1, <3>2, <3>3
  <2>7. k < n
    BY <2>1, <2>5, <2>6
  <2> QED BY <2>3, <2>4, <2>7
<1> QED BY <1>1, QueueInvHolds, PTL

\* A message that was queued waits in a queue whose drain comes to it, or was run,
\* dropped or cleared, in the histories in which the code keeps its promise.
THEOREM MessagesAccounted == Spec => []Accounted
<1>1. QueueInv => Accounted
  <2> SUFFICES ASSUME QueueInv, ~hist.raced, ~hist.split,
                      NEW m \in Range(hist.accepted) \ hist.carriers
               PROVE  Queued(m) \/ Ended(m)
    BY DEF Accounted
  <2>1. Types /\ Solo /\ Complete
    BY DEF QueueInv
  <2>2. /\ hist.accepted \in Seq(Message) /\ hist.handled \in Seq(Message)
        /\ \A q \in QueueId : Items(q) \in Seq(Message)
    BY <2>1, TypesUse
  <2>3. In(m, hist.accepted) /\ m \in Message
    BY <2>2, Members
  <2>4. \/ \E q \in QueueId : In(m, Items(q))
        \/ In(m, hist.handled) \/ m \in hist.dropped \cup hist.cleared
    BY <2>1, <2>3 DEF Complete
  <2>5. ASSUME NEW q \in QueueId, In(m, Items(q)) PROVE Queued(m)
    <3>1. m \in Range(queues[q].items)
      BY <2>2, <2>5, Members DEF Items
    <3>2. q = current \/ drains[q].pc # "off"
      BY <2>1, <2>2, <2>5, Members DEF Solo
    <3> QED BY <3>1, <3>2 DEF Queued
  <2>6. In(m, hist.handled) => m \in Range(hist.handled)
    BY <2>2, Members
  <2> QED BY <2>4, <2>5, <2>6 DEF Ended
<1> QED BY <1>1, QueueInvHolds, PTL

=============================================================================
