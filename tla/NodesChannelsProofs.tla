------------------------ MODULE NodesChannelsProofs ------------------------
(***************************************************************************)
(* Proofs about NodeRuns and ChannelSupervisor, which share no state.  For *)
(* all sets of runs and all bounds: the bookkeeping of the node's          *)
(* connections, and that a command goes to the node as approved only when  *)
(* it was allowed, and once if allowed once.  For any number of clients,   *)
(* lifecycles and restart attempts: the manager tracks what runs, and an   *)
(* account that somebody has stopped stays stopped.                        *)
(***************************************************************************)
EXTENDS NodeRuns, ChannelSupervisor, FiniteSetTheorems, TLAPS

(* The approvals and the node: NodeRuns. *)

\* What the entry of an approval says of the answer that was given, and of the
\* invocations that have gone to the node with it.
RecordOK(r) ==
  /\ agent[r] = "start" => record[r] = "none"
  /\ record[r] \in {"none", "pending"} => given[r] = "nothing" /\ Approved(r) = {}
  /\ record[r] \in Allow => given[r] = record[r]
  /\ record[r] = "used" => given[r] = "allow-once"
  /\ record[r] = "timeout" => given[r] = "null"
  /\ record[r] = "allow-once" => Approved(r) = {}

\* An invocation has gone out as approved only with an answer that allows it, and
\* with allow-once there is one at most.
ApprovedOK(r) ==
  /\ Approved(r) # {} => given[r] \in Allow \/ given[r] = "null"
  /\ given[r] = "allow-once" => \A j, k \in Approved(r) : j = k

NodeIInv == RunsInv /\ \A r \in Run : RecordOK(r) /\ ApprovedOK(r)

\* The bounds are positive.
LEMMA BoundsNat == MaxCalls \in Nat \ {0} /\ MaxConns \in Nat \ {0}
  BY RunsInstance DEF RunsInstance

\* Initially nothing is asked for and nobody is connected.
LEMMA NodeInitInv == RunsInit => NodeIInv
  BY BoundsNat
  DEF RunsInit, NodeIInv, RunsInv, RunsTypeOK, RecordOK, ApprovedOK, Approved, Resolved, Allow,
      NoCall, Ended, Call, CallRecord

-----------------------------------------------------------------------------
Record == Resolved \cup {"none", "pending", "gone"}
Given == Allow \cup {"deny", "null", "nothing"}
Clock == {"before", "at", "after"}
Route == {"clients", "forwarder", "none"}
Agent == Allow \cup {"start", "forwarding", "accepted", "waiting", "null", "deny", "denied",
                     "invoking", "finished"}

\* What a changed invocation leaves of the others.
LEMMA SetCallChanges ==
  ASSUME NEW r \in Run, NEW k \in Call, NEW c \in CallRecord,
         calls \in [Run -> [Call -> CallRecord]], SetCall(r, k, c)
  PROVE  /\ calls' \in [Run -> [Call -> CallRecord]]
         /\ calls'[r][k] = c
         /\ \A s \in Run, j \in Call : <<s, j>> # <<r, k>> => calls'[s][j] = calls[s][j]
<1>1. calls' = [calls EXCEPT ![r] = [calls[r] EXCEPT ![k] = c]]
  BY DEF SetCall
<1>2. [calls[r] EXCEPT ![k] = c] \in [Call -> CallRecord]
  OBVIOUS
<1> QED BY <1>1, <1>2

\* A step that changes one invocation keeps what is known of the connections, if
\* the invocation is not pending on one that is closed.
LEMMA SetCallInv ==
  ASSUME NEW r \in Run, NEW k \in Call, NEW c \in CallRecord, SetCall(r, k, c), RunsInv,
         c.at = "pending" => c.conn \in online,
         UNCHANGED <<fallback, clock, route, online, opened, session, displaced>>,
         record' \in [Run -> Record], UNCHANGED given, agent' \in [Run -> Agent]
  PROVE  RunsInv'
<1>0. calls \in [Run -> [Call -> CallRecord]]
  BY DEF RunsInv, RunsTypeOK
<1>1. /\ calls' \in [Run -> [Call -> CallRecord]]
      /\ calls'[r][k] = c
      /\ \A s \in Run, j \in Call : <<s, j>> # <<r, k>> => calls'[s][j] = calls[s][j]
  BY <1>0, SetCallChanges
<1>2. ASSUME NEW s \in Run, NEW j \in Call, calls'[s][j].at = "pending"
      PROVE  calls'[s][j].conn \in online'
  <2>1. CASE <<s, j>> = <<r, k>>
    <3>1. s = r /\ j = k
      BY <2>1
    <3> QED BY <1>1, <1>2, <3>1
  <2>2. CASE <<s, j>> # <<r, k>>
    <3>1. calls'[s][j] = calls[s][j]
      BY <1>1, <2>2
    <3> QED BY <1>2, <3>1 DEF RunsInv
  <2> QED BY <2>1, <2>2
<1>3. RunsTypeOK'
  <2>1. record' \in [Run -> Resolved \cup {"none", "pending", "gone"}]
    BY DEF Record
  <2>2. agent' \in [Run -> Allow \cup {"start", "forwarding", "accepted", "waiting", "null", "deny",
                                    "denied", "invoking", "finished"}]
    BY DEF Agent
  <2> QED BY <1>1, <2>1, <2>2 DEF RunsInv, RunsTypeOK
<1> QED BY <1>2, <1>3 DEF RunsInv

\* A call that has been asked for.
LEMMA CalledTyped ==
  ASSUME NEW wish \in Allow \cup {"unapproved"}
  PROVE  Called(wish) \in CallRecord /\ Called(wish).at = "called" /\ Called(wish).conn = 0
  BY BoundsNat DEF Called, CallRecord

\* A call whose result has come.
LEMMA AnsweredTyped ==
  ASSUME NEW c \in CallRecord
  PROVE  LET d == [c EXCEPT !.node = "answered", !.at = IF @ = "pending" THEN "ok" ELSE @]
         IN  d \in CallRecord /\ d.conn = c.conn /\ d.as = c.as /\ d.at # "pending"
  BY DEF CallRecord, Ended

\* Every invocation is a record of its type.
LEMMA CallsTyped ==
  ASSUME RunsInv, NEW r \in Run, NEW k \in Call
  PROVE  calls[r][k] \in CallRecord
  BY DEF RunsInv, RunsTypeOK

\* What is known of the connections does not depend on approvals and requesters.
LEMMA ApprovalsInv ==
  ASSUME RunsInv, record' \in [Run -> Record], given' \in [Run -> Given], clock' \in [Run -> Clock],
         route' \in [Run -> Route], agent' \in [Run -> Agent],
         UNCHANGED <<fallback, calls, online, opened, session, displaced>>
  PROVE  RunsInv'
<1>1. RunsTypeOK'
  BY DEF RunsInv, RunsTypeOK, Record, Given, Clock, Route, Agent
<1> QED BY <1>1 DEF RunsInv

\* Their types now.
LEMMA ApprovalsTyped ==
  RunsInv => /\ record \in [Run -> Record] /\ given \in [Run -> Given] /\ clock \in [Run -> Clock]
             /\ route \in [Run -> Route] /\ agent \in [Run -> Agent]
  BY DEF RunsInv, RunsTypeOK, Record, Given, Clock, Route, Agent

\* An approval that is resolved, or was before.
LEMMA ResolveTyped ==
  ASSUME RunsInv, NEW r \in Run, NEW outcome \in Resolved, NEW answer \in Given, Resolve(r, outcome, answer)
  PROVE  record' \in [Run -> Record] /\ given' \in [Run -> Given]
<1>1. outcome \in Record
  BY DEF Record
<1> QED BY <1>1, ApprovalsTyped DEF Resolve

\* An invocation ends without reaching the node, or goes there with what the guard allows.
Stops(r, k, c) ==
  /\ c.conn = calls[r][k].conn /\ c.as = calls[r][k].as /\ c.at # "pending"
  /\ UNCHANGED record \/ (record[r] \in Allow /\ Consume(r))

Goes(r, k, c) ==
  /\ c.conn \in online
  /\ \/ c.as = "unapproved" /\ UNCHANGED record
     \/ c.as = "fallback" /\ record[r] = "timeout" /\ UNCHANGED record
     \/ c.as \in Allow /\ record[r] = c.as /\ Consume(r)

LEMMA SendEffects ==
  ASSUME RunsInv, NEW r \in Run, NEW k \in Call, Send(r, k)
  PROVE  \E c \in CallRecord : SetCall(r, k, c) /\ (Stops(r, k, c) \/ Goes(r, k, c))
<1> DEFINE v == Guard(r, k, calls[r][k].as)
           Ending(how) == [calls[r][k] EXCEPT !.at = how]
           Sending == [at |-> "pending", as |-> v, conn |-> session, node |-> "wire"]
<1>1. /\ v \in Allow => record[r] = v
      /\ v = "fallback" => record[r] = "timeout"
      /\ v \in Allow \cup {"unapproved", "fallback", "refused"}
  BY DEF Guard, Allow
<1>2. ASSUME NEW how \in {"not-allowed", "refused", "unsent"}
      PROVE  /\ Ending(how) \in CallRecord /\ Ending(how).at # "pending"
             /\ Ending(how).conn = calls[r][k].conn /\ Ending(how).as = calls[r][k].as
  BY CallsTyped DEF CallRecord, Ended
<1>3. session \in 0..MaxConns /\ session \in online
  BY BoundsNat DEF Send, RunsInv, RunsTypeOK
<1>4. /\ v # "refused" => Sending \in CallRecord
      /\ Sending.conn = session /\ Sending.as = v
  <2> HIDE DEF v
  <2> QED BY <1>1, <1>3 DEF CallRecord
<1>5. \/ SetCall(r, k, Ending("not-allowed")) /\ UNCHANGED record
      \/ SetCall(r, k, Ending("refused")) /\ UNCHANGED record
      \/ /\ \/ v # "refused" /\ SetCall(r, k, Sending)
            \/ SetCall(r, k, Ending("unsent"))
         /\ IF v \in Allow THEN Consume(r) ELSE UNCHANGED record
  BY DEF Send
<1> HIDE DEF v, Ending, Sending
<1>6. CASE SetCall(r, k, Ending("not-allowed")) /\ UNCHANGED record
  BY <1>2, <1>6 DEF Stops
<1>7. CASE SetCall(r, k, Ending("refused")) /\ UNCHANGED record
  BY <1>2, <1>7 DEF Stops
<1>8. CASE SetCall(r, k, Ending("unsent")) /\ IF v \in Allow THEN Consume(r) ELSE UNCHANGED record
  BY <1>1, <1>2, <1>8 DEF Stops
<1>9. CASE /\ v # "refused" /\ SetCall(r, k, Sending)
           /\ IF v \in Allow THEN Consume(r) ELSE UNCHANGED record
  <2>1. Goes(r, k, Sending)
    BY <1>1, <1>3, <1>4, <1>9 DEF Goes, Allow
  <2> QED BY <1>4, <1>9, <2>1
<1> QED BY <1>5, <1>6, <1>7, <1>8, <1>9

-----------------------------------------------------------------------------
\* The step keeps what is known of the connections and the types.
LEMMA RunsInvStep == RunsInv /\ [RunsNext]_runVars => RunsInv'
<1> SUFFICES ASSUME RunsInv, [RunsNext]_runVars PROVE RunsInv'
  OBVIOUS
<1>1. ASSUME NEW r \in Run, Request(r) PROVE RunsInv'
  BY <1>1, ApprovalsTyped, ApprovalsInv DEF Request, Record, Route, Agent
<1>2. ASSUME NEW r \in Run, Forwarded(r) PROVE RunsInv'
  <2>1. record' \in [Run -> Record] /\ given' \in [Run -> Given]
    BY <1>2, ApprovalsTyped, ResolveTyped DEF Forwarded, Resolved, Given
  <2>2. agent' \in [Run -> Agent]
    BY <1>2, ApprovalsTyped DEF Forwarded, Agent
  <2> QED BY <1>2, <2>1, <2>2, ApprovalsTyped, ApprovalsInv DEF Forwarded
<1>3. ASSUME NEW r \in Run, Decide(r) PROVE RunsInv'
  <2>1. record' \in [Run -> Record] /\ given' \in [Run -> Given]
    BY <1>3, ResolveTyped DEF Decide, Resolved, Given
  <2> QED BY <1>3, <2>1, ApprovalsTyped, ApprovalsInv DEF Decide
<1>4. ASSUME NEW r \in Run, Expire(r) PROVE RunsInv'
  <2>1. record' \in [Run -> Record] /\ given' \in [Run -> Given]
    BY <1>4, ResolveTyped DEF Expire, Resolved, Given
  <2> QED BY <1>4, <2>1, ApprovalsTyped, ApprovalsInv DEF Expire
<1>5. ASSUME NEW r \in Run, TimePasses(r) PROVE RunsInv'
  BY <1>5, ApprovalsTyped, ApprovalsInv DEF TimePasses, Clock
<1>6. ASSUME NEW r \in Run, Forget(r) PROVE RunsInv'
  BY <1>6, ApprovalsTyped, ApprovalsInv DEF Forget, Record
<1>7. ASSUME NEW r \in Run, AwaitDecision(r) PROVE RunsInv'
  BY <1>7, ApprovalsTyped, ApprovalsInv DEF AwaitDecision, Agent
<1>8. ASSUME NEW r \in Run, Hear(r) PROVE RunsInv'
  <2>1. given[r] \in Agent
    BY <1>8, ApprovalsTyped DEF Hear, Given, Agent
  <2> QED BY <1>8, <2>1, ApprovalsTyped, ApprovalsInv DEF Hear
<1>9. ASSUME NEW r \in Run, Invoke(r) PROVE RunsInv'
  <2>1. CASE Wish(agent[r]) = "denied"
    BY <1>9, <2>1 DEF Invoke, RunsInv, RunsTypeOK
  <2>2. CASE Wish(agent[r]) # "denied"
    <3>1. Wish(agent[r]) \in Allow \cup {"unapproved"}
      BY <1>9, <2>2 DEF Invoke, Wish, Allow, RunsInv, RunsTypeOK
    <3> DEFINE c == Called(Wish(agent[r]))
    <3>2. 1 \in Call
      BY BoundsNat DEF Call
    <3>5. c \in CallRecord /\ c.at = "called"
      BY <3>1, CalledTyped
    <3>3. SetCall(r, 1, c)
      BY <1>9, <2>2 DEF Invoke
    <3> HIDE DEF c
    <3>4. agent' \in [Run -> Agent] /\ record' \in [Run -> Record]
      BY <1>9, <2>2 DEF Invoke, RunsInv, RunsTypeOK, Agent, Record
    <3> QED BY <1>9, <3>2, <3>3, <3>4, <3>5, SetCallInv DEF Invoke
  <2> QED BY <2>1, <2>2
<1>10. ASSUME NEW r \in Run, Finish(r) PROVE RunsInv'
  BY <1>10, ApprovalsTyped, ApprovalsInv DEF Finish, Agent
<1>11. ASSUME NEW r \in Run, NEW k \in Call, Send(r, k) PROVE RunsInv'
  <2>1. PICK c \in CallRecord : SetCall(r, k, c) /\ (Stops(r, k, c) \/ Goes(r, k, c))
    BY <1>11, SendEffects
  <2>2. c.at = "pending" => c.conn \in online
    BY <2>1 DEF Stops, Goes
  <2>3. Consume(r) \/ UNCHANGED record
    BY <2>1 DEF Stops, Goes
  <2>4. agent' \in [Run -> Agent] /\ record' \in [Run -> Record]
    BY <1>11, <2>3, ApprovalsTyped DEF Send, Consume, Record, Resolved
  <2> QED BY <1>11, <2>1, <2>2, <2>4, SetCallInv DEF Send
<1>12. ASSUME NEW r \in Run, NEW k \in Call, NotConnected(r, k) PROVE RunsInv'
  <2> DEFINE c == [calls[r][k] EXCEPT !.at = IF @ = "called" THEN "woken" ELSE "not-connected"]
  <2>1. c \in CallRecord /\ c.at # "pending"
    BY CallsTyped DEF CallRecord, Ended
  <2>2. SetCall(r, k, c)
    BY <1>12 DEF NotConnected
  <2>3. agent' \in [Run -> Agent] /\ record' \in [Run -> Record]
    BY <1>12 DEF NotConnected, RunsInv, RunsTypeOK, Agent, Record
  <2> HIDE DEF c
  <2> QED BY <1>12, <2>1, <2>2, <2>3, SetCallInv DEF NotConnected
<1>13. ASSUME NEW r \in Run, NEW k \in Call, InvokeTimeout(r, k) PROVE RunsInv'
  <2> DEFINE c == [calls[r][k] EXCEPT !.at = "timeout"]
  <2>1. c \in CallRecord /\ c.at # "pending"
    BY CallsTyped DEF CallRecord, Ended
  <2>2. SetCall(r, k, c)
    BY <1>13 DEF InvokeTimeout
  <2>3. agent' \in [Run -> Agent] /\ record' \in [Run -> Record]
    BY <1>13 DEF InvokeTimeout, RunsInv, RunsTypeOK, Agent, Record
  <2> HIDE DEF c
  <2> QED BY <1>13, <2>1, <2>2, <2>3, SetCallInv DEF InvokeTimeout
<1>14. ASSUME NEW r \in Run, NEW k \in Call, InvokeAgain(r, k) PROVE RunsInv'
  <2>1. PICK wish \in Allow : SetCall(r, k, Called(wish))
    BY <1>14 DEF InvokeAgain
  <2> DEFINE c == Called(wish)
  <2>2. c \in CallRecord /\ c.at # "pending"
    BY CalledTyped
  <2>3. SetCall(r, k, c)
    BY <2>1
  <2>4. agent' \in [Run -> Agent] /\ record' \in [Run -> Record]
    BY <1>14 DEF InvokeAgain, RunsInv, RunsTypeOK, Agent, Record
  <2> HIDE DEF c
  <2> QED BY <1>14, <2>2, <2>3, <2>4, SetCallInv DEF InvokeAgain
<1>15. ASSUME NEW r \in Run, NEW k \in Call, NodeRuns(r, k) PROVE RunsInv'
  <2> DEFINE c == [calls[r][k] EXCEPT !.node = "ran"]
  <2>1. c \in CallRecord /\ c.at = calls[r][k].at /\ c.conn = calls[r][k].conn
    BY CallsTyped DEF CallRecord, Ended
  <2>2. SetCall(r, k, c)
    BY <1>15 DEF NodeRuns
  <2>3. agent' \in [Run -> Agent] /\ record' \in [Run -> Record]
    BY <1>15 DEF NodeRuns, RunsInv, RunsTypeOK, Agent, Record
  <2> HIDE DEF c
  <2>4. c.at = "pending" => c.conn \in online
    BY <2>1 DEF RunsInv
  <2> QED BY <1>15, <2>1, <2>2, <2>3, <2>4, SetCallInv DEF NodeRuns
<1>16. ASSUME NEW r \in Run, NEW k \in Call, Result(r, k) PROVE RunsInv'
  <2> DEFINE c == [calls[r][k] EXCEPT !.node = "answered", !.at = IF @ = "pending" THEN "ok" ELSE @]
  <2>1. c \in CallRecord /\ c.at # "pending"
    BY CallsTyped, AnsweredTyped
  <2>2. SetCall(r, k, c)
    BY <1>16 DEF Result
  <2>3. agent' \in [Run -> Agent] /\ record' \in [Run -> Record]
    BY <1>16 DEF Result, RunsInv, RunsTypeOK, Agent, Record
  <2> HIDE DEF c
  <2> QED BY <1>16, <2>1, <2>2, <2>3, SetCallInv DEF Result
<1>17. CASE Register
  BY <1>17, BoundsNat DEF RunsInv, RunsTypeOK, Register
<1>18. ASSUME NEW c \in online, Unregister(c) PROVE RunsInv'
  <2>1. ASSUME NEW r \in Run, NEW k \in Call
        PROVE  calls'[r][k] \in CallRecord /\ calls'[r][k].at # "pending"
    <3>1. CASE calls[r][k].at = "pending"
      <4>1. calls'[r][k] = [calls[r][k] EXCEPT !.at = "disconnected"]
        BY <1>18, <3>1 DEF Unregister
      <4> QED BY <4>1, CallsTyped DEF CallRecord, Ended
    <3>2. CASE calls[r][k].at # "pending"
      <4>1. calls'[r][k] = calls[r][k]
        BY <1>18, <3>2 DEF Unregister
      <4> QED BY <4>1, <3>2, CallsTyped
    <3> QED BY <3>1, <3>2
  <2>2. calls' \in [Run -> [Call -> CallRecord]]
    BY <1>18, <2>1 DEF Unregister
  <2>3. RunsTypeOK'
    BY <1>18, <2>2 DEF Unregister, RunsInv, RunsTypeOK
  <2>4. session' = 0 /\ (opened' \in online' => displaced')
    BY <1>18 DEF Unregister, RunsInv, RunsTypeOK
  <2> QED BY <2>1, <2>3, <2>4 DEF RunsInv
<1>19. CASE UNCHANGED runVars
  BY <1>19 DEF RunsInv, RunsTypeOK, runVars
<1> QED
  BY <1>1, <1>2, <1>3, <1>4, <1>5, <1>6, <1>7, <1>8, <1>9, <1>10, <1>11, <1>12, <1>13,
     <1>14, <1>15, <1>16, <1>17, <1>18, <1>19 DEF RunsNext, Handle

-----------------------------------------------------------------------------
\* Nothing is lost of what is known about a run by a step that leaves its approval
\* alone and sends no further invocation with it.
LEMMA Kept ==
  ASSUME NEW q \in Run, RecordOK(q), ApprovedOK(q), Approved(q)' \subseteq Approved(q),
         record'[q] = record[q], given'[q] = given[q], agent'[q] = "start" => agent[q] = "start"
  PROVE  (RecordOK(q) /\ ApprovedOK(q))'
  BY DEF RecordOK, ApprovedOK

\* A changed invocation adds nothing to those that went out as approved, unless it is such a one.
LEMMA ApprovedChanges ==
  ASSUME NEW r \in Run, NEW k \in Call, NEW c \in CallRecord, RunsInv, SetCall(r, k, c), NEW q \in Run
  PROVE  /\ q # r => Approved(q)' = Approved(q)
         /\ Approved(q)' \subseteq Approved(q) \cup {k}
         /\ c.conn = 0 \/ c.as = "unapproved" => Approved(q)' \subseteq Approved(q)
         /\ c.conn = calls[r][k].conn /\ c.as = calls[r][k].as => Approved(q)' \subseteq Approved(q)
<1>1. /\ calls'[r][k] = c
      /\ \A s \in Run, j \in Call : <<s, j>> # <<r, k>> => calls'[s][j] = calls[s][j]
  BY SetCallChanges DEF RunsInv, RunsTypeOK
<1>2. q # r => \A j \in Call : calls'[q][j] = calls[q][j]
  BY <1>1
<1>3. \A j \in Call : j # k => calls'[q][j] = calls[q][j]
  BY <1>1
<1>4. q = r => calls'[q][k] = c
  BY <1>1
<1>5. q # r => Approved(q)' = Approved(q)
  BY <1>2 DEF Approved
<1>6. Approved(q)' \subseteq Approved(q) \cup {k}
  BY <1>3 DEF Approved
<1>7. ASSUME c.conn = 0 \/ c.as = "unapproved" PROVE Approved(q)' \subseteq Approved(q)
  BY <1>3, <1>4, <1>5, <1>7 DEF Approved
<1>8. ASSUME c.conn = calls[r][k].conn, c.as = calls[r][k].as PROVE Approved(q)' \subseteq Approved(q)
  BY <1>3, <1>4, <1>5, <1>8 DEF Approved
<1> QED BY <1>5, <1>6, <1>7, <1>8

\* The step keeps what is known of approvals.
LEMMA ApprovalStep ==
  ASSUME NodeIInv, [RunsNext]_runVars, NEW q \in Run
  PROVE  (RecordOK(q) /\ ApprovedOK(q))'
<1> USE DEF NodeIInv
<1>t. /\ record[q] \in Resolved \cup {"none", "pending", "gone"}
      /\ given[q] \in Allow \cup {"deny", "null", "nothing"}
      /\ record \in [Run -> Resolved \cup {"none", "pending", "gone"}]
      /\ given \in [Run -> Allow \cup {"deny", "null", "nothing"}]
      /\ DOMAIN agent = Run
  BY DEF RunsInv, RunsTypeOK
<1>1. ASSUME NEW r \in Run, Request(r) PROVE (RecordOK(q) /\ ApprovedOK(q))'
  <2>1. CASE q = r
    BY <1>1, <1>t, <2>1 DEF Request, RecordOK, ApprovedOK, Approved, Allow
  <2>2. CASE q # r
    BY <1>1, <1>t, <2>2, Kept DEF Request, Approved
  <2> QED BY <2>1, <2>2
<1>2. ASSUME NEW r \in Run, Forwarded(r) PROVE (RecordOK(q) /\ ApprovedOK(q))'
  <2>1. CASE q = r /\ record[q] = "pending"
    BY <1>2, <1>t, <2>1 DEF Forwarded, Resolve, RecordOK, ApprovedOK, Approved, Allow
  <2>2. CASE q # r \/ record[q] # "pending"
    BY <1>2, <1>t, <2>2, Kept DEF Forwarded, Resolve, Approved
  <2> QED BY <2>1, <2>2
<1>3. ASSUME NEW r \in Run, Decide(r) PROVE (RecordOK(q) /\ ApprovedOK(q))'
  <2>1. CASE q = r
    BY <1>3, <1>t, <2>1 DEF Decide, Resolve, RecordOK, ApprovedOK, Approved, Allow
  <2>2. CASE q # r
    BY <1>3, <1>t, <2>2, Kept DEF Decide, Resolve, Approved
  <2> QED BY <2>1, <2>2
<1>4. ASSUME NEW r \in Run, Expire(r) PROVE (RecordOK(q) /\ ApprovedOK(q))'
  <2>1. CASE q = r
    BY <1>4, <1>t, <2>1 DEF Expire, Resolve, RecordOK, ApprovedOK, Approved, Allow
  <2>2. CASE q # r
    BY <1>4, <1>t, <2>2, Kept DEF Expire, Resolve, Approved
  <2> QED BY <2>1, <2>2
<1>5. ASSUME NEW r \in Run, Forget(r) PROVE (RecordOK(q) /\ ApprovedOK(q))'
  <2>1. CASE q = r
    BY <1>5, <1>t, <2>1 DEF Forget, RecordOK, ApprovedOK, Approved, Allow, Resolved
  <2>2. CASE q # r
    BY <1>5, <1>t, <2>2, Kept DEF Forget, Approved
  <2> QED BY <2>1, <2>2
<1>6. ASSUME NEW r \in Run, TimePasses(r) \/ AwaitDecision(r) \/ Hear(r) \/ Finish(r)
      PROVE  (RecordOK(q) /\ ApprovedOK(q))'
  BY <1>6, <1>t, Kept DEF TimePasses, AwaitDecision, Hear, Finish, Approved, Allow
<1>7. ASSUME NEW r \in Run, Invoke(r) PROVE (RecordOK(q) /\ ApprovedOK(q))'
  <2>1. CASE Wish(agent[r]) = "denied"
    BY <1>7, <1>t, <2>1, Kept DEF Invoke, Approved
  <2>2. CASE Wish(agent[r]) # "denied"
    <3>1. Wish(agent[r]) \in Allow \cup {"unapproved"} /\ 1 \in Call
      BY <1>7, <2>2, BoundsNat DEF Invoke, Wish, Allow, RunsInv, RunsTypeOK, Call
    <3>2. SetCall(r, 1, Called(Wish(agent[r])))
      BY <1>7, <2>2 DEF Invoke
    <3>3. Approved(q)' \subseteq Approved(q)
      BY <3>1, <3>2, CalledTyped, ApprovedChanges
    <3> QED BY <1>7, <1>t, <2>2, <3>3, Kept DEF Invoke
  <2> QED BY <2>1, <2>2
<1>8. ASSUME NEW r \in Run, NEW k \in Call, InvokeAgain(r, k) PROVE (RecordOK(q) /\ ApprovedOK(q))'
  <2>1. PICK wish \in Allow : SetCall(r, k, Called(wish))
    BY <1>8 DEF InvokeAgain
  <2>2. Approved(q)' \subseteq Approved(q)
    BY <2>1, CalledTyped, ApprovedChanges
  <2> QED BY <1>8, <2>2, Kept DEF InvokeAgain
<1>9. ASSUME NEW r \in Run, NEW k \in Call, Send(r, k) PROVE (RecordOK(q) /\ ApprovedOK(q))'
  <2>1. PICK c \in CallRecord : SetCall(r, k, c) /\ (Stops(r, k, c) \/ Goes(r, k, c))
    BY <1>9, SendEffects
  <2>2. UNCHANGED <<given, agent>>
    BY <1>9 DEF Send
  <2>3. UNCHANGED record \/ (Consume(r) /\ record[r] \in Allow)
    BY <2>1 DEF Stops, Goes
  <2>4. CASE q # r
    <3>1. Approved(q)' = Approved(q) /\ record'[q] = record[q]
      BY <1>t, <2>1, <2>3, <2>4, ApprovedChanges DEF Consume
    <3> QED BY <2>2, <3>1, Kept
  <2>5. CASE q = r /\ Approved(q)' \subseteq Approved(q)
    <3>1. CASE UNCHANGED record
      BY <2>2, <2>5, <3>1, Kept
    <3>2. CASE Consume(r) /\ record[r] \in Allow
      BY <1>t, <2>2, <2>5, <3>2 DEF Consume, RecordOK, ApprovedOK, Allow
    <3> QED BY <2>3, <3>1, <3>2
  <2>6. CASE q = r /\ c.as = "fallback" /\ record[r] = "timeout" /\ UNCHANGED record
    <3>1. Approved(q)' \subseteq Approved(q) \cup {k}
      BY <2>1, ApprovedChanges
    <3> QED BY <2>2, <2>6, <3>1 DEF RecordOK, ApprovedOK, Allow
  <2>7. CASE q = r /\ record[r] \in Allow /\ Consume(r)
    <3>1. Approved(q)' \subseteq Approved(q) \cup {k}
      BY <2>1, ApprovedChanges
    <3>2. record'[q] = (IF record[q] = "allow-once" THEN "used" ELSE record[q])
      BY <1>t, <2>7 DEF Consume
    <3> QED BY <1>t, <2>2, <2>7, <3>1, <3>2 DEF RecordOK, ApprovedOK, Allow
  <2>8. CASE Stops(r, k, c) \/ c.as = "unapproved"
    <3>1. Approved(q)' \subseteq Approved(q)
      BY <2>1, <2>8, ApprovedChanges DEF Stops
    <3> QED BY <2>4, <2>5, <3>1
  <2>9. CASE Goes(r, k, c) /\ c.as # "unapproved"
    BY <2>4, <2>6, <2>7, <2>9 DEF Goes
  <2> QED BY <2>1, <2>8, <2>9
<1>10. ASSUME NEW r \in Run, NEW k \in Call, NotConnected(r, k) PROVE (RecordOK(q) /\ ApprovedOK(q))'
  <2> DEFINE c == [calls[r][k] EXCEPT !.at = IF @ = "called" THEN "woken" ELSE "not-connected"]
  <2>1. c \in CallRecord /\ c.conn = calls[r][k].conn /\ c.as = calls[r][k].as
    BY CallsTyped DEF CallRecord, Ended
  <2>2. SetCall(r, k, c)
    BY <1>10 DEF NotConnected
  <2> HIDE DEF c
  <2> QED BY <1>10, <2>1, <2>2, ApprovedChanges, Kept DEF NotConnected
<1>11. ASSUME NEW r \in Run, NEW k \in Call, InvokeTimeout(r, k) PROVE (RecordOK(q) /\ ApprovedOK(q))'
  <2> DEFINE c == [calls[r][k] EXCEPT !.at = "timeout"]
  <2>1. c \in CallRecord /\ c.conn = calls[r][k].conn /\ c.as = calls[r][k].as
    BY CallsTyped DEF CallRecord, Ended
  <2>2. SetCall(r, k, c)
    BY <1>11 DEF InvokeTimeout
  <2> HIDE DEF c
  <2> QED BY <1>11, <2>1, <2>2, ApprovedChanges, Kept DEF InvokeTimeout
<1>12. ASSUME NEW r \in Run, NEW k \in Call, NodeRuns(r, k) PROVE (RecordOK(q) /\ ApprovedOK(q))'
  <2> DEFINE c == [calls[r][k] EXCEPT !.node = "ran"]
  <2>1. c \in CallRecord /\ c.conn = calls[r][k].conn /\ c.as = calls[r][k].as
    BY CallsTyped DEF CallRecord
  <2>2. SetCall(r, k, c)
    BY <1>12 DEF NodeRuns
  <2> HIDE DEF c
  <2> QED BY <1>12, <2>1, <2>2, ApprovedChanges, Kept DEF NodeRuns
<1>13. ASSUME NEW r \in Run, NEW k \in Call, Result(r, k) PROVE (RecordOK(q) /\ ApprovedOK(q))'
  <2> DEFINE c == [calls[r][k] EXCEPT !.node = "answered", !.at = IF @ = "pending" THEN "ok" ELSE @]
  <2>1. c \in CallRecord /\ c.conn = calls[r][k].conn /\ c.as = calls[r][k].as
    BY CallsTyped, AnsweredTyped
  <2>2. SetCall(r, k, c)
    BY <1>13 DEF Result
  <2> HIDE DEF c
  <2> QED BY <1>13, <2>1, <2>2, ApprovedChanges, Kept DEF Result
<1>14. ASSUME NEW c \in online, Unregister(c) PROVE (RecordOK(q) /\ ApprovedOK(q))'
  <2>1. ASSUME NEW k \in Call
        PROVE  calls'[q][k].conn = calls[q][k].conn /\ calls'[q][k].as = calls[q][k].as
    <3>1. calls'[q][k] = calls[q][k] \/ calls'[q][k] = [calls[q][k] EXCEPT !.at = "disconnected"]
      BY <1>14 DEF Unregister
    <3> QED BY <3>1, CallsTyped DEF CallRecord
  <2>2. Approved(q)' = Approved(q)
    BY <2>1 DEF Approved
  <2> QED BY <1>14, <2>2, Kept DEF Unregister
<1>15. CASE Register
  BY <1>15, Kept DEF Register, Approved
<1>16. CASE UNCHANGED runVars
  BY <1>16, Kept DEF runVars, Approved
<1> QED
  BY <1>1, <1>2, <1>3, <1>4, <1>5, <1>6, <1>7, <1>8, <1>9, <1>10, <1>11, <1>12, <1>13,
     <1>14, <1>15, <1>16 DEF RunsNext, Handle

\* The invariant is inductive.
LEMMA NodeNextInv == NodeIInv /\ [RunsNext]_runVars => NodeIInv'
  BY RunsInvStep, ApprovalStep DEF NodeIInv

\* What was allowed once is counted.
LEMMA NodeInvImplies == NodeIInv => RunsInv /\ RunAsApproved
<1> SUFFICES ASSUME NodeIInv, NEW r \in Run, given[r] = "allow-once"
             PROVE  Cardinality(Approved(r)) <= 1
  BY DEF NodeIInv, ApprovedOK, RunAsApproved
<1>1. CASE Approved(r) = {}
  BY <1>1, FS_EmptySet
<1>2. CASE Approved(r) # {}
  <2>1. PICK k : Approved(r) = {k}
    BY <1>2 DEF NodeIInv, ApprovedOK
  <2>2. Cardinality(Approved(r)) = 1
    BY <2>1, FS_Singleton
  <2> QED BY <2>2
<1> QED BY <1>1, <1>2

-----------------------------------------------------------------------------
\* The registry's view of the node's connections is exact in every reachable state.
THEOREM ConnectionsExact == RunsSpec => []RunsInv
<1>1. RunsSpec => []NodeIInv
  BY NodeInitInv, NodeNextInv, PTL DEF RunsSpec
<1> QED BY <1>1, NodeInvImplies, PTL

\* No command reaches the node as approved without an answer that allows it, and
\* what was allowed once reaches it once, whatever calls race for the approval.
THEOREM AllowedOnceRunsOnce == RunsSpec => []RunAsApproved
<1>1. RunsSpec => []NodeIInv
  BY NodeInitInv, NodeNextInv, PTL DEF RunsSpec
<1> QED BY <1>1, NodeInvImplies, PTL

-----------------------------------------------------------------------------
(* The lifecycles of an account: ChannelSupervisor. *)

Starting == {"start", "restart", "heal"}

\* What callers and lifecycles are waiting for; a tracked lifecycle has not ended.
CallersInv ==
  /\ task # 0 => life[task].at \in {"run", "sleep"}
  /\ \A c \in Caller :
       /\ caller[c].at = "check" => caller[c].op \in Starting
       /\ caller[c].at = "again" => caller[c].op \in Restarts
       /\ caller[c].at = "hook" => plugin = "hooked"

\* As long as nothing is loose, a lifecycle that waits to be restarted is the tracked one, too.
TrackedInv == ~loose => \A i \in Lifecycle : life[i].at \in {"run", "sleep"} => i = task

\* A caller that will ask for a lifecycle, whatever the others do, and one whose stop is over.
OnItsWay(c) == caller[c].at \in {"again", "check"}
WillStart(c) == OnItsWay(c) \/ (caller[c].at = "drain" /\ caller[c].op \in Restarts)

\* With a plain plugin, as long as no two restarts have waited for one lifecycle: a stop drains the
\* tracked lifecycle, or nothing is tracked; and at most one caller is about to start the account,
\* which finds nothing tracked.
DrainsInv ==
  plugin = "plain" /\ ~joined =>
    /\ \A c \in Caller : caller[c].at = "drain" =>
         /\ caller[c].task # 0
         /\ life[caller[c].task].at = "done" => task = 0
         /\ life[caller[c].task].at # "done" => task = caller[c].task /\ life[task].aborted
    /\ \A c, d \in Caller : c # d /\ WillStart(c) => ~WillStart(d)
    /\ \A c \in Caller : OnItsWay(c) => task = 0
    /\ \A c, d \in Caller : caller[c].at = "check" => caller[d].at # "drain"

\* Nobody but c is about to start a plain plugin, nor drains it.
Alone(c) ==
  plugin = "plain" /\ ~joined =>
    /\ task = 0 /\ \A i \in Lifecycle : life[i].at # "check"
    /\ \A d \in Caller : caller[d].at # "drain" /\ (d # c => ~OnItsWay(d))

\* Likewise, an automatic restart is alone.
RestartsInv ==
  plugin = "plain" /\ ~joined =>
    \A i \in Lifecycle : life[i].at = "check" =>
      /\ task = 0
      /\ \A c \in Caller : caller[c].at # "drain" /\ ~OnItsWay(c)
      /\ \A j \in Lifecycle : life[j].at = "check" => i = j

\* While an account is stopped nobody starts it, and somebody waits for what still runs.
StoppedInv ==
  stopped =>
    /\ manual /\ ~loose
    /\ \A c \in Caller : caller[c].op \notin Starting
    /\ \A i \in Lifecycle : life[i].at # "check"
    /\ \A i \in Live : \E c \in Caller : caller[c].at \in {"hook", "drain"} /\ caller[c].task = i

ChannelIInv == ChannelInv /\ CallersInv /\ TrackedInv /\ DrainsInv /\ RestartsInv /\ StoppedInv

-----------------------------------------------------------------------------
LifeRecord == [at : {"done", "run", "sleep", "check"}, aborted : BOOLEAN, sick : BOOLEAN]
CallerRecord ==
  [op : {"none", "start", "stop", "restart", "logout", "heal"},
   at : {"idle", "check", "hook", "drain", "again", "logout", "sawSick", "sawDown"},
   task : Lifecycle \cup {0}]

\* The parts of the type invariant.
LEMMA Types ==
  ChannelsTypeOK <=>
    /\ plugin \in {"plain", "slow", "hooked"}
    /\ task \in Lifecycle \cup {0} /\ attempts \in 0..MAX_RESTART_ATTEMPTS + 1
    /\ life \in [Lifecycle -> LifeRecord] /\ caller \in [Caller -> CallerRecord]
    /\ configured \in {"yes", "no", "rejects"} /\ known \in BOOLEAN /\ manual \in BOOLEAN
    /\ running \in BOOLEAN /\ loose \in BOOLEAN /\ joined \in BOOLEAN
    /\ halted \in BOOLEAN /\ stopped \in BOOLEAN
  BY DEF ChannelsTypeOK, LifeRecord, CallerRecord

\* The same after a step.
LEMMA TypesNext ==
  ASSUME plugin' \in {"plain", "slow", "hooked"},
         task' \in Lifecycle \cup {0}, attempts' \in 0..MAX_RESTART_ATTEMPTS + 1,
         life' \in [Lifecycle -> LifeRecord], caller' \in [Caller -> CallerRecord],
         configured' \in {"yes", "no", "rejects"}, known' \in BOOLEAN, manual' \in BOOLEAN,
         running' \in BOOLEAN, loose' \in BOOLEAN, joined' \in BOOLEAN,
         halted' \in BOOLEAN, stopped' \in BOOLEAN
  PROVE  ChannelsTypeOK'
  BY DEF ChannelsTypeOK, LifeRecord, CallerRecord

\* The bounds are numbers, and a lifecycle is not 0.
LEMMA Numbers ==
  /\ MAX_RESTART_ATTEMPTS \in Nat /\ MaxLifecycles \in Nat \ {0}
  /\ 0 \notin Lifecycle /\ Lifecycle \subseteq Nat
  BY SupervisorInstance DEF SupervisorInstance, Lifecycle

\* The records that the actions write.
LEMMA NoneTyped == NoLife \in LifeRecord /\ NoRequest \in CallerRecord
  BY Numbers DEF NoLife, NoRequest, LifeRecord, CallerRecord

\* Initially there are no lifecycles.
LEMMA ChannelInitInv == ChannelsInit => ChannelIInv
<1> SUFFICES ASSUME ChannelsInit PROVE ChannelIInv
  OBVIOUS
<1>1. ChannelsTypeOK
  <2>1. task \in Lifecycle \cup {0} /\ attempts \in 0..MAX_RESTART_ATTEMPTS + 1
    BY Numbers DEF ChannelsInit
  <2>2. life \in [Lifecycle -> LifeRecord] /\ caller \in [Caller -> CallerRecord]
    BY NoneTyped DEF ChannelsInit
  <2>3. /\ plugin \in {"plain", "slow", "hooked"}
        /\ configured \in {"yes", "no", "rejects"} /\ known \in BOOLEAN /\ manual \in BOOLEAN
        /\ running \in BOOLEAN /\ loose \in BOOLEAN /\ joined \in BOOLEAN
        /\ halted \in BOOLEAN /\ stopped \in BOOLEAN
    BY DEF ChannelsInit
  <2> QED BY <2>1, <2>2, <2>3, Types
<1>2. /\ \A i \in Lifecycle : life[i].at = "done"
      /\ \A c \in Caller : caller[c].at = "idle"
      /\ task = 0 /\ ~loose /\ ~running /\ ~stopped
  BY DEF ChannelsInit, NoLife, NoRequest
<1> QED
  BY <1>1, <1>2 DEF ChannelIInv, ChannelInv, CallersInv, TrackedInv, DrainsInv, RestartsInv, StoppedInv,
                    WillStart, OnItsWay, Live

-----------------------------------------------------------------------------
(* What the steps are made of.                                             *)

\* The record of a new lifecycle.
LEMMA RunTyped ==
  LET new == [NoLife EXCEPT !.at = "run"]
  IN  new \in LifeRecord /\ new.at = "run"
  BY DEF NoLife, LifeRecord

\* A new lifecycle, or none when the account is not configured.
LEMMA LaunchEffect ==
  ASSUME NEW lives \in [Lifecycle -> LifeRecord], NEW t \in Lifecycle \cup {0},
         NEW automatic \in BOOLEAN, ChannelsTypeOK, Launch(lives, t, automatic)
  PROVE  /\ life' \in [Lifecycle -> LifeRecord] /\ task' \in Lifecycle \cup {0}
         /\ known' \in BOOLEAN /\ running' \in BOOLEAN /\ manual' \in BOOLEAN /\ loose' \in BOOLEAN
         /\ halted' \in BOOLEAN /\ attempts' \in 0..MAX_RESTART_ATTEMPTS + 1
         /\ \/ (running' => running) /\ task' = t /\ life' = lives /\ loose' = loose
            \/ /\ task' # 0 /\ life'[task'].at = "run" /\ loose' = (loose \/ t # 0)
               /\ \A j \in Lifecycle : j # task' => life'[j] = lives[j]
<1>1. CASE configured # "yes"
  <2>1. /\ task' = t /\ life' = lives /\ UNCHANGED <<manual, attempts, loose>>
        /\ halted' = (halted \/ (manual /\ ~automatic))
        /\ \/ known' = FALSE /\ running' = FALSE
           \/ known' = known /\ running' = running
    BY <1>1 DEF Launch
  <2>2. known' \in BOOLEAN /\ running' \in BOOLEAN /\ (running' => running)
    <3>1. known \in BOOLEAN /\ running \in BOOLEAN
      BY Types
    <3>2. CASE known' = FALSE /\ running' = FALSE
      BY <3>2
    <3>3. CASE known' = known /\ running' = running
      BY <3>1, <3>3
    <3> QED BY <2>1, <3>2, <3>3
  <2>3. halted' \in BOOLEAN
    BY <2>1
  <2> QED BY <2>1, <2>2, <2>3, Types
<1>2. CASE configured = "yes"
  <2>1. PICK i \in Unused(lives, t) :
               /\ task' = i
               /\ life' = [lives EXCEPT ![i] = [NoLife EXCEPT !.at = "run"]]
    BY <1>2 DEF Launch
  <2>2. /\ known' = TRUE /\ running' = TRUE /\ loose' = (loose \/ t # 0)
        /\ manual' = (manual /\ automatic) /\ halted' = (halted /\ automatic)
        /\ attempts' = IF automatic THEN attempts ELSE 0
    BY <1>2 DEF Launch
  <2>3. i \in Lifecycle /\ i # 0
    BY Numbers DEF Unused
  <2>4. attempts' \in 0..MAX_RESTART_ATTEMPTS + 1
    BY <2>2, Types, Numbers
  <2>5. manual' \in BOOLEAN /\ loose' \in BOOLEAN /\ halted' \in BOOLEAN
    BY <2>2
  <2>6. life' \in [Lifecycle -> LifeRecord] /\ life'[i].at = "run"
    BY <2>1, <2>3, RunTyped
  <2>7. \A j \in Lifecycle : j # i => life'[j] = lives[j]
    BY <2>1
  <2> QED BY <2>1, <2>2, <2>3, <2>4, <2>5, <2>6, <2>7
<1> QED BY <1>1, <1>2

\* A start keeps the invariant when what runs in lives is tracked by t, nobody else is
\* about to start an account of a plain plugin, and the account is not stopped.
LEMMA LaunchInv ==
  ASSUME ChannelIInv, NEW lives \in [Lifecycle -> LifeRecord], NEW t \in Lifecycle \cup {0},
         NEW automatic \in BOOLEAN, Launch(lives, t, automatic),
         \A j \in Lifecycle : lives[j].at # "done" => lives[j] = life[j],
         \A j \in Live : lives[j] = life[j],
         ~loose => \A j \in Lifecycle : lives[j].at \in {"run", "sleep"} => j = t,
         t # 0 => lives[t].at \in {"run", "sleep"},
         plugin = "plain" /\ ~joined =>
           /\ t = 0 /\ \A j \in Lifecycle : lives[j].at # "check"
           /\ \A c \in Caller : caller'[c].at \notin {"drain", "again", "check"},
         caller' \in [Caller -> CallerRecord],
         \A c \in Caller : caller'[c] = caller[c] \/ caller'[c] = NoRequest,
         UNCHANGED <<plugin, configured, joined>>, stopped' = FALSE
  PROVE  ChannelIInv'
<1> USE DEF ChannelIInv
<1>0. ChannelsTypeOK
  BY DEF ChannelInv
<1>1. /\ life' \in [Lifecycle -> LifeRecord] /\ task' \in Lifecycle \cup {0}
      /\ known' \in BOOLEAN /\ running' \in BOOLEAN /\ manual' \in BOOLEAN /\ loose' \in BOOLEAN
      /\ halted' \in BOOLEAN /\ attempts' \in 0..MAX_RESTART_ATTEMPTS + 1
      /\ \/ (running' => running) /\ task' = t /\ life' = lives /\ loose' = loose
         \/ /\ task' # 0 /\ life'[task'].at = "run" /\ loose' = (loose \/ t # 0)
            /\ \A j \in Lifecycle : j # task' => life'[j] = lives[j]
  BY <1>0, LaunchEffect
<1>2. ChannelsTypeOK'
  BY <1>0, <1>1, Types, TypesNext
<1>3. TrackedInv'
  <2> SUFFICES ASSUME ~loose', NEW j \in Lifecycle, life'[j].at \in {"run", "sleep"}
               PROVE  j = task'
    BY DEF TrackedInv
  <2>1. CASE task' = t /\ life' = lives /\ loose' = loose
    BY <2>1
  <2>2. CASE /\ loose' = (loose \/ t # 0)
             /\ \A k \in Lifecycle : k # task' => life'[k] = lives[k]
    BY <2>2, Numbers
  <2> QED BY <1>1, <2>1, <2>2
<1>4. CallersInv'
  <2>1. task' # 0 => life'[task'].at \in {"run", "sleep"}
    BY <1>1
  <2>2. \A c \in Caller :
          /\ caller'[c].at = "check" => caller'[c].op \in Starting
          /\ caller'[c].at = "again" => caller'[c].op \in Restarts
          /\ caller'[c].at = "hook" => plugin' = "hooked"
    BY DEF CallersInv, NoRequest
  <2> QED BY <2>1, <2>2 DEF CallersInv
<1>5. ChannelInv'
  <2>1. running' => Live' # {}
    <3>1. CASE (running' => running) /\ life' = lives
      BY <3>1 DEF ChannelInv, Live
    <3>2. CASE task' # 0 /\ life'[task'].at = "run"
      BY <1>1, <3>2 DEF Live
    <3> QED BY <1>1, <3>1, <3>2
  <2>2. plugin' = "plain" /\ ~joined' => ~loose'
    BY <1>1 DEF ChannelInv
  <2> QED BY <1>2, <1>3, <2>1, <2>2 DEF ChannelInv, TrackedInv, Live
<1>6. DrainsInv'
  BY DEF DrainsInv, WillStart, OnItsWay
<1>7. RestartsInv'
  <2> SUFFICES ASSUME plugin = "plain", ~joined, NEW i \in Lifecycle, life'[i].at = "check" PROVE FALSE
    BY DEF RestartsInv
  <2> QED BY <1>1
<1>8. StoppedInv'
  BY DEF StoppedInv
<1> QED BY <1>3, <1>4, <1>5, <1>6, <1>7, <1>8

\* A lifecycle that has ended.
LEMMA SettleInv ==
  ASSUME ChannelIInv, NEW i \in Lifecycle, life[i].at # "done", Settle(i),
         running' \in BOOLEAN, running' => running /\ life[i].at # "run",
         known' \in BOOLEAN, attempts' \in 0..MAX_RESTART_ATTEMPTS + 1,
         UNCHANGED <<plugin, configured, caller, manual, loose, joined, halted, stopped>>
  PROVE  ChannelIInv'
<1> USE DEF ChannelIInv
<1>0. ChannelsTypeOK
  BY DEF ChannelInv
<1>1. /\ life' \in [Lifecycle -> LifeRecord] /\ life'[i].at = "done"
      /\ \A j \in Lifecycle : j # i => life'[j] = life[j]
      /\ task' = IF task = i THEN 0 ELSE task
  <2>1. life' = [life EXCEPT ![i] = NoLife] /\ NoLife.at = "done"
    BY DEF Settle, NoLife
  <2> QED BY <1>0, <2>1, Types, NoneTyped DEF Settle
<1>2. ChannelsTypeOK'
  BY <1>0, <1>1, Types, TypesNext
<1>3. TrackedInv'
  BY <1>1 DEF TrackedInv
<1>4. CallersInv'
  <2>1. task' # 0 => life'[task'].at \in {"run", "sleep"}
    BY <1>0, <1>1, Types DEF CallersInv
  <2> QED BY <1>1, <2>1 DEF CallersInv
<1>5. ChannelInv'
  <2>1. running' => Live' # {}
    BY <1>1 DEF ChannelInv, Live
  <2>2. plugin' = "plain" /\ ~joined' => ~loose'
    BY DEF ChannelInv
  <2> QED BY <1>2, <1>3, <2>1, <2>2 DEF ChannelInv, TrackedInv, Live
<1>6. DrainsInv'
  <2> SUFFICES ASSUME plugin = "plain", ~joined, NEW c \in Caller, caller[c].at = "drain"
               PROVE  /\ caller[c].task # 0
                      /\ life'[caller[c].task].at = "done" => task' = 0
                      /\ life'[caller[c].task].at # "done" => task' = caller[c].task /\ life'[task'].aborted
    BY <1>1 DEF DrainsInv, WillStart, OnItsWay
  <2>1. caller[c].task # 0 /\ caller[c].task \in Lifecycle
    BY <1>0, Types DEF DrainsInv, CallerRecord
  <2>2. CASE caller[c].task = i
    <3>1. task = i
      BY <2>2 DEF DrainsInv
    <3> QED BY <1>1, <2>1, <2>2, <3>1
  <2>3. CASE caller[c].task # i
    <3>1. life'[caller[c].task] = life[caller[c].task]
      BY <1>1, <2>1, <2>3
    <3> QED BY <1>1, <2>1, <2>3, <3>1 DEF DrainsInv
  <2> QED BY <2>2, <2>3
<1>7. RestartsInv'
  BY <1>1 DEF RestartsInv, OnItsWay
<1>8. StoppedInv'
  BY <1>1 DEF StoppedInv, Live
<1> QED BY <1>3, <1>4, <1>5, <1>6, <1>7, <1>8

\* A lifecycle that goes on running, or waits for its restart.
LEMMA LifeInv ==
  ASSUME ChannelIInv, NEW i \in Lifecycle, NEW x \in LifeRecord,
         life[i].at \in {"run", "sleep"}, life' = [life EXCEPT ![i] = x],
         x.at \in {life[i].at, "sleep"}, x.aborted = life[i].aborted,
         running' \in BOOLEAN, running' => running /\ x.at = life[i].at,
         attempts' \in 0..MAX_RESTART_ATTEMPTS + 1,
         UNCHANGED <<plugin, configured, known, task, caller, manual, loose, joined, halted, stopped>>
  PROVE  ChannelIInv'
<1> USE DEF ChannelIInv
<1>0. ChannelsTypeOK
  BY DEF ChannelInv
<1>1. /\ life' \in [Lifecycle -> LifeRecord] /\ life'[i] = x
      /\ \A j \in Lifecycle : j # i => life'[j] = life[j]
  BY <1>0, Types
<1>2. ChannelsTypeOK'
  BY <1>0, <1>1, Types, TypesNext
<1>3. TrackedInv'
  BY <1>1 DEF TrackedInv
<1>4. CallersInv'
  BY <1>0, <1>1, Types DEF CallersInv
<1>5. ChannelInv'
  <2>1. running' => Live' # {}
    BY <1>1 DEF ChannelInv, Live
  <2>2. plugin' = "plain" /\ ~joined' => ~loose'
    BY DEF ChannelInv
  <2> QED BY <1>2, <1>3, <2>1, <2>2 DEF ChannelInv, TrackedInv, Live
<1>6. \A j \in Lifecycle : /\ (life'[j].at = "done") = (life[j].at = "done")
                          /\ (life'[j].at = "check") = (life[j].at = "check")
                          /\ life'[j].aborted = life[j].aborted
  BY <1>1
<1>7. DrainsInv'
  BY <1>0, <1>6, Types DEF DrainsInv, CallerRecord, WillStart, OnItsWay
<1>9. RestartsInv'
  BY <1>6 DEF RestartsInv, OnItsWay
<1>8. StoppedInv'
  BY <1>1 DEF StoppedInv, Live
<1> QED BY <1>3, <1>4, <1>5, <1>7, <1>8, <1>9

\* A caller that goes on, the lifecycles being left alone.
LEMMA CallerInv ==
  ASSUME ChannelIInv, NEW c \in Caller, NEW x \in CallerRecord, caller' = [caller EXCEPT ![c] = x],
         x.at = "check" => x.op \in Starting /\ Alone(c),
         x.at \notin {"again", "hook"},
         x.at = "drain" => plugin # "plain",
         stopped' \in BOOLEAN,
         stopped' => stopped /\ x.op \notin Starting,
         stopped' /\ caller[c].at \in {"hook", "drain"} => x.at = "drain" /\ x.task = caller[c].task,
         configured' \in {"yes", "no", "rejects"}, known' \in BOOLEAN, halted' \in BOOLEAN,
         running' \in BOOLEAN, running' => running,
         attempts' \in 0..MAX_RESTART_ATTEMPTS + 1,
         UNCHANGED <<plugin, task, life, manual, loose, joined>>
  PROVE  ChannelIInv'
<1> USE DEF ChannelIInv
<1>0. ChannelsTypeOK
  BY DEF ChannelInv
<1>1. /\ caller' \in [Caller -> CallerRecord] /\ caller'[c] = x
      /\ \A d \in Caller : d # c => caller'[d] = caller[d]
  BY <1>0, Types
<1>2. ChannelsTypeOK'
  BY <1>0, <1>1, Types, TypesNext
<1>3. TrackedInv' /\ ChannelInv'
  BY <1>2 DEF TrackedInv, ChannelInv, Live
<1>4. CallersInv'
  BY <1>1 DEF CallersInv
<1>5. DrainsInv'
  BY <1>1 DEF DrainsInv, WillStart, OnItsWay, Alone
<1>7. RestartsInv'
  BY <1>1 DEF RestartsInv, OnItsWay, Alone
<1>6. StoppedInv'
  <2> SUFFICES ASSUME stopped' PROVE StoppedInv'
    BY DEF StoppedInv
  <2>1. \A d \in Caller : caller'[d].op \notin Starting
    BY <1>1 DEF StoppedInv
  <2>2. \A i \in Lifecycle, d \in Caller :
          caller[d].at \in {"hook", "drain"} /\ caller[d].task = i
             => caller'[d].at \in {"hook", "drain"} /\ caller'[d].task = i
    BY <1>1
  <2> QED BY <2>1, <2>2 DEF StoppedInv, Live
<1> QED BY <1>3, <1>4, <1>5, <1>6, <1>7

\* What a caller goes on with after its stop.
LEMMA AfterTyped ==
  ASSUME NEW op \in {"none", "start", "stop", "restart", "logout", "heal"}
  PROVE  /\ After(op) \in CallerRecord
         /\ After(op).at \in {"idle", "again", "logout"}
         /\ After(op).at = "again" => After(op).op \in Restarts
         /\ op \notin Starting => After(op).op \notin Starting
         /\ After(op).at = "again" <=> op \in Restarts
  BY Numbers DEF After, Restarts, NoRequest, CallerRecord, Starting

\* The call of startChannel.  Nobody else with a plain plugin is on the way to one, and who still
\* drains a lifecycle waits for its end.
LEMMA StartInv ==
  ASSUME ChannelIInv, NEW c \in Caller, NEW op \in Starting, NEW n \in 0..MAX_RESTART_ATTEMPTS + 1,
         Start(c, op, n), stopped' = FALSE, UNCHANGED <<plugin, configured, joined>>,
         \A d \in Caller : caller[d].at = "drain" => ~Resuming(d),
         caller[c].at \notin {"hook", "drain"},
         plugin = "plain" /\ ~joined =>
           /\ \A i \in Lifecycle : life[i].at # "check"
           /\ \A d \in Caller : d # c => ~OnItsWay(d)
  PROVE  ChannelIInv'
<1>0. ChannelsTypeOK
  BY DEF ChannelIInv, ChannelInv
<1> DEFINE x == IF task # 0 THEN NoRequest ELSE [NoRequest EXCEPT !.op = op, !.at = "check"]
<1>1. /\ x \in CallerRecord
      /\ x.at = "check" => x.op \in Starting /\ task = 0
      /\ x.at \notin {"again", "hook", "drain"}
  BY Numbers DEF NoRequest, CallerRecord, Starting
<1>2. /\ caller' = [caller EXCEPT ![c] = x]
      /\ attempts' \in 0..MAX_RESTART_ATTEMPTS + 1
      /\ UNCHANGED <<known, task, life, manual, running, loose, halted>>
  BY DEF Start
<1>3. /\ configured' \in {"yes", "no", "rejects"} /\ known' \in BOOLEAN /\ running' \in BOOLEAN
      /\ halted' \in BOOLEAN /\ (running' => running)
  BY <1>0, <1>2, Types
<1>4. ASSUME plugin = "plain", ~joined, task = 0, NEW d \in Caller, caller[d].at = "drain" PROVE FALSE
  <2>1. life[caller[d].task].at # "done"
    BY <1>4 DEF Resuming
  <2> QED BY <1>4, <2>1 DEF ChannelIInv, DrainsInv
<1>5. task = 0 => Alone(c)
  BY <1>4 DEF Alone
<1> HIDE DEF x
<1> QED BY <1>1, <1>2, <1>3, <1>5, CallerInv

\* The call of stopChannel.
LEMMA StopInv ==
  ASSUME ChannelIInv, NEW c \in Caller, NEW op \in {"stop", "restart", "logout", "heal"}, Stop(c, op),
         caller[c].at \notin {"hook", "drain"}, stopped' \in BOOLEAN,
         stopped' => /\ manual' /\ op \notin Starting
                     /\ \A d \in Caller \ {c} : caller[d].op \notin Starting
                     /\ \A i \in Lifecycle : life[i].at # "check",
         plugin = "plain" => Quiet,
         stopped' => ~loose,
         UNCHANGED <<plugin, configured, known, task, attempts, running, loose>>
  PROVE  ChannelIInv'
<1> USE DEF ChannelIInv
<1>0. ChannelsTypeOK
  BY DEF ChannelInv
<1> DEFINE x == IF task = 0 /\ plugin # "hooked" THEN After(op)
                ELSE [op |-> op, at |-> IF plugin = "hooked" THEN "hook" ELSE "drain", task |-> task]
<1>1. /\ x \in CallerRecord
      /\ x.at = "hook" => plugin = "hooked"
      /\ x.at # "check"
      /\ x.at = "again" => x.op \in Restarts /\ op \in Restarts /\ task = 0
      /\ op \notin Starting => x.op \notin Starting
      /\ x.at = "drain" => x.task = task /\ x.op = op
      /\ x.at = "drain" /\ plugin = "plain" => task # 0
      /\ task # 0 => x.at \in {"hook", "drain"} /\ x.task = task
  <2>1. CASE task = 0 /\ plugin # "hooked"
    BY <2>1, AfterTyped
  <2>2. CASE ~(task = 0 /\ plugin # "hooked")
    BY <1>0, <2>2, Types DEF CallerRecord, Starting
  <2> QED BY <2>1, <2>2
<1>2. caller' = [caller EXCEPT ![c] = x]
  BY DEF Stop
<1>3. /\ caller' \in [Caller -> CallerRecord] /\ caller'[c] = x
      /\ \A d \in Caller : d # c => caller'[d] = caller[d]
  BY <1>0, <1>1, <1>2, Types
<1> HIDE DEF x
<1>4. /\ life' \in [Lifecycle -> LifeRecord] /\ manual' \in BOOLEAN
      /\ halted' \in BOOLEAN /\ joined' \in BOOLEAN /\ (joined => joined')
      /\ \A i \in Lifecycle : /\ life'[i].at = life[i].at
                              /\ life[i].aborted => life'[i].aborted
      /\ task # 0 => life'[task].aborted
  <2>1. CASE task = 0 /\ plugin # "hooked"
    BY <1>0, <2>1, Types DEF Stop
  <2>2. CASE ~(task = 0 /\ plugin # "hooked")
    <3>1. /\ life' = [i \in Lifecycle |-> IF i = task THEN [life[i] EXCEPT !.aborted = TRUE] ELSE life[i]]
          /\ manual' = TRUE /\ halted' = (halted \/ op \notin Restarts)
          /\ joined' = (joined \/ (plugin = "plain" /\ op \in Restarts /\ \E d \in Caller :
               caller[d].at = "drain" /\ caller[d].op \in Restarts))
      BY <2>2 DEF Stop
    <3>2. \A r \in LifeRecord : LET s == [r EXCEPT !.aborted = TRUE]
                                IN  s \in LifeRecord /\ s.at = r.at /\ s.aborted
      BY DEF LifeRecord
    <3>3. task # 0 => task \in Lifecycle
      BY <1>0, Types
    <3>4. \A i \in Lifecycle : life[i] \in LifeRecord
      BY <1>0, Types
    <3>5. /\ manual' \in BOOLEAN /\ halted' \in BOOLEAN
          /\ joined' \in BOOLEAN /\ (joined => joined')
      BY <1>0, <3>1, Types
    <3>6. /\ life' \in [Lifecycle -> LifeRecord]
          /\ \A i \in Lifecycle : /\ life'[i].at = life[i].at
                                  /\ life[i].aborted => life'[i].aborted
          /\ task # 0 => life'[task].aborted
      BY <3>1, <3>2, <3>3, <3>4
    <3> QED BY <3>5, <3>6
  <2> QED BY <2>1, <2>2
<1>5. ChannelsTypeOK'
  BY <1>0, <1>3, <1>4, Types, TypesNext
<1>6. TrackedInv'
  BY <1>4 DEF TrackedInv
<1>7. Live' = Live
  BY <1>4 DEF Live
<1>8. ChannelInv'
  BY <1>4, <1>5, <1>7 DEF ChannelInv
<1>9. CallersInv'
  <2>1. task' # 0 => life'[task'].at \in {"run", "sleep"}
    BY <1>0, <1>4, Types DEF CallersInv
  <2> QED BY <1>1, <1>3, <2>1 DEF CallersInv
<1>10. ASSUME plugin = "plain", ~joined'
       PROVE  /\ ~joined
              /\ \A d \in Caller : d # c => caller'[d] = caller[d] /\ ~OnItsWay(d)
              /\ \A i \in Lifecycle : life'[i].at # "check"
              /\ \A d \in Caller : caller[d].at = "drain" => task = caller[d].task /\ task # 0
  <2>1. Quiet /\ ~joined
    BY <1>4, <1>10
  <2>2. /\ \A d \in Caller : ~OnItsWay(d) /\ ~Resuming(d)
        /\ \A i \in Lifecycle : life[i].at # "check"
    BY <1>10, <2>1 DEF Quiet, Resuming, OnItsWay, Prompt
  <2>3. \A d \in Caller : caller[d].at = "drain" => task = caller[d].task /\ task # 0
    BY <1>10, <2>1, <2>2 DEF DrainsInv, Resuming
  <2> QED BY <1>3, <1>4, <2>1, <2>2, <2>3
<1>11. DrainsInv'
  <2> SUFFICES ASSUME plugin = "plain", ~joined' PROVE DrainsInv'
    BY DEF DrainsInv
  <2>1. ASSUME NEW d \in Caller, caller'[d].at = "drain"
        PROVE  /\ caller'[d].task # 0
               /\ life'[caller'[d].task].at = "done" => task = 0
               /\ life'[caller'[d].task].at # "done" => task = caller'[d].task /\ life'[task].aborted
    <3>1. caller'[d].task = task /\ task # 0 /\ task \in Lifecycle
      BY <1>0, <1>1, <1>3, <1>10, <2>1, Types
    <3>2. life'[task].at # "done" /\ life'[task].aborted
      BY <1>4, <3>1 DEF CallersInv
    <3> QED BY <3>1, <3>2
  <2>2. ASSUME NEW d \in Caller, d # c, WillStart(d)', WillStart(c)' PROVE FALSE
    <3>1. caller[d].at = "drain" /\ caller[d].op \in Restarts /\ task # 0
      BY <1>10, <2>2 DEF WillStart, OnItsWay
    <3>2. caller'[c].at = "drain" /\ op \in Restarts
      BY <1>1, <1>3, <2>2, <3>1 DEF WillStart, OnItsWay
    <3>3. joined'
      BY <3>1, <3>2 DEF Stop
    <3> QED BY <3>3
  <2>3. \A d, e \in Caller : d # e /\ WillStart(d)' => ~WillStart(e)'
    <3>1. \A d \in Caller : d # c /\ WillStart(d)' => WillStart(d)
      BY <1>10 DEF WillStart, OnItsWay
    <3>2. \A d, e \in Caller : d # e /\ WillStart(d) => ~WillStart(e)
      BY <1>10 DEF DrainsInv
    <3> QED BY <2>2, <3>1, <3>2
  <2>4. \A d \in Caller : OnItsWay(d)' => task = 0
    BY <1>1, <1>3, <1>10 DEF OnItsWay
  <2>5. \A d \in Caller : caller'[d].at # "check"
    BY <1>1, <1>3, <1>10 DEF OnItsWay
  <2> QED BY <2>1, <2>3, <2>4, <2>5 DEF DrainsInv
<1>12. RestartsInv'
  BY <1>10 DEF RestartsInv
<1>13. StoppedInv'
  <2> SUFFICES ASSUME stopped' PROVE StoppedInv'
    BY DEF StoppedInv
  <2>1. \A d \in Caller : caller'[d].op \notin Starting
    BY <1>1, <1>3
  <2>2. \A i \in Lifecycle : life'[i].at # "check"
    BY <1>4
  <2>3. \A i \in Live : caller'[c].at \in {"hook", "drain"} /\ caller'[c].task = i
    BY <1>1, <1>3, Numbers DEF ChannelInv, Live
  <2> QED BY <1>7, <2>1, <2>2, <2>3 DEF StoppedInv
<1> QED BY <1>6, <1>8, <1>9, <1>11, <1>12, <1>13

\* The end of stopChannel.
LEMMA DrainedInv == ASSUME ChannelIInv, NEW c \in Caller, Drained(c) PROVE ChannelIInv'
<1> USE DEF ChannelIInv
<1>0. ChannelsTypeOK
  BY DEF ChannelInv
<1> DEFINE x == After(caller[c].op)
<1>1. /\ x \in CallerRecord /\ x.at \in {"idle", "again", "logout"}
      /\ x.at = "again" => x.op \in Restarts /\ caller[c].op \in Restarts
      /\ caller[c].op \notin Starting => x.op \notin Starting
      /\ caller[c].task \in Lifecycle \cup {0}
  <2>1. caller[c] \in CallerRecord
    BY <1>0, Types
  <2> QED BY <2>1, AfterTyped DEF CallerRecord
<1>2. /\ caller' = [caller EXCEPT ![c] = x] /\ task' = 0 /\ running' = FALSE
      /\ loose' = (loose \/ task \notin {0, caller[c].task})
      /\ stopped' = (stopped /\ ~loose')
      /\ UNCHANGED <<plugin, configured, known, life, manual, attempts, joined, halted>>
      /\ caller[c].at = "drain"
      /\ \A i \in Lifecycle : life[i].at # "done" => caller[c].task # i
  BY DEF Drained, Resuming
<1> HIDE DEF x
<1>3. /\ caller' \in [Caller -> CallerRecord] /\ caller'[c] = x
      /\ \A d \in Caller : d # c => caller'[d] = caller[d]
  BY <1>0, <1>1, <1>2, Types
<1>4. ChannelsTypeOK'
  BY <1>0, <1>2, <1>3, Types, TypesNext
<1>5. ~loose' => \A i \in Lifecycle : life[i].at \notin {"run", "sleep"}
  BY <1>2, Numbers DEF TrackedInv
<1>6. TrackedInv'
  BY <1>2, <1>5 DEF TrackedInv
<1>7. plugin = "plain" /\ ~joined => task = 0 /\ \A d \in Caller : caller[d].at # "check"
  BY <1>1, <1>2 DEF DrainsInv
<1>8. ChannelInv'
  BY <1>2, <1>4, <1>5, <1>7 DEF ChannelInv, Live
<1>9. CallersInv'
  BY <1>1, <1>2, <1>3 DEF CallersInv
<1>10. DrainsInv'
  BY <1>1, <1>2, <1>3, <1>7 DEF DrainsInv, WillStart, OnItsWay
<1>11. RestartsInv'
  BY <1>2 DEF RestartsInv
<1>12. StoppedInv'
  BY <1>1, <1>2, <1>3, <1>5 DEF StoppedInv, Live
<1> QED BY <1>6, <1>8, <1>9, <1>10, <1>11, <1>12

-----------------------------------------------------------------------------
(* The steps of a lifecycle.                                               *)

\* The plugin ends.
LEMMA ExitInv == ASSUME ChannelIInv, NEW i \in Lifecycle, Exit(i) PROVE ChannelIInv'
<1>0. ChannelsTypeOK /\ life[i].at = "run" /\ life[i] \in LifeRecord
  BY Types DEF ChannelIInv, ChannelInv, Exit, Live
<1>1. /\ attempts' \in 0..MAX_RESTART_ATTEMPTS + 1 /\ running' = FALSE
      /\ UNCHANGED <<plugin, configured, known, caller, manual, loose, joined, halted, stopped>>
  BY <1>0, Types, Numbers DEF Exit
<1>2. CASE Settle(i)
  BY <1>0, <1>1, <1>2, SettleInv, Types
<1>3. CASE ~Settle(i)
  <2> DEFINE x == [life[i] EXCEPT !.at = "sleep", !.sick = FALSE]
  <2>1. life' = [life EXCEPT ![i] = x] /\ UNCHANGED task
    BY <1>3 DEF Exit
  <2>2. x \in LifeRecord /\ x.at = "sleep" /\ x.aborted = life[i].aborted
    BY <1>0 DEF LifeRecord
  <2> HIDE DEF x
  <2> QED BY <1>0, <1>1, <2>1, <2>2, LifeInv
<1> QED BY <1>2, <1>3

\* The connection of a lifecycle stops delivering.
LEMMA SickenInv == ASSUME ChannelIInv, NEW i \in Lifecycle, Sicken(i) PROVE ChannelIInv'
<1>0. ChannelsTypeOK /\ life[i].at = "run" /\ life[i] \in LifeRecord
  BY Types DEF ChannelIInv, ChannelInv, Sicken, Live
<1> DEFINE x == [life[i] EXCEPT !.sick = TRUE]
<1>1. life' = [life EXCEPT ![i] = x]
  BY DEF Sicken
<1>2. x \in LifeRecord /\ x.at = "run" /\ x.aborted = life[i].aborted
  BY <1>0 DEF LifeRecord
<1>3. /\ UNCHANGED <<plugin, configured, known, task, caller, manual, attempts, running, loose, joined, halted, stopped>>
      /\ running \in BOOLEAN /\ attempts \in 0..MAX_RESTART_ATTEMPTS + 1
  BY <1>0, Types DEF Sicken
<1> HIDE DEF x
<1> QED BY <1>0, <1>1, <1>2, <1>3, LifeInv

\* The delay of an automatic restart is over.
LEMMA WakeInv == ASSUME ChannelIInv, NEW i \in Lifecycle, Wake(i) PROVE ChannelIInv'
<1> USE DEF ChannelIInv
<1>0. /\ ChannelsTypeOK /\ life[i].at = "sleep" /\ ~life[i].aborted /\ Quiet
      /\ UNCHANGED <<plugin, configured, known, caller, manual, attempts, running, loose, joined, halted,
                     stopped>>
  BY DEF ChannelInv, Wake
<1>1. CASE manual \/ task \notin {0, i}
  <2>1. Settle(i)
    BY <1>1 DEF Wake
  <2> QED BY <1>0, <2>1, SettleInv, Types
<1>2. CASE ~(manual \/ task \notin {0, i})
  <2>1. task' = 0 /\ life' = [life EXCEPT ![i] = [life[i] EXCEPT !.at = "check"]]
    BY <1>2 DEF Wake
  <2>2. ~stopped
    BY <1>2 DEF StoppedInv
  <2>3. ~loose => \A j \in Lifecycle : life[j].at \in {"run", "sleep"} => j = i
    BY <1>0, <1>2, Numbers DEF TrackedInv
  <2>4. \A x \in LifeRecord : LET y == [x EXCEPT !.at = "check"]
                              IN  y \in LifeRecord /\ y.at = "check"
    BY DEF LifeRecord
  <2>5. /\ life' \in [Lifecycle -> LifeRecord] /\ life'[i].at = "check"
        /\ \A j \in Lifecycle : j # i => life'[j] = life[j]
    <3>1. life \in [Lifecycle -> LifeRecord] /\ life[i] \in LifeRecord
      BY <1>0, Types
    <3> QED BY <2>1, <2>4, <3>1
  <2>6. ChannelsTypeOK'
    BY <1>0, <2>1, <2>5, Types, TypesNext
  <2>7. Live' = Live
    BY <1>0, <2>5 DEF Live
  <2>8. TrackedInv' /\ CallersInv'
    BY <1>0, <2>1, <2>3, <2>5 DEF TrackedInv, CallersInv
  <2>9. ChannelInv'
    BY <1>0, <2>1, <2>6, <2>7, <2>8, <2>5 DEF ChannelInv, TrackedInv, Live
  <2>10. ASSUME plugin = "plain", ~joined
         PROVE  /\ \A c \in Caller : caller[c].at # "drain" /\ ~OnItsWay(c)
                /\ \A j \in Lifecycle : life[j].at # "check"
    <3>1. /\ \A c \in Caller : ~OnItsWay(c) /\ ~Resuming(c)
          /\ \A j \in Lifecycle : life[j].at # "check"
      BY <1>0, <2>10 DEF Quiet, Resuming, OnItsWay, Prompt
    <3>2. ASSUME NEW c \in Caller, caller[c].at = "drain" PROVE FALSE
      <4>1. task # 0 /\ life[task].aborted
        BY <2>10, <3>1, <3>2 DEF DrainsInv, Resuming
      <4> QED BY <1>0, <1>2, <4>1
    <3> QED BY <3>1, <3>2
  <2>11. DrainsInv'
    BY <1>0, <2>10 DEF DrainsInv, WillStart, OnItsWay
  <2>12. RestartsInv'
    BY <1>0, <2>1, <2>5, <2>10 DEF RestartsInv, OnItsWay
  <2>13. StoppedInv'
    BY <1>0, <2>2 DEF StoppedInv
  <2> QED BY <2>8, <2>9, <2>11, <2>12, <2>13
<1> QED BY <1>1, <1>2

\* An automatic restart after its isConfigured.
LEMMA RestartedInv == ASSUME ChannelIInv, NEW i \in Lifecycle, Restarted(i) PROVE ChannelIInv'
<1>0. ChannelsTypeOK /\ life[i].at = "check" /\ ~stopped
  BY DEF ChannelIInv, ChannelInv, Restarted, StoppedInv
<1> DEFINE lives == [life EXCEPT ![i] = NoLife]
<1>1. Launch(lives, task, TRUE) /\ UNCHANGED <<plugin, configured, caller, joined, stopped>>
  BY DEF Restarted
<1>2. /\ lives \in [Lifecycle -> LifeRecord] /\ lives[i] = NoLife
      /\ \A j \in Lifecycle : j # i => lives[j] = life[j]
  BY <1>0, Types, NoneTyped
<1>3. task \in Lifecycle \cup {0} /\ caller \in [Caller -> CallerRecord] /\ stopped' = FALSE
  BY <1>0, <1>1, Types
<1> HIDE DEF lives
<1>4. /\ \A j \in Lifecycle : lives[j].at # "done" => lives[j] = life[j]
      /\ \A j \in Live : lives[j] = life[j]
      /\ ~loose => \A j \in Lifecycle : lives[j].at \in {"run", "sleep"} => j = task
      /\ task # 0 => lives[task].at \in {"run", "sleep"}
  BY <1>0, <1>2, <1>3 DEF NoLife, ChannelIInv, TrackedInv, CallersInv, Live
<1>5. plugin = "plain" /\ ~joined =>
        /\ task = 0 /\ \A j \in Lifecycle : lives[j].at # "check"
        /\ \A c \in Caller : caller'[c].at \notin {"drain", "again", "check"}
  BY <1>0, <1>1, <1>2 DEF ChannelIInv, RestartsInv, OnItsWay, NoLife
<1> QED BY <1>0, <1>1, <1>2, <1>3, <1>4, <1>5, LaunchInv

-----------------------------------------------------------------------------
(* The steps of the callers and of the monitor.                            *)

\* The answer of isConfigured.
LEMMA CheckedInv == ASSUME ChannelIInv, NEW c \in Caller, Checked(c) PROVE ChannelIInv'
<1>0. ChannelsTypeOK /\ ~stopped
  BY DEF ChannelIInv, ChannelInv, Checked, CallersInv, StoppedInv
<1>1. /\ Launch(life, task, FALSE) /\ caller' = [caller EXCEPT ![c] = NoRequest]
      /\ UNCHANGED <<plugin, configured, joined, stopped>> /\ caller[c].at = "check"
  BY DEF Checked
<1>2. /\ caller' \in [Caller -> CallerRecord] /\ stopped' = FALSE
      /\ caller'[c] = NoRequest /\ \A d \in Caller : d # c => caller'[d] = caller[d]
      /\ life \in [Lifecycle -> LifeRecord] /\ task \in Lifecycle \cup {0}
  BY <1>0, <1>1, Types, NoneTyped
<1>3. /\ ~loose => \A j \in Lifecycle : life[j].at \in {"run", "sleep"} => j = task
      /\ task # 0 => life[task].at \in {"run", "sleep"}
  BY DEF ChannelIInv, TrackedInv, CallersInv
<1>4. ASSUME plugin = "plain", ~joined
      PROVE  /\ task = 0 /\ \A j \in Lifecycle : life[j].at # "check"
             /\ \A d \in Caller : caller'[d].at \notin {"drain", "again", "check"}
  <2>1. OnItsWay(c) /\ WillStart(c)
    BY <1>1 DEF OnItsWay, WillStart
  <2>2. task = 0 /\ \A j \in Lifecycle : life[j].at # "check"
    BY <1>4, <2>1 DEF ChannelIInv, DrainsInv, RestartsInv
  <2>3. \A d \in Caller : d # c => caller[d].at \notin {"drain", "again", "check"}
    BY <1>1, <1>4, <2>1 DEF ChannelIInv, DrainsInv, WillStart, OnItsWay
  <2> QED BY <1>2, <2>2, <2>3 DEF NoRequest
<1>5. \A j \in Live : life[j] = life[j]
  OBVIOUS
<1> QED BY <1>0, <1>1, <1>2, <1>3, <1>4, <1>5, LaunchInv

\* A client's startChannel.
LEMMA AskStartInv == ASSUME ChannelIInv, NEW c \in Caller, AskStart(c) PROVE ChannelIInv'
<1>1. /\ Start(c, "start", attempts) /\ stopped' = FALSE /\ UNCHANGED <<plugin, configured, joined>>
      /\ Quiet /\ caller[c].at = "idle"
  BY DEF AskStart, NoRequest
<1>2. attempts \in 0..MAX_RESTART_ATTEMPTS + 1
  BY Types DEF ChannelIInv, ChannelInv
<1>3. /\ \A d \in Caller : ~Resuming(d)
      /\ plugin = "plain" => /\ \A i \in Lifecycle : life[i].at # "check"
                             /\ \A d \in Caller : ~OnItsWay(d)
  BY <1>1 DEF Quiet, Resuming, OnItsWay, Prompt
<1> QED BY <1>1, <1>2, <1>3, StartInv DEF Starting

\* A client's stopChannel.
LEMMA AskStopInv == ASSUME ChannelIInv, NEW c \in Caller, AskStop(c) PROVE ChannelIInv'
<1>1. PICK op \in {"stop", "restart", "logout"} :
           /\ Stop(c, op)
           /\ stopped' = (op # "restart" /\ (stopped \/ (manual' /\ ~loose /\ NoOtherStart(c))))
  BY DEF AskStop
<1>2. /\ caller[c].at \notin {"hook", "drain"} /\ Quiet
      /\ UNCHANGED <<plugin, configured, known, task, attempts, running, loose>>
  BY DEF AskStop, NoRequest
<1>3. manual => manual'
  BY <1>1 DEF Stop
<1>4. stopped' => /\ manual' /\ op \notin Starting
                  /\ \A d \in Caller \ {c} : caller[d].op \notin Starting
                  /\ \A i \in Lifecycle : life[i].at # "check"
  BY <1>1, <1>3 DEF ChannelIInv, StoppedInv, NoOtherStart, Starting, Restarts
<1>5. stopped' \in BOOLEAN /\ (stopped' => ~loose)
  BY <1>1 DEF ChannelIInv, StoppedInv
<1> QED BY <1>1, <1>2, <1>4, <1>5, StopInv

\* The hook of the plugin returns.
LEMMA HookDoneInv == ASSUME ChannelIInv, NEW c \in Caller, HookDone(c) PROVE ChannelIInv'
<1>0. ChannelsTypeOK /\ caller[c].at = "hook" /\ plugin = "hooked"
  BY DEF ChannelIInv, ChannelInv, HookDone, CallersInv
<1> DEFINE x == [caller[c] EXCEPT !.at = "drain"]
<1>1. /\ caller' = [caller EXCEPT ![c] = x]
      /\ UNCHANGED <<plugin, configured, known, task, life, manual, attempts, running, loose, joined, halted, stopped>>
  BY DEF HookDone
<1>2. caller[c] \in CallerRecord
  BY <1>0, Types
<1>3. /\ x \in CallerRecord /\ x.at = "drain"
      /\ x.op = caller[c].op /\ x.task = caller[c].task
  BY <1>2 DEF CallerRecord
<1>4. stopped => x.op \notin Starting
  BY <1>3 DEF ChannelIInv, StoppedInv
<1>5. /\ configured \in {"yes", "no", "rejects"} /\ known \in BOOLEAN /\ running \in BOOLEAN
      /\ halted \in BOOLEAN /\ stopped \in BOOLEAN /\ attempts \in 0..MAX_RESTART_ATTEMPTS + 1
  BY <1>0, Types
<1> HIDE DEF x
<1> QED BY <1>0, <1>1, <1>3, <1>4, <1>5, CallerInv

\* The hook of the plugin fails.
LEMMA HookFailsInv == ASSUME ChannelIInv, NEW c \in Caller, HookFails(c) PROVE ChannelIInv'
<1>0. ChannelsTypeOK
  BY DEF ChannelIInv, ChannelInv
<1>1. /\ caller' = [caller EXCEPT ![c] = NoRequest] /\ halted' = manual /\ stopped' = FALSE
      /\ UNCHANGED <<plugin, configured, known, task, life, manual, attempts, running, loose, joined>>
  BY DEF HookFails
<1>2. /\ configured \in {"yes", "no", "rejects"} /\ known \in BOOLEAN /\ running \in BOOLEAN
      /\ manual \in BOOLEAN /\ attempts \in 0..MAX_RESTART_ATTEMPTS + 1
  BY <1>0, Types
<1>3. NoRequest.at = "idle" /\ NoRequest.op \notin Starting
  BY DEF NoRequest, Starting
<1> QED BY <1>1, <1>2, <1>3, NoneTyped, CallerInv

\* The start that follows a stop.
LEMMA AgainInv == ASSUME ChannelIInv, NEW c \in Caller, Again(c) PROVE ChannelIInv'
<1> DEFINE op == caller[c].op
           n == IF op = "heal" THEN 0 ELSE attempts
<1>1. /\ Start(c, op, n) /\ stopped' = FALSE /\ UNCHANGED <<plugin, configured, joined>>
      /\ \A d \in Caller : caller[d].at = "drain" => ~Resuming(d)
      /\ caller[c].at = "again"
  BY DEF Again
<1>2. op \in Starting
  BY DEF ChannelIInv, CallersInv, Starting, Restarts, Again
<1>3. n \in 0..MAX_RESTART_ATTEMPTS + 1
  <2>1. attempts \in 0..MAX_RESTART_ATTEMPTS + 1
    BY Types DEF ChannelIInv, ChannelInv
  <2> QED BY <2>1, Numbers
<1>4. plugin = "plain" /\ ~joined => /\ \A i \in Lifecycle : life[i].at # "check"
                                     /\ \A d \in Caller : d # c => ~OnItsWay(d)
  <2>1. OnItsWay(c) /\ WillStart(c)
    BY <1>1 DEF OnItsWay, WillStart
  <2>2. \A d \in Caller : OnItsWay(d) => WillStart(d)
    BY DEF WillStart
  <2> QED BY <2>1, <2>2 DEF ChannelIInv, DrainsInv, RestartsInv
<1> HIDE DEF op, n
<1> QED BY <1>1, <1>2, <1>3, <1>4, StartInv

\* The end of a logout.
LEMMA LoggedOutInv == ASSUME ChannelIInv, NEW c \in Caller, LoggedOut(c) PROVE ChannelIInv'
<1>0. ChannelsTypeOK /\ caller[c].at = "logout"
  BY DEF ChannelIInv, ChannelInv, LoggedOut
<1>1. /\ caller' = [caller EXCEPT ![c] = NoRequest] /\ configured' = "no" /\ running' = FALSE
      /\ UNCHANGED <<plugin, known, task, life, manual, attempts, loose, joined, halted, stopped>>
  BY DEF LoggedOut
<1>2. /\ known \in BOOLEAN /\ halted \in BOOLEAN /\ stopped \in BOOLEAN /\ attempts \in 0..MAX_RESTART_ATTEMPTS + 1
  BY <1>0, Types
<1>3. NoRequest.at = "idle" /\ NoRequest.op \notin Starting
  BY DEF NoRequest, Starting
<1> QED BY <1>0, <1>1, <1>2, <1>3, NoneTyped, CallerInv

\* The monitor's look at the status.
LEMMA SnapshotInv == ASSUME ChannelIInv, Snapshot PROVE ChannelIInv'
<1>0. ChannelsTypeOK /\ Monitor \in Caller /\ caller[Monitor].at = "idle"
  BY DEF ChannelIInv, ChannelInv, Snapshot, Caller, NoRequest
<1> DEFINE x == [op |-> "none", at |-> IF running THEN "sawSick" ELSE "sawDown", task |-> 0]
<1>1. /\ caller' = [caller EXCEPT ![Monitor] = x]
      /\ UNCHANGED <<plugin, configured, known, task, life, manual, attempts, running, loose, joined, halted, stopped>>
  BY DEF Snapshot
<1>2. x \in CallerRecord /\ x.at \in {"sawSick", "sawDown"} /\ x.op \notin Starting
  BY DEF CallerRecord, Starting
<1>3. /\ configured \in {"yes", "no", "rejects"} /\ known \in BOOLEAN /\ running \in BOOLEAN
      /\ halted \in BOOLEAN /\ stopped \in BOOLEAN /\ attempts \in 0..MAX_RESTART_ATTEMPTS + 1
  BY <1>0, Types
<1> HIDE DEF x
<1> QED BY <1>0, <1>1, <1>2, <1>3, CallerInv

\* What the monitor makes of it, when others may have stopped or started the account since.
LEMMA JudgeInv == ASSUME ChannelIInv, Judge PROVE ChannelIInv'
<1>0. /\ ChannelsTypeOK /\ Monitor \in Caller /\ UNCHANGED <<plugin, configured, stopped>>
      /\ caller[Monitor].at \in {"sawSick", "sawDown"} /\ Quiet
  BY DEF ChannelIInv, ChannelInv, Judge, Caller
<1>1. CASE manual
  <2>1. /\ caller' = [caller EXCEPT ![Monitor] = NoRequest]
        /\ UNCHANGED <<known, task, life, manual, attempts, running, loose, joined, halted>>
    BY <1>1 DEF Judge
  <2>2. /\ configured \in {"yes", "no", "rejects"} /\ known \in BOOLEAN /\ running \in BOOLEAN
        /\ halted \in BOOLEAN /\ stopped \in BOOLEAN /\ attempts \in 0..MAX_RESTART_ATTEMPTS + 1
    BY <1>0, Types
  <2>3. NoRequest.at = "idle" /\ NoRequest.op \notin Starting
    BY DEF NoRequest, Starting
  <2> QED BY <1>0, <2>1, <2>2, <2>3, NoneTyped, CallerInv
<1>2. CASE ~manual
  <2>1. stopped' = FALSE
    BY <1>0, <1>2, Types DEF ChannelIInv, StoppedInv
  <2>2. CASE caller[Monitor].at = "sawSick"
    <3>1. Stop(Monitor, "heal") /\ UNCHANGED <<known, task, attempts, running, loose>>
      BY <1>2, <2>2 DEF Judge
    <3> QED BY <1>0, <2>1, <2>2, <3>1, StopInv
  <2>3. CASE caller[Monitor].at # "sawSick"
    <3>1. Start(Monitor, "heal", 0) /\ UNCHANGED joined
      BY <1>2, <2>3 DEF Judge
    <3>2. "heal" \in Starting /\ 0 \in 0..MAX_RESTART_ATTEMPTS + 1
      BY Numbers DEF Starting
    <3>3. /\ \A d \in Caller : ~Resuming(d)
          /\ plugin = "plain" => /\ \A i \in Lifecycle : life[i].at # "check"
                                 /\ \A d \in Caller : ~OnItsWay(d)
      BY <1>0 DEF Quiet, Resuming, OnItsWay, Prompt
    <3> QED BY <1>0, <2>1, <3>1, <3>2, <3>3, StartInv
  <2> QED BY <2>2, <2>3
<1> QED BY <1>1, <1>2

\* A step that changes at most whether the account is linked.
LEMMA LinkInv ==
  ASSUME ChannelIInv, configured' \in {"yes", "no", "rejects"},
         UNCHANGED <<plugin, known, task, life, caller, manual, attempts, running, loose, joined, halted, stopped>>
  PROVE  ChannelIInv'
<1>1. ChannelsTypeOK'
  BY Types, TypesNext DEF ChannelIInv, ChannelInv
<1> QED BY <1>1 DEF ChannelIInv, ChannelInv, CallersInv, TrackedInv, DrainsInv, RestartsInv, StoppedInv,
                    WillStart, OnItsWay, Live

\* The invariant is inductive.
LEMMA ChannelNextInv == ChannelIInv /\ [ChannelsNext]_chanVars => ChannelIInv'
<1> SUFFICES ASSUME ChannelIInv, [ChannelsNext]_chanVars PROVE ChannelIInv'
  OBVIOUS
<1>1. Client \subseteq Caller
  BY DEF Caller
<1>2. CASE UNCHANGED chanVars
  BY <1>2, LinkInv, Types DEF chanVars, ChannelIInv, ChannelInv
<1>3. CASE \E c \in Client : AskStart(c) \/ AskStop(c) \/ LoggedOut(c)
  BY <1>1, <1>3, AskStartInv, AskStopInv, LoggedOutInv
<1>4. CASE \E c \in Caller : Checked(c) \/ HookDone(c) \/ HookFails(c) \/ Drained(c) \/ Again(c)
  BY <1>4, CheckedInv, HookDoneInv, HookFailsInv, DrainedInv, AgainInv
<1>5. ASSUME NEW i \in Lifecycle, SleepAborted(i) PROVE ChannelIInv'
  <2>1. /\ life[i].at = "sleep" /\ Settle(i)
        /\ UNCHANGED <<plugin, configured, known, caller, manual, attempts, running, loose, joined, halted, stopped>>
    BY <1>5 DEF SleepAborted
  <2> QED BY <2>1, SettleInv, Types DEF ChannelIInv, ChannelInv
<1>6. CASE \E i \in Lifecycle : Exit(i) \/ SleepAborted(i) \/ Wake(i) \/ Restarted(i) \/ Sicken(i)
  BY <1>5, <1>6, ExitInv, WakeInv, RestartedInv, SickenInv
<1>7. CASE Snapshot \/ Judge
  BY <1>7, SnapshotInv, JudgeInv
<1>8. CASE Link
  BY <1>8, LinkInv DEF Link
<1> QED BY <1>2, <1>3, <1>4, <1>6, <1>7, <1>8 DEF ChannelsNext

\* Who waits for a lifecycle of a stopped account is in stopAccount or drains it.
LEMMA ChannelInvImplies == ChannelIInv => ChannelInv /\ StaysStopped
  BY DEF ChannelIInv, StoppedInv, StaysStopped, Live

-----------------------------------------------------------------------------
\* The manager tracks what runs in every reachable state until a lifecycle is lost, which
\* with a plain plugin takes two restarts that have waited for the same lifecycle; and an
\* account reported as running has one that runs.
THEOREM TracksWhatRuns == ChannelsSpec => []ChannelInv
<1>1. ChannelsSpec => []ChannelIInv
  BY ChannelInitInv, ChannelNextInv, PTL DEF ChannelsSpec
<1> QED BY <1>1, ChannelInvImplies, PTL

\* An account that somebody has stopped stays stopped until somebody starts it: neither a
\* restart on its way nor the monitor brings it up.
THEOREM StopHolds == ChannelsSpec => []StaysStopped
<1>1. ChannelsSpec => []ChannelIInv
  BY ChannelInitInv, ChannelNextInv, PTL DEF ChannelsSpec
<1> QED BY <1>1, ChannelInvImplies, PTL
=============================================================================
