------------------------------ MODULE NodeRuns ------------------------------
(***************************************************************************)
(* A command that an agent wants to run on a node.  The agent registers an *)
(* approval, an operator decides or the approval runs out, and the agent   *)
(* asks the gateway to invoke the command on the node, which checks the    *)
(* approval again: gateway/exec-approval-manager.ts, its request methods,  *)
(* the guard of node-invoke-system-run-approval.ts, gateway/node-registry  *)
(* and the requester in agents/bash-tools.exec-host-node.ts.  There is one *)
(* node; a connection that it opens gets the next number.                  *)
(***************************************************************************)
EXTENDS Naturals, FiniteSets

CONSTANTS
  Run,      \* commands that need an approval; each has an approval id of its own
  MaxCalls, \* bound of the model: invocations that clients ask for per run
  MaxConns  \* bound of the model: connections that the node opens

ASSUME RunsInstance == {MaxCalls, MaxConns} \subseteq Nat \ {0}

VARIABLES
  fallback, \* askFallback, what decides when nobody does; a command found obfuscated has "deny"
  record,   \* the approval of each run in ExecApprovalManager
  given,    \* what the promise of the approval was resolved with
  clock,    \* the time of each approval against its expiresAtMs
  route,    \* how the approval was brought to an operator
  agent,    \* what the requester of each run is doing
  calls,    \* the node.invoke calls of each run
  online,   \* the connections that the gateway takes for open (nodesByConn)
  opened,   \* how many connections the node has opened
  session,  \* the connection in nodesById, or 0
  displaced \* history: an older connection closed when a newer one was registered

runVars == <<fallback, record, given, clock, route, agent, calls, online, opened, session, displaced>>

Allow == {"allow-once", "allow-always"}
Resolved == Allow \cup {"deny", "used", "timeout", "no-route"}
Call == 1..MaxCalls
NoCall == [at |-> "free", as |-> "none", conn |-> 0, node |-> "no"]
Called(wish) == [at |-> "called", as |-> wish, conn |-> 0, node |-> "no"]
Ended == {"ok", "timeout", "disconnected", "not-allowed", "refused", "unsent", "not-connected"}
CallRecord == [at : Ended \cup {"free", "called", "woken", "pending"},
               as : Allow \cup {"none", "unapproved", "fallback"},
               conn : 0..MaxConns, node : {"no", "wire", "ran", "answered"}]

RunsInit ==
  /\ fallback \in {"deny", "allowlist", "full"}
  /\ record = [r \in Run |-> "none"]
  /\ given = [r \in Run |-> "nothing"]
  /\ clock = [r \in Run |-> "before"]
  /\ route = [r \in Run |-> "none"]
  /\ agent = [r \in Run |-> "start"]
  /\ calls = [r \in Run |-> [k \in Call |-> NoCall]]
  /\ online = {} /\ opened = 0 /\ session = 0
  /\ displaced = FALSE
----------------------------------------------------------------------------
(* The approval.                                                           *)

\* exec.approval.request: registered at once; the forwarder is awaited after that.
Request(r) ==
  /\ agent[r] = "start"
  /\ record' = [record EXCEPT ![r] = "pending"]
  /\ \E how \in {"clients", "forwarder", "none"} : route' = [route EXCEPT ![r] = how]
  /\ agent' = [agent EXCEPT ![r] = "forwarding"]
  /\ UNCHANGED <<fallback, given, clock, calls, online, opened, session, displaced>>

\* resolve and expire: the first one counts.
Resolve(r, outcome, answer) ==
  /\ record' = [record EXCEPT ![r] = IF @ = "pending" THEN outcome ELSE @]
  /\ given' = [given EXCEPT ![r] = IF record[r] = "pending" THEN answer ELSE @]

\* The end of exec.approval.request: without a way to an operator the answer is null.
Forwarded(r) ==
  /\ agent[r] = "forwarding"
  /\ IF route[r] = "none"
     THEN /\ Resolve(r, "no-route", "null")
          /\ agent' = [agent EXCEPT ![r] = "null"]
     ELSE /\ agent' = [agent EXCEPT ![r] = "accepted"]
          /\ UNCHANGED <<record, given>>
  /\ UNCHANGED <<fallback, clock, route, calls, online, opened, session, displaced>>

\* exec.approval.resolve of an operator who has seen the request.
Decide(r) ==
  /\ record[r] = "pending" /\ route[r] # "none"
  /\ \E d \in Allow \cup {"deny"} : Resolve(r, d, d)
  /\ UNCHANGED <<fallback, clock, route, agent, calls, online, opened, session, displaced>>

Expire_Unanswered(r) ==
  /\ record[r] = "pending" /\ clock[r] # "before"
  /\ record' = [record EXCEPT ![r] = "timeout"]
  /\ UNCHANGED <<fallback, given, clock, route, agent, calls, online, opened, session, displaced>>
\* The timer of the approval, which fires at its expiresAtMs or later.
Expire(r) ==
  /\ record[r] = "pending" /\ clock[r] # "before"
  /\ Resolve(r, "timeout", "null")
  /\ UNCHANGED <<fallback, clock, route, agent, calls, online, opened, session, displaced>>

TimePasses(r) ==
  /\ record[r] # "none" /\ clock[r] # "after"
  /\ clock' = [clock EXCEPT ![r] = IF @ = "before" THEN "at" ELSE "after"]
  /\ UNCHANGED <<fallback, record, given, route, agent, calls, online, opened, session, displaced>>

\* The grace of a resolved entry is over.
Forget(r) ==
  /\ record[r] \in Resolved
  /\ record' = [record EXCEPT ![r] = "gone"]
  /\ UNCHANGED <<fallback, given, clock, route, agent, calls, online, opened, session, displaced>>

\* exec.approval.waitDecision arrives: an approval that is gone counts as no decision.
AwaitDecision(r) ==
  /\ agent[r] = "accepted"
  /\ agent' = [agent EXCEPT ![r] = IF record[r] = "gone" THEN "null" ELSE "waiting"]
  /\ UNCHANGED <<fallback, record, given, clock, route, calls, online, opened, session, displaced>>

Hear(r) ==
  /\ agent[r] = "waiting" /\ given[r] # "nothing"
  /\ agent' = [agent EXCEPT ![r] = given[r]]
  /\ UNCHANGED <<fallback, record, given, clock, route, calls, online, opened, session, displaced>>
----------------------------------------------------------------------------
(* The invocation.                                                         *)

\* resolveBaseExecApprovalDecision and the requester: what to ask the gateway for.
Wish(decision) ==
  CASE decision \in Allow -> decision
    [] decision = "null" /\ fallback = "full" -> "allow-once"
    [] decision = "null" /\ fallback = "allowlist" -> "unapproved"
    [] decision = "deny" \/ (decision = "null" /\ fallback = "deny") -> "denied"

SetCall(r, k, c) == calls' = [calls EXCEPT ![r][k] = c]

Invoke(r) ==
  LET wish == Wish(agent[r])
  IN  /\ agent[r] \in Allow \cup {"deny", "null"}
      /\ IF wish = "denied"
         THEN /\ agent' = [agent EXCEPT ![r] = "denied"]
              /\ UNCHANGED calls
         ELSE /\ agent' = [agent EXCEPT ![r] = "invoking"]
              /\ SetCall(r, 1, Called(wish))
      /\ UNCHANGED <<fallback, record, given, clock, route, online, opened, session, displaced>>

\* Another call with the id of the same approval, by the requester's device.
InvokeAgain(r, k) ==
  /\ calls[r][1].at # "free" /\ calls[r][k].at = "free"
  /\ \E wish \in Allow : SetCall(r, k, Called(wish))
  /\ UNCHANGED <<fallback, record, given, clock, route, agent, online, opened, session, displaced>>

\* The guard of system.run: what the approval allows by now.  The fallback of an approval
\* that timed out needs a client with the scope for approvals, which the requester, who
\* makes the first call, does not ask for.
Guard(r, k, wish) ==
  CASE wish = "unapproved" -> "unapproved"
    [] wish # "unapproved" /\ (record[r] = "gone" \/ clock[r] = "after") -> "refused"
    [] wish # "unapproved" /\ record[r] # "gone" /\ clock[r] # "after" ->
         IF record[r] \in Allow THEN record[r]
         ELSE IF record[r] = "timeout" /\ wish = "allow-once" /\ k # 1 THEN "fallback"
         ELSE "refused"

Consume_Kept(r) == record' = record
\* consumeAllowOnce.
Consume(r) == record' = [record EXCEPT ![r] = IF @ = "allow-once" THEN "used" ELSE @]

\* node.invoke with a session: from the list of the node's commands over the guard to the
\* request on the socket without an await.  An approval is used up when the send fails, too.
Send(r, k) ==
  LET c == calls[r][k]
      v == Guard(r, k, c.as)
      Ends(how) == SetCall(r, k, [c EXCEPT !.at = how])
      Sent == SetCall(r, k, [at |-> "pending", as |-> v, conn |-> session, node |-> "wire"])
  IN  /\ c.at \in {"called", "woken"} /\ session # 0
      /\ \/ Ends("not-allowed") /\ UNCHANGED record
         \/ v = "refused" /\ Ends("refused") /\ UNCHANGED record
         \/ /\ v # "refused"
            /\ Sent \/ Ends("unsent")
            /\ IF v \in Allow THEN Consume(r) ELSE UNCHANGED record
      /\ UNCHANGED <<fallback, given, clock, route, agent, online, opened, session, displaced>>

\* node.invoke without a session: a wake and a wait for the node, then one more look.
NotConnected(r, k) ==
  LET c == calls[r][k]
  IN  /\ c.at \in {"called", "woken"} /\ session = 0
      /\ SetCall(r, k, [c EXCEPT !.at = IF @ = "called" THEN "woken" ELSE "not-connected"])
      /\ UNCHANGED <<fallback, record, given, clock, route, agent, online, opened, session, displaced>>

InvokeTimeout(r, k) ==
  /\ calls[r][k].at = "pending"
  /\ SetCall(r, k, [calls[r][k] EXCEPT !.at = "timeout"])
  /\ UNCHANGED <<fallback, record, given, clock, route, agent, online, opened, session, displaced>>

\* handleInvokeResult: by the id of the request, over whichever connection it comes.
Result(r, k) ==
  /\ calls[r][k].node = "ran" /\ opened \in online
  /\ SetCall(r, k, [calls[r][k] EXCEPT !.node = "answered", !.at = IF @ = "pending" THEN "ok" ELSE @])
  /\ UNCHANGED <<fallback, record, given, clock, route, agent, online, opened, session, displaced>>

\* The requester has its answer.
Finish(r) ==
  /\ agent[r] = "invoking" /\ calls[r][1].at \in Ended
  /\ agent' = [agent EXCEPT ![r] = "finished"]
  /\ UNCHANGED <<fallback, record, given, clock, route, calls, online, opened, session, displaced>>
----------------------------------------------------------------------------
(* The node and its connections.                                           *)

\* The request reaches the node if its connection still works, and the command runs.
NodeRuns(r, k) ==
  /\ calls[r][k].node = "wire" /\ calls[r][k].conn = opened
  /\ SetCall(r, k, [calls[r][k] EXCEPT !.node = "ran"])
  /\ UNCHANGED <<fallback, record, given, clock, route, agent, online, opened, session, displaced>>

\* register: the new connection takes the place of the old one in nodesById.
Register ==
  /\ opened < MaxConns
  /\ opened' = opened + 1
  /\ online' = online \cup {opened'}
  /\ session' = opened'
  /\ UNCHANGED <<fallback, record, given, clock, route, agent, calls, displaced>>

Unregister_KeepsPending(c) ==
  /\ c \in online
  /\ online' = online \ {c}
  /\ session' = 0
  /\ displaced' = (displaced \/ c # session)
  /\ UNCHANGED <<fallback, record, given, clock, route, agent, calls, opened>>
\* unregister when the gateway sees a connection close: it goes by the id of the node.
Unregister(c) ==
  /\ c \in online
  /\ online' = online \ {c}
  /\ session' = 0
  /\ calls' = [r \in Run |-> [k \in Call |->
       IF calls[r][k].at = "pending" THEN [calls[r][k] EXCEPT !.at = "disconnected"] ELSE calls[r][k]]]
  /\ displaced' = (displaced \/ c # session)
  /\ UNCHANGED <<fallback, record, given, clock, route, agent, opened>>
----------------------------------------------------------------------------
Handle(r) ==
  \/ Request(r) \/ Forwarded(r) \/ Expire(r) \/ TimePasses(r) \/ AwaitDecision(r) \/ Hear(r)
  \/ Invoke(r) \/ Finish(r)
  \/ \E k \in Call : Send(r, k) \/ NotConnected(r, k) \/ InvokeTimeout(r, k)

RunsNext ==
  \/ \E r \in Run : Handle(r) \/ Decide(r) \/ Forget(r)
  \/ \E r \in Run, k \in Call : InvokeAgain(r, k) \/ NodeRuns(r, k) \/ Result(r, k)
  \/ Register
  \/ \E c \in online : Unregister(c)

\* The gateway and the agent take their steps and time goes by; operators and nodes owe nothing.
RunsSpec ==
  /\ RunsInit /\ [][RunsNext]_runVars
  /\ \A r \in Run : WF_runVars(Handle(r))
----------------------------------------------------------------------------
RunsTypeOK ==
  /\ fallback \in {"deny", "allowlist", "full"}
  /\ record \in [Run -> Resolved \cup {"none", "pending", "gone"}]
  /\ given \in [Run -> Allow \cup {"deny", "null", "nothing"}]
  /\ clock \in [Run -> {"before", "at", "after"}]
  /\ route \in [Run -> {"clients", "forwarder", "none"}]
  /\ agent \in [Run -> Allow \cup {"start", "forwarding", "accepted", "waiting", "null", "deny",
                                    "denied", "invoking", "finished"}]
  /\ calls \in [Run -> [Call -> CallRecord]]
  /\ opened \in 0..MaxConns /\ online \subseteq 1..opened /\ session \in 0..opened

\* The connection that invocations go to is one that the gateway has not seen closing, and
\* the newest one, unless the close of an older one has taken the node off the registry;
\* and no invocation stays pending when the connection that carries it has closed.
RunsInv ==
  /\ RunsTypeOK
  /\ session # 0 => session \in online /\ session = opened
  /\ session = 0 /\ opened \in online => displaced
  /\ \A r \in Run, k \in Call : calls[r][k].at = "pending" => calls[r][k].conn \in online

Approved(r) == {k \in Call : calls[r][k].conn # 0 /\ calls[r][k].as # "unapproved"}

\* A command goes to the node as approved only when an operator has allowed it, or when
\* the approval ran out and the fallback allows it; and what was allowed once goes there
\* once, whatever calls race for the approval or follow while it is still kept.
RunAsApproved ==
  \A r \in Run :
    /\ Approved(r) # {} => given[r] \in Allow \/ given[r] = "null"
    /\ given[r] = "allow-once" => Cardinality(Approved(r)) <= 1

\* Whoever asks for a run gets an answer, also when no operator, no node and no result come.
RequestAnswered == \A r \in Run : agent[r] # "start" ~> agent[r] \in {"denied", "finished"}

\* When there is no way to an operator and the fallback is full, the gateway does not
\* refuse the run that the requester asks for.
FallbackDecides ==
  \A r \in Run : route[r] = "none" /\ fallback = "full" => calls[r][1].at # "refused"
=============================================================================
