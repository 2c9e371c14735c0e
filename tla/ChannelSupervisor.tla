------------------------- MODULE ChannelSupervisor -------------------------
(***************************************************************************)
(* One account of a channel: what createChannelManager does to start, stop *)
(* and restart it (gateway/server-channels.ts), with the health monitor    *)
(* (gateway/channel-health-monitor.ts) and clients that stop, start,       *)
(* restart and log out the account at the same time.  A lifecycle is one   *)
(* call of the plugin's startAccount and what follows until its tracked    *)
(* promise settles.  store.aborts and store.tasks are written together, so *)
(* one variable stands for both.                                           *)
(***************************************************************************)
EXTENDS Naturals, FiniteSets

CONSTANTS
  Client,             \* callers of startChannel and stopChannel
  MAX_RESTART_ATTEMPTS,
  MaxLifecycles       \* bound of the model: lifecycles that exist at once

Monitor == "monitor"
Caller == Client \cup {Monitor}
Lifecycle == 1..MaxLifecycles

ASSUME SupervisorInstance ==
  /\ Monitor \notin Client /\ MAX_RESTART_ATTEMPTS \in Nat /\ MaxLifecycles \in Nat \ {0}

VARIABLES
  plugin,     \* "hooked" has stopAccount, "slow" an asynchronous isConfigured, "plain" neither
  configured, \* what isConfigured does when it is asked: "yes", "no" or "rejects"
  known,      \* runtimes: what the last start found isConfigured to be
  task,       \* store.tasks and store.aborts: the lifecycle that is tracked, or 0
  life,       \* the lifecycles
  caller,     \* what each caller is waiting for
  manual,     \* manuallyStopped
  attempts,   \* restartAttempts
  running,    \* runtimes: the account is reported as running
  loose,      \* history: the entry of another lifecycle has been overwritten or deleted
  joined,     \* history: two restarts have waited for the same lifecycle of a plain plugin
  halted,     \* history: the manual stop is one a client asked for, or the rest of a restart that failed
  stopped     \* history: a stop has been recorded, with nothing loose and no start on its way then or since

chanVars == <<plugin, configured, known, task, life, caller, manual, attempts, running, loose, joined,
              halted, stopped>>

NoLife == [at |-> "done", aborted |-> FALSE, sick |-> FALSE]
NoRequest == [op |-> "none", at |-> "idle", task |-> 0]

Live == {i \in Lifecycle : life[i].at = "run"}
\* Ids of settled lifecycles that nothing refers to are used again.
Unused(lives, t) == {i \in Lifecycle : lives[i].at = "done"} \ ({t} \cup {caller[c].task : c \in Caller})

\* A stop whose task has settled goes on in the microtasks that follow, and so does what comes
\* after it, before anything else runs.  The answer of a synchronous isConfigured is awaited, too:
\* it comes in the next microtask.
Prompt == plugin # "slow"
Resuming(c) ==
  \/ caller[c].at = "again"
  \/ caller[c].at = "check" /\ Prompt
  \/ caller[c].at = "drain" /\ caller[c].task \notin {i \in Lifecycle : life[i].at # "done"}
Quiet ==
  /\ \A c \in Caller : ~Resuming(c)
  /\ Prompt => \A i \in Lifecycle : life[i].at # "check"

ChannelsInit ==
  /\ plugin \in {"plain", "slow", "hooked"} /\ configured \in {"yes", "no", "rejects"} /\ known = TRUE
  /\ task = 0
  /\ life = [i \in Lifecycle |-> NoLife]
  /\ caller = [c \in Caller |-> NoRequest]
  /\ manual = FALSE /\ attempts = 0 /\ running = FALSE
  /\ loose = FALSE /\ joined = FALSE /\ halted = FALSE /\ stopped = FALSE
----------------------------------------------------------------------------
(* startChannelInternal: a check for a tracked lifecycle, then the await   *)
(* of isConfigured, then the new lifecycle.                                *)

\* The part after the await, in a state whose lifecycles are lives and whose tracked one is t.
\* An automatic restart keeps the attempts and the manual stop.
Launch(lives, t, automatic) ==
  \/ /\ configured # "yes"
     /\ IF configured = "no" THEN known' = FALSE /\ running' = FALSE ELSE UNCHANGED <<known, running>>
     /\ halted' = (halted \/ (manual /\ ~automatic))
     /\ task' = t /\ life' = lives /\ UNCHANGED <<manual, attempts, loose>>
  \/ /\ configured = "yes"
     /\ known' = TRUE /\ running' = TRUE
     /\ \E i \in Unused(lives, t) :
          /\ \A j \in Unused(lives, t) : i <= j
          /\ task' = i
          /\ life' = [lives EXCEPT ![i] = [NoLife EXCEPT !.at = "run"]]
     /\ manual' = (manual /\ automatic) /\ halted' = (halted /\ automatic)
     /\ attempts' = IF automatic THEN attempts ELSE 0
     /\ loose' = (loose \/ t # 0)

\* The code of a bug: no look at the tracked lifecycle.
Start_Unchecked(c, op, n) ==
  /\ caller' = [caller EXCEPT ![c] = [NoRequest EXCEPT !.op = op, !.at = "check"]]
  /\ attempts' = n
  /\ UNCHANGED <<known, task, life, manual, running, loose, halted>>

\* The call of startChannel by caller c, up to its await, when the attempts are n.
Start(c, op, n) ==
  /\ caller' = [caller EXCEPT
       ![c] = IF task # 0 THEN NoRequest ELSE [NoRequest EXCEPT !.op = op, !.at = "check"]]
  /\ attempts' = n
  /\ UNCHANGED <<known, task, life, manual, running, loose, halted>>

AskStart(c) ==
  /\ Quiet /\ caller[c] = NoRequest
  /\ Start(c, "start", attempts) /\ stopped' = FALSE
  /\ UNCHANGED <<plugin, configured, joined>>

\* isConfigured has answered, or has rejected: then so does startChannel.
Checked(c) ==
  /\ caller[c].at = "check" /\ (Prompt \/ Quiet)
  /\ caller' = [caller EXCEPT ![c] = NoRequest]
  /\ Launch(life, task, FALSE)
  /\ UNCHANGED <<plugin, configured, joined, stopped>>
----------------------------------------------------------------------------
(* A lifecycle that ends, and the automatic restarts.                      *)

\* The tracked promise settles: its entry goes if it is still its own.
Settle(i) ==
  /\ task' = IF task = i THEN 0 ELSE task
  /\ life' = [life EXCEPT ![i] = NoLife]

\* The plugin returns or throws, whether it was aborted or not.
Exit(i) ==
  /\ i \in Live
  /\ running' = FALSE
  /\ IF manual
     THEN Settle(i) /\ UNCHANGED attempts
     ELSE /\ attempts' = IF attempts > MAX_RESTART_ATTEMPTS THEN attempts ELSE attempts + 1
          /\ IF attempts' > MAX_RESTART_ATTEMPTS \/ life[i].aborted
             THEN Settle(i)
             ELSE life' = [life EXCEPT ![i].at = "sleep", ![i].sick = FALSE] /\ UNCHANGED task
  /\ UNCHANGED <<plugin, configured, known, caller, manual, loose, joined, halted, stopped>>

\* sleepWithAbort rejects.
SleepAborted(i) ==
  /\ life[i].at = "sleep" /\ life[i].aborted
  /\ Settle(i)
  /\ UNCHANGED <<plugin, configured, known, caller, manual, attempts, running, loose, joined, halted, stopped>>

\* The delay is over.  If nobody has stopped or started the account, it is started again.
Wake(i) ==
  /\ Quiet /\ life[i].at = "sleep" /\ ~life[i].aborted
  /\ IF manual \/ task \notin {0, i}
     THEN Settle(i)
     ELSE task' = 0 /\ life' = [life EXCEPT ![i].at = "check"]
  /\ UNCHANGED <<plugin, configured, known, caller, manual, attempts, running, loose, joined, halted, stopped>>

\* The automatic restart after its isConfigured, which does not look at manuallyStopped again.
\* When it rejects, the lifecycle is over.
Restarted(i) ==
  /\ life[i].at = "check" /\ (Prompt \/ Quiet)
  /\ Launch([life EXCEPT ![i] = NoLife], task, TRUE)
  /\ UNCHANGED <<plugin, configured, caller, joined, stopped>>
----------------------------------------------------------------------------
(* stopChannel, and what its callers do next.                              *)

\* A stop that a start follows: a reload, or the monitor.
Restarts == {"restart", "heal"}

\* What a caller does when its stop has returned.
After(op) ==
  IF op \in Restarts THEN [op |-> op, at |-> "again", task |-> 0]
  ELSE IF op = "logout" THEN [op |-> op, at |-> "logout", task |-> 0]
  ELSE NoRequest

\* The call of stopChannel by caller c.  Without a hook and an entry nothing is recorded.
Stop(c, op) ==
  IF task = 0 /\ plugin # "hooked"
  THEN caller' = [caller EXCEPT ![c] = After(op)] /\ UNCHANGED <<manual, life, joined, halted>>
  ELSE /\ manual' = TRUE
       /\ life' = [i \in Lifecycle |-> IF i = task THEN [life[i] EXCEPT !.aborted = TRUE] ELSE life[i]]
       /\ caller' = [caller EXCEPT
            ![c] = [op |-> op, at |-> IF plugin = "hooked" THEN "hook" ELSE "drain", task |-> task]]
       /\ halted' = (halted \/ op \notin Restarts)
       /\ joined' = (joined \/ (plugin = "plain" /\ op \in Restarts /\ \E d \in Caller :
            caller[d].at = "drain" /\ caller[d].op \in Restarts))

\* Nobody but c is on the way to a start.
NoOtherStart(c) ==
  /\ \A d \in Caller \ {c} : caller[d].op \notin {"start"} \cup Restarts
  /\ \A i \in Lifecycle : life[i].at # "check"

AskStop(c) ==
  /\ Quiet /\ caller[c] = NoRequest
  /\ \E op \in {"stop", "restart", "logout"} :
       /\ Stop(c, op)
       /\ stopped' = (op # "restart" /\ (stopped \/ (manual' /\ ~loose /\ NoOtherStart(c))))
  /\ UNCHANGED <<plugin, configured, known, task, attempts, running, loose>>

HookDone(c) ==
  /\ caller[c].at = "hook"
  /\ caller' = [caller EXCEPT ![c].at = "drain"]
  /\ UNCHANGED <<plugin, configured, known, task, life, manual, attempts, running, loose, joined, halted, stopped>>

\* stopAccount rejects, and so does stopChannel: nobody waits for the lifecycle, and its entry
\* and the manual stop stay.
HookFails(c) ==
  /\ caller[c].at = "hook"
  /\ caller' = [caller EXCEPT ![c] = NoRequest]
  /\ halted' = manual /\ stopped' = FALSE
  /\ UNCHANGED <<plugin, configured, known, task, life, manual, attempts, running, loose, joined>>

\* The captured task has settled: the entry goes, whoever it belongs to by now.
Drained(c) ==
  /\ caller[c].at = "drain" /\ Resuming(c)
  /\ caller' = [caller EXCEPT ![c] = After(caller[c].op)]
  /\ task' = 0 /\ running' = FALSE
  /\ loose' = (loose \/ task \notin {0, caller[c].task})
  /\ stopped' = (stopped /\ ~loose')
  /\ UNCHANGED <<plugin, configured, known, life, manual, attempts, joined, halted>>

\* The start after the stop of a reload or of the monitor, which resets the attempts first.
Again(c) ==
  /\ caller[c].at = "again" /\ \A d \in Caller : caller[d].at = "drain" => ~Resuming(d)
  /\ Start(c, caller[c].op, IF caller[c].op = "heal" THEN 0 ELSE attempts)
  /\ stopped' = FALSE
  /\ UNCHANGED <<plugin, configured, joined>>

\* logoutAccount has removed the credentials, and markChannelLoggedOut changes the status.
LoggedOut(c) ==
  /\ caller[c].at = "logout"
  /\ caller' = [caller EXCEPT ![c] = NoRequest]
  /\ configured' = "no" /\ running' = FALSE
  /\ UNCHANGED <<plugin, known, task, life, manual, attempts, loose, joined, halted, stopped>>
----------------------------------------------------------------------------
(* The health monitor: a snapshot of every account, then one by one those  *)
(* that are not healthy, the status being as old as the snapshot.          *)

Sick == running /\ \E i \in Live : life[i].sick

Snapshot ==
  /\ caller[Monitor] = NoRequest /\ known /\ (~running \/ Sick)
  /\ caller' = [caller EXCEPT
       ![Monitor] = [op |-> "none", at |-> IF running THEN "sawSick" ELSE "sawDown", task |-> 0]]
  /\ UNCHANGED <<plugin, configured, known, task, life, manual, attempts, running, loose, joined, halted, stopped>>

\* The code of a bug: the snapshot is believed, whoever has stopped the account since.
Judge_StaleStop ==
  /\ Quiet /\ caller[Monitor].at \in {"sawSick", "sawDown"}
  /\ IF caller[Monitor].at = "sawSick"
     THEN Stop(Monitor, "heal") /\ UNCHANGED <<known, task, attempts, running, loose>>
     ELSE Start(Monitor, "heal", 0) /\ UNCHANGED joined
  /\ UNCHANGED <<plugin, configured, stopped>>

\* The code of a bug: an account that is not running is left to its automatic restarts.
Judge_LeavesDown ==
  /\ Quiet /\ caller[Monitor].at \in {"sawSick", "sawDown"}
  /\ IF manual \/ caller[Monitor].at = "sawDown"
     THEN /\ caller' = [caller EXCEPT ![Monitor] = NoRequest]
          /\ UNCHANGED <<known, task, life, manual, attempts, running, loose, joined, halted>>
     ELSE Stop(Monitor, "heal") /\ UNCHANGED <<known, task, attempts, running, loose>>
  /\ UNCHANGED <<plugin, configured, stopped>>

Judge ==
  /\ Quiet /\ caller[Monitor].at \in {"sawSick", "sawDown"}
  /\ IF manual
     THEN /\ caller' = [caller EXCEPT ![Monitor] = NoRequest]
          /\ UNCHANGED <<known, task, life, manual, attempts, running, loose, joined, halted>>
     ELSE IF caller[Monitor].at = "sawSick"
     THEN Stop(Monitor, "heal") /\ UNCHANGED <<known, task, attempts, running, loose>>
     ELSE Start(Monitor, "heal", 0) /\ UNCHANGED joined
  /\ UNCHANGED <<plugin, configured, stopped>>
----------------------------------------------------------------------------
(* The world: a connection that stops delivering, an account linked or     *)
(* unlinked from outside.                                                  *)

Sicken(i) ==
  /\ i \in Live /\ ~life[i].sick
  /\ life' = [life EXCEPT ![i].sick = TRUE]
  /\ UNCHANGED <<plugin, configured, known, task, caller, manual, attempts, running, loose, joined, halted, stopped>>

Link ==
  /\ configured' \in {"yes", "no", "rejects"} \ {configured}
  /\ UNCHANGED <<plugin, known, task, life, caller, manual, attempts, running, loose, joined, halted, stopped>>

ChannelsNext ==
  \/ \E c \in Client : AskStart(c) \/ AskStop(c) \/ LoggedOut(c)
  \/ \E c \in Caller : Checked(c) \/ HookDone(c) \/ HookFails(c) \/ Drained(c) \/ Again(c)
  \/ \E i \in Lifecycle : Exit(i) \/ SleepAborted(i) \/ Wake(i) \/ Restarted(i) \/ Sicken(i)
  \/ Snapshot \/ Judge \/ Link

\* A plugin obeys its abort signal, timers fire, promises settle and the monitor keeps checking;
\* clients, failures and accounts do as they like.
ChannelsSpec ==
  /\ ChannelsInit /\ [][ChannelsNext]_chanVars
  /\ \A c \in Caller :
       /\ WF_chanVars(Checked(c)) /\ WF_chanVars(HookDone(c) \/ HookFails(c))
       /\ WF_chanVars(Drained(c)) /\ WF_chanVars(Again(c))
  /\ \A i \in Lifecycle :
       /\ WF_chanVars(life[i].aborted /\ Exit(i)) /\ WF_chanVars(SleepAborted(i))
       /\ WF_chanVars(Wake(i)) /\ WF_chanVars(Restarted(i))
  /\ WF_chanVars(Snapshot) /\ WF_chanVars(Judge)
----------------------------------------------------------------------------
ChannelsTypeOK ==
  /\ plugin \in {"plain", "slow", "hooked"}
  /\ task \in Lifecycle \cup {0} /\ attempts \in 0..MAX_RESTART_ATTEMPTS + 1
  /\ life \in [Lifecycle -> [at : {"done", "run", "sleep", "check"}, aborted : BOOLEAN, sick : BOOLEAN]]
  /\ caller \in [Caller -> [op : {"none", "start", "stop", "restart", "logout", "heal"},
                            at : {"idle", "check", "hook", "drain", "again", "logout", "sawSick", "sawDown"},
                            task : Lifecycle \cup {0}]]
  /\ configured \in {"yes", "no", "rejects"}
  /\ \A v \in {known, manual, running, loose, joined, halted, stopped} : v \in BOOLEAN

\* The manager tracks what runs (server-channels.ts:254-392, :416-452): as long as no entry of another
\* lifecycle has been overwritten or deleted, the one lifecycle that runs is the tracked one, so that a
\* stop can reach it.  A plugin with a synchronous isConfigured and no stopAccount loses one only after
\* two restarts, a reload's and the monitor's, have waited for the end of the same lifecycle: they go on
\* in lockstep, and both find nothing tracked (:256) before either has stored its own (:389).  No other
\* starts, stops and automatic restarts that meet do it.  An account reported as running has a lifecycle
\* that runs.
ChannelInv ==
  /\ ChannelsTypeOK
  /\ ~loose => Live \subseteq {task}
  /\ plugin = "plain" /\ ~joined => ~loose
  /\ running => Live # {}

\* "Tracks accounts that were manually stopped so we don't auto-restart them"
\* (server-channels.ts:142): when a recorded stop that no start has overlapped is over, neither
\* the restarts of a lifecycle that had failed nor a monitor with an old snapshot bring the account up.
StaysStopped ==
  stopped /\ (\A c \in Caller : caller[c].at \notin {"hook", "drain"}) => Live = {}

\* A lifecycle runs in an account reported as not running: logged out after a start had overtaken the
\* logout, or the other one of two overlapping lifecycles has ended.
Masked == ~running /\ Live # {}

\* The bound of the model is reached: a start waits for an id, more lifecycles having been left untracked
\* than there are ids for.
Full ==
  /\ Unused(life, task) = {}
  /\ (\E c \in Caller : caller[c].at = "check") \/ (\E i \in Lifecycle : life[i].at = "check")

\* An account does not stay down (channel-health-monitor.ts:99-179, server-channels.ts:338-391): failures,
\* given-up restarts, half-dead connections and operations of clients that meet each other end in a
\* healthy lifecycle, or an account found unlinked.  It stays down after a stop that a client asked for,
\* and after a restart that failed, by stopAccount or isConfigured (:277, :427), once it had recorded its
\* own manual stop.  A masked lifecycle is left out: the monitor does not stop it, because it is not
\* running, and cannot start another, because it is tracked.
KeptUp == []<>(\/ \E i \in Live : ~life[i].sick
               \/ halted \/ ~known \/ configured # "yes" \/ Masked \/ Full)
=============================================================================
