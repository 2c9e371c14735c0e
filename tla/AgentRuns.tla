----------------------------- MODULE AgentRuns -----------------------------
(***************************************************************************)
(* What the session lanes and the global lanes together promise of agent   *)
(* runs (docs/concepts/queue.md, "Scope and guarantees"): a session has    *)
(* one run at a time, its runs start in the order they were asked for, and *)
(* each starts at most once.  A restart that interrupts runs voids it.     *)
(***************************************************************************)
EXTENDS Naturals, Sequences

CONSTANTS Session, Run, SessionOf

VARIABLES
  asked,       \* runs that were asked for
  line,        \* the runs of each session that wait for their turn
  running,     \* the runs under way
  interrupted  \* a restart has interrupted runs

absVars == <<asked, line, running, interrupted>>

AbsInit ==
  /\ asked = {} /\ running = {} /\ interrupted = FALSE
  /\ line = [s \in Session |-> <<>>]

Ask(r) ==
  /\ r \notin asked
  /\ asked' = asked \union {r}
  /\ line' = [line EXCEPT ![SessionOf[r]] = Append(@, r)]
  /\ UNCHANGED running

\* Waiting runs are given up: the first one is refused, or a clear leaves at
\* most the first one.  Nobody overtakes.
Drop(s) ==
  /\ line[s] # <<>>
  /\ \E rest \in {Tail(line[s]), <<Head(line[s])>>, <<>>} :
       line' = [line EXCEPT ![s] = rest]
  /\ UNCHANGED <<asked, running>>

\* One run may end, and the first ones of some sessions begin.
Advance(ended, sessions) ==
  /\ running' = (running \ ended) \union {Head(line[s]) : s \in sessions}
  /\ line' = [s \in Session |-> IF s \in sessions THEN Tail(line[s]) ELSE line[s]]
  /\ \A r1, r2 \in running' : SessionOf[r1] = SessionOf[r2] => r1 = r2
  /\ UNCHANGED asked

AbsNext ==
  \/ \E r \in Run : Ask(r)
  \/ \E s \in Session : Drop(s)
  \/ \E ended \in {{}} \union {{r} : r \in running},
        sessions \in SUBSET {s \in Session : line[s] # <<>>} : Advance(ended, sessions)

AbsSpec == AbsInit /\ [][(AbsNext /\ ~interrupted') \/ interrupted']_absVars

=============================================================================
