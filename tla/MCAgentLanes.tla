---------------------------- MODULE MCAgentLanes ----------------------------
(* Values of the constants of AgentLanes for TLC: two runs of session s1, one *)
(* of them started by what the cron job in session s2 sends there.             *)
EXTENDS AgentLanes

CONSTANTS s1, s2, a1, job, sent

MCSession == {s1, s2}
MCRun == {a1, job, sent}
MCSessionOf == [r \in Run |-> IF r = job THEN s2 ELSE s1]
MCCronRun == {job}
MCCallee == [r \in Run |-> IF r = job THEN sent ELSE NoRun]
MCLane == Session \union {main, cron, nested}
MCCommand == Run \X {"cron", "session", "global"}
MCLimit == {0, 2}
=============================================================================
