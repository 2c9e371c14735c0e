-------------------------- MODULE MCFollowupQueue --------------------------
(* Values of the constants of FollowupQueue for TLC: a and b come from one     *)
(* chat, c has no origin.                                                      *)
EXTENDS FollowupQueue

CONSTANTS a, b, c

MCMessage == {a, b, c}
MCTwoMessages == {a, c}
MCTarget == [m \in MCMessage |-> IF m = c THEN Unkeyed ELSE "chat1"]

With(mode, cap, dropPolicy) == [mode |-> mode, cap |-> cap, dropPolicy |-> dropPolicy]

MCSettings ==
  {With("collect", 2, "summarize"), With("followup", 1, "summarize"),
   With("followup", 2, "old"), With("collect", 1, "new")}
MCNew == {With("collect", 2, "new"), With("followup", 2, "new")}
MCSummarize == {With("followup", 1, "summarize")}

MCQueueId == {1, 2}
=============================================================================
