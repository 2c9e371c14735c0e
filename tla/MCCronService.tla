--------------------------- MODULE MCCronService ---------------------------
(* Values of the constants of CronService for TLC: a recurring job and a one-shot. *)
EXTENDS CronService

MCBackoff == <<1, 2>>
MCBackoffLong == <<3, 3>>
MCKind == <<"every", "at">>
MCKindOne == <<"cron">>
=============================================================================
