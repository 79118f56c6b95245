--------------------------- MODULE MCPipelineLock ---------------------------
(* The GUI process with a watch worker, a dashboard request and a status   *)
(* poll, and a second process with a scheduled run.                        *)
EXTENDS BusyAnswers

CONSTANTS gui, cli, watch, request, poll, cron

MCProcess == {gui, cli}
MCThread == {watch, request, poll, cron}
MCHome == [t \in MCThread |-> IF t = cron THEN cli ELSE gui]
=============================================================================
