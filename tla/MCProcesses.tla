----------------------------- MODULE MCProcesses ------------------------------
(* The instance of Processes that TLC checks: a third app beside Safari and *)
(* SpringBoard, and two pids for all the processes there are.               *)
EXTENDS Processes, TLC

CONSTANT Other

MCApps == {Safari, SpringBoard, Other}
=============================================================================
