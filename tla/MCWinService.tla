---------------------------- MODULE MCWinService ----------------------------
(***************************************************************************)
(* Instances of WinService: one user command, the flags of main.cpp's      *)
(* ServiceControl and the ones a service could switch to.                  *)
(***************************************************************************)
EXTENDS WinService

CONSTANT cmd

OneCommand == {cmd}
SuspendableFlags == {"CanBeSuspended"}
ShutdownFlags == {"CanBeSuspended", "NeedsStopOnShutdown"}
TwoChoices == {SuspendableFlags, {"CannotBeStopped", "NeedsStopOnShutdown"}}
Benign == {}
StoppedWhileStarting == {"stopWhileStarting"}
=============================================================================
