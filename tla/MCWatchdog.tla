----------------------------- MODULE MCWatchdog -----------------------------
(***************************************************************************)
(* An instance of Watchdog: contents of the history file that differ in    *)
(* every decision, with counters smaller than the code's.                  *)
(***************************************************************************)
EXTENDS Watchdog

Content(s, a, c) == [step |-> s, any |-> a, cover |-> c]
SomeFiles == {Content("STEP1", FALSE, FALSE), Content("STEP1", TRUE, TRUE),
              Content("STEP2", FALSE, TRUE), Content("STEP3", FALSE, FALSE)}

SomeSetups == {[named |-> TRUE, closing |-> TRUE, listed |-> FALSE],
               [named |-> FALSE, closing |-> FALSE, listed |-> TRUE]}
=============================================================================
