------------------------------ MODULE Program -------------------------------
(***************************************************************************)
(* The program as the service control manager (SCM) and its users see it:  *)
(* main(), which lets one process of a session in, QtServiceBase::exec(),  *)
(* which controls the service or is it, and QtServiceController.           *)
(*                                                                         *)
(* Users start processes with an argument, the SCM starts service          *)
(* processes, without one, in its session.  A service process is reduced   *)
(* to what the SCM sees of it: WinService has the rest.  It reports        *)
(* STOPPED when its event loop has ended, and leaves main(), with the lock *)
(* of the single instance, some time later: "leaving".  The SCM may have   *)
(* started its successor by then.                                          *)
(***************************************************************************)
EXTENDS Naturals

CONSTANTS
    Users,      \* processes that users start
    Services,   \* processes that the SCM starts
    Session,    \* Session[p]: the session, or domain of the lock, of process p
    MaxPolls,   \* polls of stop(): 10
    Crashes     \* processes may die anywhere

Procs == Users \cup Services

ASSUME ProcsAssumption == Users \cap Services = {}
ASSUME SessionAssumption ==
    /\ DOMAIN Session = Procs
    /\ \A p, q \in Services : Session[p] = Session[q]
ASSUME PollsAssumption == MaxPolls \in Nat \ {0} /\ Crashes \in BOOLEAN

VARIABLES
    pc,        \* where the main thread of process p is
    arg,       \* its argument, "" for none
    held,      \* the lock of the single instance
    handles,   \* processes with a handle on the service
    polls,     \* QueryServiceStatus() calls of its stop()
    entry,     \* the service in the SCM's database
    state,     \* the state the SCM shows
    owner,     \* the process of the service, as a set
    control    \* the control that handler() works on

procVars == <<pc, arg, held, handles, polls>>
scmVars  == <<entry, state, owner, control>>
vars == <<procVars, scmVars>>

Lock == INSTANCE RWLock

Controls == {"-t", "-p", "-r", "-c"}
Args == Controls \cup {"", "-i", "-u", "-e", "-v"}
Pending == [c \in Controls |->
    CASE c = "-t" -> "STOP_PENDING"
      [] c = "-p" -> "PAUSE_PENDING"
      [] c = "-r" -> "CONTINUE_PENDING"
      [] c = "-c" -> state]
\* isInstalled() and isRunning() of the controller
isInstalled == entry # "none"
showsRunning == state # "STOPPED"

Up     == {"RUNNING", "PAUSED"}
States == Up \cup {"STOPPED", "START_PENDING", "STOP_PENDING", "PAUSE_PENDING", "CONTINUE_PENDING"}
UserPc == {"install", "uninstall", "app", "open", "call", "startWait", "answer", "poll", "close"}
Pc == {"down", "isRunning", "exec", "return", "service", "leaving"} \cup UserPc

TypeOK ==
    /\ pc \in [Procs -> Pc] /\ arg \in [Procs -> Args]
    /\ held \in [Procs -> Lock!Modes]
    /\ handles \in SUBSET Users
    /\ polls \in [Procs -> 0..MaxPolls]
    /\ entry \in {"none", "installed", "deleted"}
    /\ state \in States
    /\ owner = {} \/ \E q \in Services : owner = {q}
    /\ control \in Controls \cup {""}

Init ==
    /\ pc = [p \in Procs |-> "down"] /\ arg = [p \in Procs |-> ""]
    /\ Lock!Init
    /\ handles = {}
    /\ polls = [p \in Procs |-> 0]
    /\ entry = "none" /\ state = "STOPPED" /\ owner = {} /\ control = ""

Goes(p, from, to) == pc[p] = from /\ pc' = [pc EXCEPT ![p] = to]

-----------------------------------------------------------------------------
(* Processes begin and end *)

Run(p, a) ==
    /\ Goes(p, "down", "isRunning")
    /\ arg' = [arg EXCEPT ![p] = a]
    /\ polls' = [polls EXCEPT ![p] = 0]
    /\ UNCHANGED <<held, handles, scmVars>>

(***************************************************************************)
(* The end of a process: its lock and handles are released.  If it was the *)
(* service, the SCM shows STOPPED, and StartService() and ControlService() *)
(* calls that wait for it fail.                                            *)
(***************************************************************************)
Ends(p) ==
    LET lost == IF p \in owner THEN {u \in Users : pc[u] \in {"startWait", "answer"}} ELSE {} IN
    /\ pc' = [r \in Procs |-> IF r = p THEN "down" ELSE IF r \in lost THEN "close" ELSE pc[r]]
    /\ IF held[p] # "NoLock" THEN Lock!Release(p) ELSE UNCHANGED held
    /\ handles' = handles \ {p}
    /\ owner' = owner \ {p}
    /\ state' = IF p \in owner THEN "STOPPED" ELSE state
    /\ control' = IF p \in owner THEN "" ELSE control
    /\ arg' = [arg EXCEPT ![p] = ""] /\ polls' = [polls EXCEPT ![p] = 0]
    /\ UNCHANGED entry

Crash(p) == Crashes /\ pc[p] # "down" /\ Ends(p)

\* main() returns what exec() returned.
Return(p) == pc[p] = "return" /\ Ends(p)

-----------------------------------------------------------------------------
(* main() and exec() *)

\* Mutant: main() looks at nobody.
isRunning_not(p) ==
    /\ Goes(p, "isRunning", "exec")
    /\ UNCHANGED <<arg, held, handles, polls, scmVars>>

\* if (s.isRunning()) return 1;
isRunning(p) ==
    \/ /\ Goes(p, "isRunning", "exec")
       /\ Lock!AcquireWrite(p)
       /\ UNCHANGED <<arg, handles, polls, scmVars>>
    \/ /\ pc[p] = "isRunning"
       /\ \E q \in Lock!Peers(p) : held[q] # "NoLock"
       /\ Ends(p)

\* The argument decides.
exec(p) ==
    /\ \/ /\ arg[p] = "-i"
          /\ Goes(p, "exec", IF isInstalled THEN "return" ELSE "install")
       \/ /\ arg[p] = "-u"
          /\ Goes(p, "exec", IF isInstalled THEN "uninstall" ELSE "return")
       \/ arg[p] = "-v" /\ Goes(p, "exec", "return")
       \/ arg[p] = "-e" /\ Goes(p, "exec", "app")
       \/ arg[p] \in {"-t", "-p", "-r"} /\ Goes(p, "exec", "open")
       \/ /\ arg[p] = "-c"
          /\ Goes(p, "exec", IF showsRunning THEN "open" ELSE "return")
       \/ arg[p] = "" /\ p \notin owner /\ Goes(p, "exec", "open")
    /\ UNCHANGED <<arg, held, handles, polls, scmVars>>

\* start() of a service process: the dispatcher connects to the SCM.
Connect(p) ==
    /\ pc[p] = "exec" /\ arg[p] = "" /\ p \in owner
    /\ pc' = [r \in Procs |-> IF r = p THEN "service"
                              ELSE IF pc[r] = "startWait" THEN "close" ELSE pc[r]]
    /\ UNCHANGED <<arg, held, handles, polls, scmVars>>

\* run(false): a normal program.
AppQuits(p) ==
    /\ Goes(p, "app", "return")
    /\ UNCHANGED <<arg, held, handles, polls, scmVars>>

install(p) ==
    /\ Goes(p, "install", "return")
    /\ entry' = IF entry = "none" THEN "installed" ELSE entry
    /\ UNCHANGED <<arg, held, handles, polls, state, owner, control>>

uninstall(p) ==
    /\ Goes(p, "uninstall", "return")
    /\ entry' = IF entry = "installed" THEN "deleted" ELSE entry
    /\ UNCHANGED <<arg, held, handles, polls, state, owner, control>>

-----------------------------------------------------------------------------
(* start(), stop(), pause(), resume() and sendCommand() of the controller *)

OpenService(p) ==
    /\ \/ /\ entry # "none" /\ Goes(p, "open", "call")
          /\ handles' = handles \cup {p}
       \/ entry = "none" /\ Goes(p, "open", "return") /\ UNCHANGED handles
    /\ UNCHANGED <<arg, held, polls, scmVars>>

\* The SCM starts the program, for a user or by itself.
Launch(q, starts) ==
    /\ entry = "installed" /\ state = "STOPPED" /\ pc[q] = "down"
    /\ pc' = [r \in Procs |-> IF r = q THEN "isRunning" ELSE IF r \in starts THEN "startWait" ELSE pc[r]]
    /\ state' = "START_PENDING" /\ owner' = {q}
    /\ UNCHANGED <<arg, held, handles, polls, entry, control>>

StartService(p) ==
    /\ pc[p] = "call" /\ arg[p] = ""
    /\ \/ \E q \in Services : Launch(q, {p})
       \/ /\ entry # "installed" \/ state # "STOPPED"
          /\ Goes(p, "call", "close")
          /\ UNCHANGED <<arg, held, handles, polls, scmVars>>

\* The SCM delivers one control at a time, and only to a service that is up.
ControlService(p) ==
    /\ pc[p] = "call" /\ arg[p] \in Controls /\ control = ""
    /\ \/ /\ state \in Up
          /\ Goes(p, "call", "answer")
          /\ control' = arg[p] /\ state' = Pending[arg[p]]
       \/ /\ state \notin Up
          /\ Goes(p, "call", "close")
          /\ UNCHANGED <<control, state>>
    /\ UNCHANGED <<arg, held, handles, polls, entry, owner>>

\* Mutant: one poll too many.
Poll_more(p) ==
    /\ \/ state = "STOPPED" /\ Goes(p, "poll", "close") /\ UNCHANGED polls
       \/ /\ state # "STOPPED" /\ polls[p] <= MaxPolls
          /\ polls' = [polls EXCEPT ![p] = @ + 1] /\ UNCHANGED pc /\ pc[p] = "poll"
       \/ polls[p] > MaxPolls /\ Goes(p, "poll", "close") /\ UNCHANGED polls
    /\ UNCHANGED <<arg, held, handles, scmVars>>

\* Mutant: stop() waits for the end of the service.
Poll_unbounded(p) ==
    /\ state = "STOPPED" /\ Goes(p, "poll", "close")
    /\ UNCHANGED <<arg, held, handles, polls, scmVars>>

\* stop() looks MaxPolls times; QueryServiceStatus() may fail.
Poll(p) ==
    /\ pc[p] = "poll" /\ polls[p] < MaxPolls
    /\ \/ state = "STOPPED" /\ Goes(p, "poll", "close") /\ UNCHANGED polls
       \/ /\ state # "STOPPED" /\ polls' = [polls EXCEPT ![p] = @ + 1]
          /\ IF polls[p] + 1 < MaxPolls THEN UNCHANGED pc
             ELSE Goes(p, "poll", "close")
       \/ Goes(p, "poll", "close") /\ UNCHANGED polls
    /\ UNCHANGED <<arg, held, handles, scmVars>>

CloseServiceHandle(p) ==
    /\ Goes(p, "close", "return")
    /\ handles' = handles \ {p}
    /\ UNCHANGED <<arg, held, polls, scmVars>>

-----------------------------------------------------------------------------
(* The service process *)

Started(q) ==
    /\ pc[q] = "service" /\ state = "START_PENDING"
    /\ state' = "RUNNING"
    /\ UNCHANGED <<procVars, entry, owner, control>>

\* start() returns false; the SCM sees it when the process ends.
StartFails(q) ==
    /\ state = "START_PENDING" /\ Goes(q, "service", "return")
    /\ UNCHANGED <<arg, held, handles, polls, scmVars>>

(***************************************************************************)
(* The callers of ControlService() go on, others as pcs says: to the polls *)
(* of stop(), with the last status not STOPPED, or to the end of the call. *)
(***************************************************************************)
Answers(final, pcs) ==
    LET waits == {u \in Users : pc[u] = "answer"}
        stops == control = "-t" /\ final # "STOPPED" IN
    /\ state' = final /\ control' = ""
    /\ pc' = [u \in Procs |-> IF u \notin waits THEN pcs[u] ELSE IF stops THEN "poll" ELSE "close"]

\* handler() returns, after the callback, and ControlService() with it.
Handled(q) ==
    /\ pc[q] = "service" /\ q \in owner /\ control # ""
    /\ Answers(CASE control = "-p" -> "PAUSED"
                 [] control = "-r" -> "RUNNING"
                 [] OTHER          -> state, pc)
    /\ UNCHANGED <<arg, held, handles, polls, entry, owner>>

\* setStatus(SERVICE_STOPPED), after the event loop, if need be before the
\* handler thread returns from the stop control
ReportStopped(q) ==
    /\ pc[q] = "service" /\ state \in Up \cup {"STOP_PENDING"} /\ control \in {"", "-t"}
    /\ Answers("STOPPED", [pc EXCEPT ![q] = "leaving"])
    /\ owner' = {}
    /\ UNCHANGED <<arg, held, handles, polls, entry>>

\* Mutant: the process waits for the handler thread without a time limit.
Leave_waits(q) == pc[q] = "leaving" /\ control # "" /\ Ends(q)

\* A second at most, the end of the application and of main().
Leave(q) == pc[q] = "leaving" /\ Ends(q)

-----------------------------------------------------------------------------
\* The SCM forgets a deleted service that is stopped and has no handles.
Forget ==
    /\ entry = "deleted" /\ handles = {} /\ state = "STOPPED"
    /\ entry' = "none" /\ UNCHANGED <<procVars, state, owner, control>>

Main(p) == isRunning(p) \/ exec(p) \/ Connect(p) \/ Return(p)

User(u) ==
    \/ install(u) \/ uninstall(u) \/ OpenService(u)
    \/ Poll(u) \/ CloseServiceHandle(u)

Call(u) == StartService(u) \/ ControlService(u)

Service(q) == Started(q) \/ StartFails(q) \/ Handled(q) \/ Leave(q)

Next ==
    \/ \E u \in Users : User(u) \/ Call(u) \/ AppQuits(u) \/ \E a \in Args : Run(u, a)
    \/ \E q \in Services : Service(q) \/ ReportStopped(q) \/ Launch(q, {})
    \/ \E p \in Procs : Main(p) \/ Crash(p)
    \/ Forget

Spec == Init /\ [][Next]_vars

(***************************************************************************)
(* Processes are scheduled and callbacks return; the SCM takes the calls   *)
(* of its clients in turn.  A service may take for ever to stop.           *)
(***************************************************************************)
FairSpec ==
    /\ Spec
    /\ \A p \in Procs : WF_vars(Main(p))
    /\ \A u \in Users : WF_vars(User(u)) /\ SF_vars(Call(u))
    /\ \A q \in Services : WF_vars(Service(q))

-----------------------------------------------------------------------------
(* Properties *)

(***************************************************************************)
(* The code of the service runs in one process at a time: no process that  *)
(* the SCM starts gets there while its predecessor, STOPPED for the SCM,   *)
(* still tears its objects down.                                           *)
(***************************************************************************)
InService(q) == pc[q] \in {"service", "leaving"} \/ (pc[q] = "return" /\ q \in owner)
OneService == \A p, q \in Services : InService(p) /\ InService(q) => p = q

(***************************************************************************)
(* Every command ends, also when the service never stops, when it dies     *)
(* with a control in hand, and when it is turned away.                     *)
(***************************************************************************)
CommandsReturn ==
    \A u \in Users : (pc[u] \notin {"down", "app"}) ~> (pc[u] \in {"down", "app"})

(***************************************************************************)
(* A service is turned away by its predecessor for a while only: if that   *)
(* happens again and again, it is because it also runs again and again.    *)
(***************************************************************************)
Blocked(p) == \E q \in Lock!Peers(p) : held[q] # "NoLock"
TurnedAway(q) == pc[q] = "isRunning" /\ Blocked(q) /\ Ends(q)
NotForEver ==
    \A q \in Services :
        []<><<TurnedAway(q)>>_vars => []<>(\E r \in Services : pc[r] = "service")

-----------------------------------------------------------------------------
(***************************************************************************)
(* "By a service controller [...], with no (service-specific) arguments.   *)
(* ServiceBase::exec() will then call start() below, and the service will  *)
(* start." (qtservice_win.cpp:774): main() sends no process of the SCM     *)
(* back.                                                                   *)
(***************************************************************************)
ScmStartsService ==
    [][\A q \in Services : pc[q] = "isRunning" => pc'[q] \in {"isRunning", "exec"}]_vars
=============================================================================
