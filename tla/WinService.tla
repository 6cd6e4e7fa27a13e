----------------------------- MODULE WinService -----------------------------
(***************************************************************************)
(* The Windows back end of QtService: how one service process runs between *)
(* main() and the service control manager (SCM).  Three threads share the  *)
(* QtServiceSysPrivate object:                                             *)
(*                                                                         *)
(*   main  QtServiceBasePrivate::start(): it waits for the service to be   *)
(*         launched, creates the application, runs its event loop, reports *)
(*         STOPPED and tears everything down;                              *)
(*   "ht"  HandlerThread: inside StartServiceCtrlDispatcher, it runs       *)
(*         handler() for the controls the SCM delivers, one at a time;     *)
(*   "sm"  the thread the SCM creates for serviceMain(), which ends with   *)
(*         handler(QTSERVICE_STARTUP).                                     *)
(*                                                                         *)
(* handler() posts an event to the main thread and waits on a condition    *)
(* variable that the main thread signals, with wakeAll, after every event. *)
(* The status block is written and reported by all three threads; only     *)
(* handler() holds the mutex when it does so.                              *)
(*                                                                         *)
(* qtservice_win.cpp never resets QtServiceSysPrivate::instance, so a      *)
(* thread still inside serviceMain() or handler() after sysCleanup() uses  *)
(* freed memory: UseAfterFree.                                             *)
(***************************************************************************)
EXTENDS Naturals, Sequences, FiniteSets

CONSTANTS
    Commands,      \* user control codes (128..255 on the wire)
    InitialFlags,  \* the ServiceFlags the constructor of the service sets
    FlagChoices,   \* the ServiceFlags a running service may switch to
    Adversity      \* what the environment may do besides delivering controls

Flags == {"CanBeSuspended", "CannotBeStopped", "NeedsStopOnShutdown"}

Adversities ==
    { "quit",              \* the event loop is quit by something else than STOP
      "stopWhileStarting", \* the SCM delivers STOP to a service in START_PENDING
      "graceExpires",      \* ht->wait(1000) ends before the handler thread does
      "startTimeout",      \* startSemaphore.tryAcquire(1, 20000) times out
      "noAdvapi",          \* winServiceInit() cannot resolve the service API
      "dispatchFails",     \* StartServiceCtrlDispatcher returns an error
      "registerFails" }    \* RegisterServiceCtrlHandler returns 0

Requests == {"STARTUP", "STOP", "PAUSE", "CONTINUE", "INTERROGATE", "SHUTDOWN"}

ASSUME CommandsAssumption == Commands \cap (Requests \cup {"none"}) = {}
ASSUME FlagsAssumption ==
    InitialFlags \in SUBSET Flags /\ FlagChoices \in SUBSET (SUBSET Flags)
ASSUME AdversityAssumption == Adversity \in SUBSET Adversities

VARIABLES
    mainPc,       \* where the main thread is in start()
    pc,           \* where "ht" and "sm" are
    code,         \* the argument of the handler() call each of them runs
    startSem,     \* startSemaphore: serviceMain got the arguments
    startSem2,    \* startSemaphore2: the application exists
    mutex,        \* the thread that holds QtServiceSysPrivate::mutex, or "none"
    waiters,      \* the threads in condition.wait()
    queue,        \* events posted to controllerHandler and not yet delivered
    handlerObj,   \* controllerHandler is an object (TRUE) or 0
    status,       \* the SERVICE_STATUS block of the process
    scm,          \* the last status the SCM was told
    registered,   \* serviceStatus is a handle (TRUE) or 0
    sysd,         \* the QtServiceSysPrivate object
    dispatcher,   \* how StartServiceCtrlDispatcher ended, as calledOk() and
                  \* runningAsConsole() tell it
    app,          \* which callback the user's service ran last
    quitting,     \* quit() was called on the event loop
    flags,        \* QtServiceBasePrivate::serviceFlags
    shutdown,     \* the SCM has delivered SHUTDOWN
    startResult   \* what start() returned

mainVars   == <<mainPc, quitting, startResult>>
threadVars == <<pc, code>>
semVars    == <<startSem, startSem2>>
lockVars   == <<mutex, waiters>>
eventVars  == <<queue, handlerObj>>
scmVars    == <<scm, registered, shutdown>>
restVars   == <<sysd, dispatcher, app, flags>>
vars == <<mainVars, threadVars, semVars, lockVars, eventVars, status, scmVars,
          restVars>>

-----------------------------------------------------------------------------
(* Values *)

Threads == {"ht", "sm"}
Codes   == Requests \cup Commands

States == {"STOPPED", "START_PENDING", "RUNNING", "PAUSE_PENDING", "PAUSED",
           "CONTINUE_PENDING", "STOP_PENDING"}
Accepts == {"STOP", "PAUSE_CONTINUE", "SHUTDOWN"}
Status  == [state : States, accepts : SUBSET Accepts]

\* The labels of handler(), in the order of its statements.
HandlerPc == {"lock", "pendReport", "post", "enterWait", "wait", "finalReport",
              "unlock", "check", "report"}
\* Those at which the thread owns the mutex.
CriticalPc == {"pendReport", "post", "enterWait", "finalReport", "unlock"}

HtPc == {"unstarted", "dispatch", "failed", "serving", "finished"} \cup HandlerPc
SmPc == {"unstarted", "args", "acquire2", "register", "done"} \cup HandlerPc

MainPc == {"sysInit", "acquire", "create", "release2", "exec", "wake",
           "stopWrite", "stopReport", "grace", "deleteHandler", "cleanup",
           "returned", "destroyed", "exited"}

\* executeApplication() has returned, or will never be called.
LoopOver == mainPc \in {"stopWrite", "stopReport", "grace", "deleteHandler",
                        "cleanup", "returned", "destroyed", "exited"}

(***************************************************************************)
(* serviceFlags(): the controls the status block accepts.                  *)
(***************************************************************************)
serviceFlags(f) ==
    (IF "CanBeSuspended" \in f THEN {"PAUSE_CONTINUE"} ELSE {})
      \cup (IF "CannotBeStopped" \in f THEN {} ELSE {"STOP"})
      \cup (IF "NeedsStopOnShutdown" \in f THEN {"SHUTDOWN"} ELSE {})

\* Mutant: the startup case reports RUNNING before it has waited.
Pending_running(c) == CASE c = "STARTUP"  -> "RUNNING"
                        [] c = "STOP"     -> "STOP_PENDING"
                        [] c = "PAUSE"    -> "PAUSE_PENDING"
                        [] c = "CONTINUE" -> "CONTINUE_PENDING"
                        [] OTHER          -> "none"

(***************************************************************************)
(* handler(): the status written before the event is posted, the event,    *)
(* and the status written after the wait; "none" where there is none.      *)
(***************************************************************************)
Pending(c) == CASE c = "STARTUP"  -> "START_PENDING"
                [] c = "STOP"     -> "STOP_PENDING"
                [] c = "PAUSE"    -> "PAUSE_PENDING"
                [] c = "CONTINUE" -> "CONTINUE_PENDING"
                [] OTHER          -> "none"

\* Mutant: RESUME copied from PAUSE with its final status.
Final_copied(c) == CASE c = "STARTUP"  -> "RUNNING"
                     [] c = "PAUSE"    -> "PAUSED"
                     [] c = "CONTINUE" -> "PAUSED"
                     [] OTHER          -> "none"

Final(c) == CASE c = "STARTUP"  -> "RUNNING"
              [] c = "PAUSE"    -> "PAUSED"
              [] c = "CONTINUE" -> "RUNNING"
              [] OTHER          -> "none"

EventOf(c) == IF c = "SHUTDOWN" THEN "STOP" ELSE c

(***************************************************************************)
(* pSetServiceStatus(serviceStatus, &status): without a handle it fails.   *)
(***************************************************************************)
Report(s) == scm' = IF registered THEN s ELSE scm

-----------------------------------------------------------------------------
TypeOK ==
    /\ mainPc \in MainPc
    /\ pc \in [Threads -> HtPc \cup SmPc]
    /\ pc["ht"] \in HtPc /\ pc["sm"] \in SmPc
    /\ code \in [Threads -> Codes \cup {"none"}]
    /\ startSem \in {0, 1} /\ startSem2 \in {0, 1}
    /\ mutex \in Threads \cup {"none"}
    /\ waiters \in SUBSET Threads
    /\ queue \in Seq([code : Codes, from : Threads])
    /\ handlerObj \in BOOLEAN
    /\ status \in Status /\ scm \in Status
    /\ registered \in BOOLEAN
    /\ sysd \in {"none", "live", "deleted"}
    /\ dispatcher \in {"ok", "console", "error"}
    /\ app \in {"none", "started", "paused", "stopped"}
    /\ quitting \in BOOLEAN /\ shutdown \in BOOLEAN
    /\ flags \in SUBSET Flags
    /\ startResult \in {"none", "ok", "failed"}

Init ==
    /\ mainPc = "sysInit"
    /\ pc = [t \in Threads |-> "unstarted"]
    /\ code = [t \in Threads |-> "none"]
    /\ startSem = 0 /\ startSem2 = 0
    /\ mutex = "none" /\ waiters = {}
    /\ queue = << >> /\ handlerObj = FALSE
    /\ status = [state |-> "STOPPED", accepts |-> {}]
    /\ scm = [state |-> "STOPPED", accepts |-> {}]
    /\ registered = FALSE /\ shutdown = FALSE
    /\ sysd = "none" /\ dispatcher = "ok" /\ app = "none"
    /\ flags = InitialFlags
    /\ quitting = FALSE /\ startResult = "none"

-----------------------------------------------------------------------------
(* The main thread: QtServiceBasePrivate::start() *)

MainGoes(from, to) == mainPc = from /\ mainPc' = to

\* start() gives up: nothing is cleaned up, exec() returns -4.
MainFails(from) ==
    /\ MainGoes(from, "returned")
    /\ startResult' = "failed"

(***************************************************************************)
(* sysInit(), winServiceInit() and ht->start().                            *)
(***************************************************************************)
SysInit ==
    /\ sysd' = "live"
    /\ status' = [state |-> "STOPPED", accepts |-> serviceFlags(flags)]
    /\ \/ /\ MainGoes("sysInit", "acquire")
          /\ pc' = [pc EXCEPT !["ht"] = "dispatch"]
          /\ UNCHANGED startResult
       \/ /\ "noAdvapi" \in Adversity
          /\ MainFails("sysInit")
          /\ UNCHANGED pc
    /\ UNCHANGED <<quitting, code, semVars, lockVars, eventVars, scmVars,
                   dispatcher, app, flags>>

(***************************************************************************)
(* startSemaphore.tryAcquire() and the tests on the handler thread that    *)
(* follow it.  A process started from the console asks the controller to   *)
(* start the service and returns what controller.start() returns.          *)
(***************************************************************************)
AcquireStart ==
    /\ mainPc = "acquire" /\ startSem > 0
    /\ startSem' = startSem - 1
    /\ \/ /\ dispatcher = "ok"
          /\ mainPc' = "create" /\ UNCHANGED startResult
       \/ /\ dispatcher = "console"
          /\ mainPc' = "returned" /\ startResult' \in {"ok", "failed"}
       \/ /\ dispatcher = "error"
          /\ MainFails("acquire")
    /\ UNCHANGED <<quitting, threadVars, startSem2, lockVars, eventVars, status,
                   scmVars, restVars>>

\* Mutant: the timeout covers the event loop too.
StartTimeout_late ==
    /\ "startTimeout" \in Adversity
    /\ app = "none"
    /\ MainFails("exec")
    /\ UNCHANGED <<quitting, threadVars, semVars, lockVars, eventVars, status,
                   scmVars, restVars>>

StartTimeout ==
    /\ "startTimeout" \in Adversity
    /\ startSem = 0
    /\ MainFails("acquire")
    /\ UNCHANGED <<quitting, threadVars, semVars, lockVars, eventVars, status,
                   scmVars, restVars>>

\* createApplication(), the native event filter, new QtServiceControllerHandler.
\* (createApplication() makes an application, so that "if (!app)" is never true.)
CreateHandler ==
    /\ MainGoes("create", "release2")
    /\ handlerObj' = TRUE
    /\ UNCHANGED <<quitting, startResult, threadVars, semVars, lockVars, queue,
                   status, scmVars, restVars>>

ReleaseStart2 ==
    /\ MainGoes("release2", "exec")
    /\ startSem2' = startSem2 + 1
    /\ UNCHANGED <<quitting, startResult, threadVars, startSem, lockVars,
                   eventVars, status, scmVars, restVars>>

(***************************************************************************)
(* handleCustomEvent(): the callback of the service that the event names,  *)
(* and quit() after stop().  The mutex is not held.                        *)
(***************************************************************************)
Callback(c) == CASE c = "STARTUP"  -> "started"
                 [] c = "STOP"     -> "stopped"
                 [] c = "PAUSE"    -> "paused"
                 [] c = "CONTINUE" -> "started"
                 [] OTHER          -> app    \* processCommand() or nothing

\* Mutant: the last event posted is delivered first.
HandleEvent_lifo ==
    /\ MainGoes("exec", "wake")
    /\ queue # << >>
    /\ queue' = SubSeq(queue, 1, Len(queue) - 1)
    /\ app' = Callback(queue[Len(queue)].code)
    /\ quitting' = (quitting \/ queue[Len(queue)].code = "STOP")
    /\ UNCHANGED <<startResult, threadVars, semVars, lockVars, handlerObj,
                   status, scmVars, sysd, dispatcher, flags>>

\* Mutant: user commands return before the waiting thread is woken.
HandleEvent_return ==
    /\ mainPc = "exec"
    /\ queue # << >>
    /\ mainPc' = IF Head(queue).code \in Commands THEN "exec" ELSE "wake"
    /\ queue' = Tail(queue)
    /\ app' = Callback(Head(queue).code)
    /\ quitting' = (quitting \/ Head(queue).code = "STOP")
    /\ UNCHANGED <<startResult, threadVars, semVars, lockVars, handlerObj,
                   status, scmVars, sysd, dispatcher, flags>>

\* Mutant: stop() is not followed by quit().
HandleEvent_noQuit ==
    /\ MainGoes("exec", "wake")
    /\ queue # << >>
    /\ queue' = Tail(queue)
    /\ app' = Callback(Head(queue).code)
    /\ UNCHANGED <<quitting, startResult, threadVars, semVars, lockVars,
                   handlerObj, status, scmVars, sysd, dispatcher, flags>>

HandleEvent ==
    /\ MainGoes("exec", "wake")
    /\ queue # << >>
    /\ queue' = Tail(queue)
    /\ app' = Callback(Head(queue).code)
    /\ quitting' = (quitting \/ Head(queue).code = "STOP")
    /\ UNCHANGED <<startResult, threadVars, semVars, lockVars, handlerObj,
                   status, scmVars, sysd, dispatcher, flags>>

\* The end of handleCustomEvent(): lock, wakeAll, unlock.
WakeAll ==
    /\ MainGoes("wake", "exec")
    /\ mutex = "none"
    /\ waiters' = {}
    /\ UNCHANGED <<quitting, startResult, threadVars, semVars, mutex, eventVars,
                   status, scmVars, restVars>>

(***************************************************************************)
(* The event filter swallows only the WM_ENDSESSION messages of a logoff:  *)
(* any other one, and any quit() of the application, ends the event loop.  *)
(***************************************************************************)
EnvQuit ==
    /\ "quit" \in Adversity
    /\ mainPc = "exec"
    /\ quitting' = TRUE
    /\ UNCHANGED <<mainPc, startResult, threadVars, semVars, lockVars, eventVars,
                   status, scmVars, restVars>>

\* executeApplication() returns; events still queued are never delivered.
ExecReturn ==
    /\ MainGoes("exec", "stopWrite")
    /\ quitting
    /\ UNCHANGED <<quitting, startResult, threadVars, semVars, lockVars,
                   eventVars, status, scmVars, restVars>>

\* setStatus(SERVICE_STOPPED), without the mutex: the assignment ...
StopWrite ==
    /\ MainGoes("stopWrite", "stopReport")
    /\ status' = [status EXCEPT !.state = "STOPPED"]
    /\ UNCHANGED <<quitting, startResult, threadVars, semVars, lockVars,
                   eventVars, scmVars, restVars>>

\* ... and the call of SetServiceStatus.
StopReport ==
    /\ MainGoes("stopReport", "grace")
    /\ Report(status)
    /\ UNCHANGED <<quitting, startResult, threadVars, semVars, lockVars,
                   eventVars, status, registered, shutdown, restVars>>

Grace ==
    /\ MainGoes("grace", "deleteHandler")
    /\ pc["ht"] = "finished" \/ "graceExpires" \in Adversity
    /\ UNCHANGED <<quitting, startResult, threadVars, semVars, lockVars,
                   eventVars, status, scmVars, restVars>>

\* delete controllerHandler takes the events posted to it with it.
DeleteHandler ==
    /\ MainGoes("deleteHandler", "cleanup")
    /\ handlerObj' = FALSE /\ queue' = << >>
    /\ UNCHANGED <<quitting, startResult, threadVars, semVars, lockVars, status,
                   scmVars, restVars>>

SysCleanup ==
    /\ MainGoes("cleanup", "returned")
    /\ sysd' = "deleted"
    /\ startResult' = "ok"
    /\ UNCHANGED <<quitting, threadVars, semVars, lockVars, eventVars, status,
                   scmVars, dispatcher, app, flags>>

\* main() returns from exec() and destroys the service object.
DestroyService ==
    /\ MainGoes("returned", "destroyed")
    /\ UNCHANGED <<quitting, startResult, threadVars, semVars, lockVars,
                   eventVars, status, scmVars, restVars>>

\* The end of the process ends its threads, and the SCM sees it.
ProcessExit ==
    /\ MainGoes("destroyed", "exited")
    /\ pc' = [pc EXCEPT !["ht"] = "finished", !["sm"] = "done"]
    /\ mutex' = "none" /\ waiters' = {}
    /\ scm' = [state |-> "STOPPED", accepts |-> {}]
    /\ UNCHANGED <<quitting, startResult, code, semVars, eventVars, status,
                   registered, shutdown, restVars>>

(***************************************************************************)
(* setServiceFlags(), called by the service on the main thread once it has *)
(* been started: an unlocked write of the status block and a report.       *)
(***************************************************************************)
SetServiceFlags ==
    /\ mainPc \in {"exec", "wake"} /\ app # "none"
    /\ \E f \in FlagChoices \ {flags} :
          /\ flags' = f
          /\ status' = [status EXCEPT !.accepts = serviceFlags(f)]
    /\ Report(status')
    /\ UNCHANGED <<mainVars, threadVars, semVars, lockVars, eventVars,
                   registered, shutdown, sysd, dispatcher, app>>

-----------------------------------------------------------------------------
(* handler(), run by thread t *)

Goes(t, from, to) == pc[t] = from /\ pc' = [pc EXCEPT ![t] = to]

\* Mutant: every thread goes back to the dispatcher.
Caller_dispatcher(t) == "serving"

\* Where the thread is once handler() has returned.
Caller(t) == IF t = "ht" THEN "serving" ELSE "done"

\* mutex.lock() and the assignment of the pending status, if the code has one.
Lock(t) ==
    /\ sysd = "live" /\ mutex = "none"
    /\ mutex' = t
    /\ \/ /\ Pending(code[t]) # "none"
          /\ Goes(t, "lock", "pendReport")
          /\ status' = [status EXCEPT !.state = Pending(code[t])]
       \/ /\ Pending(code[t]) = "none" /\ code[t] # "INTERROGATE"
          /\ Goes(t, "lock", "post")
          /\ UNCHANGED status
       \/ /\ code[t] = "INTERROGATE"
          /\ Goes(t, "lock", "unlock")
          /\ UNCHANGED status
    /\ UNCHANGED <<mainVars, code, semVars, waiters, eventVars, scmVars, restVars>>

ReportPending(t) ==
    /\ sysd = "live"
    /\ Goes(t, "pendReport", "post")
    /\ Report(status)
    /\ UNCHANGED <<mainVars, code, semVars, lockVars, eventVars, status,
                   registered, shutdown, restVars>>

\* Mutant: the mutex is given up before the wait.
PostEvent_unlocked(t) ==
    /\ sysd = "live"
    /\ Goes(t, "post", "enterWait")
    /\ queue' = IF handlerObj
                THEN Append(queue, [code |-> EventOf(code[t]), from |-> t])
                ELSE queue
    /\ mutex' = "none"
    /\ UNCHANGED <<mainVars, code, semVars, waiters, handlerObj, status,
                   scmVars, restVars>>

\* postEvent(controllerHandler, ...): an event for a null receiver is dropped.
PostEvent(t) ==
    /\ sysd = "live"
    /\ Goes(t, "post", "enterWait")
    /\ queue' = IF handlerObj
                THEN Append(queue, [code |-> EventOf(code[t]), from |-> t])
                ELSE queue
    /\ UNCHANGED <<mainVars, code, semVars, lockVars, handlerObj, status,
                   scmVars, restVars>>

\* Mutant: unlock and lock again instead of condition.wait().
EnterWait_noWait(t) ==
    /\ sysd = "live"
    /\ Goes(t, "enterWait", "wait")
    /\ mutex' = "none"
    /\ UNCHANGED <<mainVars, code, semVars, waiters, eventVars, status, scmVars,
                   restVars>>

\* condition.wait(&mutex) gives the mutex up and joins the waiters in one step.
EnterWait(t) ==
    /\ sysd = "live"
    /\ Goes(t, "enterWait", "wait")
    /\ mutex' = "none" /\ waiters' = waiters \cup {t}
    /\ UNCHANGED <<mainVars, code, semVars, eventVars, status, scmVars, restVars>>

\* Woken, with the mutex again: the assignment of the final status, if any.
Resume(t) ==
    /\ sysd = "live"
    /\ t \notin waiters /\ mutex = "none"
    /\ mutex' = t
    /\ \/ /\ Final(code[t]) # "none"
          /\ Goes(t, "wait", "finalReport")
          /\ status' = [status EXCEPT !.state = Final(code[t])]
       \/ /\ Final(code[t]) = "none"
          /\ Goes(t, "wait", "unlock")
          /\ UNCHANGED status
    /\ UNCHANGED <<mainVars, code, semVars, waiters, eventVars, scmVars, restVars>>

ReportFinal(t) ==
    /\ sysd = "live"
    /\ Goes(t, "finalReport", "unlock")
    /\ Report(status)
    /\ UNCHANGED <<mainVars, code, semVars, lockVars, eventVars, status,
                   registered, shutdown, restVars>>

Unlock(t) ==
    /\ sysd = "live"
    /\ Goes(t, "unlock", "check")
    /\ mutex' = "none"
    /\ UNCHANGED <<mainVars, code, semVars, waiters, eventVars, status, scmVars,
                   restVars>>

\* "Report current status", read twice and without the mutex.
CheckStatus(t) ==
    /\ sysd = "live"
    /\ Goes(t, "check", IF status.state # "STOPPED" THEN "report" ELSE Caller(t))
    /\ UNCHANGED <<mainVars, code, semVars, lockVars, eventVars, status, scmVars,
                   restVars>>

ReportCurrent(t) ==
    /\ sysd = "live"
    /\ Goes(t, "report", Caller(t))
    /\ Report(status)
    /\ UNCHANGED <<mainVars, code, semVars, lockVars, eventVars, status,
                   registered, shutdown, restVars>>

(***************************************************************************)
(* After delete sysd: the thread reads freed memory.  It reports whatever  *)
(* is there and leaves handler() or serviceMain(), or it never returns: an *)
(* access violation ends the process, which is ProcessExit.                *)
(***************************************************************************)
UseAfterFree(t) ==
    /\ sysd = "deleted"
    /\ pc[t] \in HandlerPc \cup {"acquire2", "register"}
    /\ pc' = [pc EXCEPT ![t] = Caller(t)]
    /\ scm' \in {scm} \cup [state : States, accepts : {scm.accepts}]
    /\ UNCHANGED <<mainVars, code, semVars, lockVars, eventVars, status,
                   registered, shutdown, restVars>>

Handler(t) ==
    \/ Lock(t) \/ ReportPending(t) \/ PostEvent(t) \/ EnterWait(t)
    \/ Resume(t) \/ ReportFinal(t) \/ Unlock(t)
    \/ CheckStatus(t) \/ ReportCurrent(t)
    \/ UseAfterFree(t)

-----------------------------------------------------------------------------
(* The handler thread *)

(***************************************************************************)
(* StartServiceCtrlDispatcher connects to the SCM, which creates the       *)
(* thread of serviceMain() and shows the service as starting, or it fails  *)
(* at once: with ERROR_FAILED_SERVICE_CONTROLLER_CONNECT when the process  *)
(* was started from the console.                                           *)
(***************************************************************************)
Dispatch ==
    \/ /\ pc["ht"] = "dispatch"
       /\ pc' = [pc EXCEPT !["ht"] = "serving", !["sm"] = "args"]
       /\ scm' = [state |-> "START_PENDING", accepts |-> {}]
       /\ UNCHANGED <<mainVars, code, semVars, lockVars, eventVars, status,
                      registered, shutdown, restVars>>
    \/ /\ "dispatchFails" \in Adversity
       /\ Goes("ht", "dispatch", "failed")
       /\ dispatcher' \in {"console", "error"}
       /\ UNCHANGED <<mainVars, code, semVars, lockVars, eventVars, status,
                      scmVars, sysd, app, flags>>

\* let start() continue, since serviceMain won't be doing it
DispatchFailed ==
    /\ Goes("ht", "failed", "finished")
    /\ startSem' = startSem + 1
    /\ UNCHANGED <<mainVars, code, startSem2, lockVars, eventVars, status,
                   scmVars, restVars>>

(***************************************************************************)
(* The SCM delivers control c: not before the handler is registered, one   *)
(* at a time, by the state and the accepted controls it was told, and      *)
(* nothing after SHUTDOWN.                                                 *)
(***************************************************************************)
Running == {"RUNNING", "PAUSE_PENDING", "PAUSED", "CONTINUE_PENDING"}

Accepted(c) ==
    /\ registered /\ ~ shutdown
    /\ \/ scm.state \in Running
       \/ /\ scm.state = "START_PENDING" /\ c = "STOP"
          /\ "stopWhileStarting" \in Adversity
    /\ CASE c \in {"PAUSE", "CONTINUE"} -> "PAUSE_CONTINUE" \in scm.accepts
         [] c \in {"STOP", "SHUTDOWN"}  -> c \in scm.accepts
         [] OTHER                       -> TRUE

Control(c) ==
    /\ c # "STARTUP"
    /\ Accepted(c)
    /\ Goes("ht", "serving", "lock")
    /\ code' = [code EXCEPT !["ht"] = c]
    /\ shutdown' = (shutdown \/ c = "SHUTDOWN")
    /\ UNCHANGED <<mainVars, semVars, lockVars, eventVars, status, scm,
                   registered, restVars>>

\* The dispatcher returns once the service has reported STOPPED.
DispatcherReturns ==
    /\ scm.state = "STOPPED"
    /\ Goes("ht", "serving", "finished")
    /\ UNCHANGED <<mainVars, code, semVars, lockVars, eventVars, status, scmVars,
                   restVars>>

-----------------------------------------------------------------------------
(* The thread of serviceMain() *)

\* No service object any more, or the arguments and startSemaphore.release().
ServiceArgs ==
    /\ \/ /\ mainPc = "destroyed"
          /\ Goes("sm", "args", "done") /\ UNCHANGED startSem
       \/ /\ mainPc # "destroyed"
          /\ Goes("sm", "args", "acquire2") /\ startSem' = startSem + 1
    /\ UNCHANGED <<mainVars, code, startSem2, lockVars, eventVars, status,
                   scmVars, restVars>>

\* Mutant: serviceMain() does not wait for the application.
AcquireStart2_noWait ==
    /\ sysd = "live"
    /\ Goes("sm", "acquire2", "register")
    /\ UNCHANGED <<mainVars, code, semVars, lockVars, eventVars, status,
                   scmVars, restVars>>

AcquireStart2 ==
    /\ sysd = "live" /\ startSem2 > 0
    /\ Goes("sm", "acquire2", "register")
    /\ startSem2' = startSem2 - 1
    /\ UNCHANGED <<mainVars, code, startSem, lockVars, eventVars, status,
                   scmVars, restVars>>

\* pRegisterServiceCtrlHandler(), then handler(QTSERVICE_STARTUP).
Register ==
    /\ sysd = "live"
    /\ \/ /\ Goes("sm", "register", "lock")
          /\ registered' = TRUE
          /\ code' = [code EXCEPT !["sm"] = "STARTUP"]
       \/ /\ "registerFails" \in Adversity
          /\ Goes("sm", "register", "done")
          /\ UNCHANGED <<registered, code>>
    /\ UNCHANGED <<mainVars, semVars, lockVars, eventVars, status, scm, shutdown,
                   restVars>>

-----------------------------------------------------------------------------
(* What the main thread does by itself; EnvQuit, StartTimeout and          *)
(* SetServiceFlags are choices of the environment and of the service.      *)
MainStep ==
    \/ SysInit \/ AcquireStart \/ CreateHandler \/ ReleaseStart2
    \/ HandleEvent \/ WakeAll \/ ExecReturn \/ StopWrite \/ StopReport
    \/ Grace \/ DeleteHandler \/ SysCleanup \/ DestroyService \/ ProcessExit

HtStep == Dispatch \/ DispatchFailed \/ DispatcherReturns \/ Handler("ht")
SmStep == ServiceArgs \/ AcquireStart2 \/ Register \/ Handler("sm")

\* The process is gone.
Terminated == mainPc = "exited" /\ UNCHANGED vars

Next ==
    \/ MainStep \/ HtStep \/ SmStep
    \/ \E c \in Codes : Control(c)
    \/ EnvQuit \/ StartTimeout \/ SetServiceFlags
    \/ Terminated

Spec == Init /\ [][Next]_vars

(***************************************************************************)
(* Threads are scheduled; the SCM need not send anything.                  *)
(***************************************************************************)
Fairness == WF_vars(MainStep) /\ WF_vars(HtStep) /\ WF_vars(SmStep)
FairSpec == Spec /\ Fairness

-----------------------------------------------------------------------------
(* Properties *)

(***************************************************************************)
(* No wake-up is lost: a thread that waits in handler(), or is about to,   *)
(* has its own event still queued, or the main thread has taken an event   *)
(* and not yet called wakeAll, or the event loop is over.                  *)
(***************************************************************************)
NoLostWakeup ==
    \A t \in Threads :
        (t \in waiters \/ pc[t] = "enterWait") =>
            \/ \E i \in 1..Len(queue) : queue[i].from = t
            \/ mainPc = "wake"
            \/ LoopOver

(***************************************************************************)
(* startSemaphore2 and the registration of the handler keep every event    *)
(* behind the creation of controllerHandler: while the event loop lives, a *)
(* thread that is about to post an event has a receiver for it.            *)
(***************************************************************************)
ReceiverReady ==
    \A t \in Threads : pc[t] = "post" => handlerObj \/ LoopOver

(***************************************************************************)
(* The SCM is never told RUNNING, PAUSED or one of the pending states that *)
(* lead there before start() has run on the main thread, whatever controls *)
(* arrive while the service starts, and however the event loop ends.       *)
(***************************************************************************)
RunningAfterStart ==
    (sysd = "live" /\ scm.state \in Running) => app # "none"

(***************************************************************************)
(* start() is the first callback the service object sees, even when the    *)
(* SCM sends STOP while the service is still starting.                     *)
(***************************************************************************)
StartComesFirst == [][app = "none" => app' \in {"none", "started"}]_vars

(***************************************************************************)
(* When start() fails (exec() returns -4), no callback has run, no thread  *)
(* waits for one, and the SCM was not told that the service runs.          *)
(***************************************************************************)
CleanFailure ==
    (startResult = "failed" /\ mainPc # "exited") =>
        app = "none" /\ waiters = {} /\ scm.state \in {"STOPPED", "START_PENDING"}

(***************************************************************************)
(* Without adversity a thread leaves its wait only after the callback of   *)
(* its own event has run, though wakeAll wakes the threads of all events.  *)
(***************************************************************************)
OwnEventServed ==
    \A t \in Threads : (pc[t] = "wait" /\ t \notin waiters) =>
        \A i \in 1..Len(queue) : queue[i].from # t

(***************************************************************************)
(* What the SCM and the service object see, when the environment is benign,*)
(* is a ServiceLifecycle, until the process deletes the status block: what *)
(* a thread that outlives it may still report is NoUseAfterFree's subject. *)
(***************************************************************************)
Lifecycle == INSTANCE ServiceLifecycle
    WITH state <- IF sysd = "deleted" THEN "STOPPED" ELSE scm.state
LifecycleSpec == Lifecycle!Spec

(***************************************************************************)
(* Every control the SCM delivers is answered: handler() returns.          *)
(***************************************************************************)
ControlReturns == (pc["ht"] = "lock") ~> (pc["ht"] \in {"serving", "finished"})

(***************************************************************************)
(* A service that was launched is reported RUNNING, and one that was asked *)
(* to stop, or shut down, runs stop() and its process ends.                *)
(***************************************************************************)
StartsAndStops ==
    /\ (scm.state = "START_PENDING" /\ sysd = "live") ~> (scm.state = "RUNNING")
    /\ (scm.state = "STOP_PENDING" \/ shutdown) ~> (mainPc = "exited" /\ app = "stopped")

-----------------------------------------------------------------------------
(* What the comments and the documentation say, and the code does not do.  *)

(***************************************************************************)
(* "let the handler thread finish" (qtservice_win.cpp:845): no thread is   *)
(* inside handler() once sysCleanup() has deleted the object it works on.  *)
(***************************************************************************)
NoUseAfterFree ==
    sysd = "deleted" =>
        \A t \in Threads : pc[t] \notin HandlerPc \cup {"acquire2", "register"}

(***************************************************************************)
(* "Returns true if a running service was successfully paused"             *)
(* (qtservice.cpp:387): a service reported PAUSED has run pause(), and has *)
(* not run another callback since unless it is being shut down.            *)
(***************************************************************************)
PausedMeansPaused ==
    (sysd = "live" /\ scm.state = "PAUSED" /\ ~ shutdown) => app = "paused"
=============================================================================
