---------------------- MODULE WinServiceLifecycleProofs ----------------------
(***************************************************************************)
(* In a benign environment (Adversity = {}) WinService implements          *)
(* ServiceLifecycle, for every set of commands and every choice of flags,  *)
(* a thread leaves its wait only when its own event has been handled, and  *)
(* PAUSED is shown of a service that has run pause().                      *)
(*                                                                         *)
(* The invariant says for every place of the two threads what the SCM was  *)
(* told, what the status block holds and which callback ran last (Phases), *)
(* that one event is on its way at most (Flight), and in which order the   *)
(* process ends (Ended).                                                   *)
(***************************************************************************)
EXTENDS WinServiceProofs

\* t has posted its event and has not been woken.
InFlight(t) == pc[t] = "enterWait" \/ t \in waiters

\* Where serviceMain() is once RUNNING has been reported.
Ran == {"unlock", "check", "report", "done"}

-----------------------------------------------------------------------------
(* What was told, what the status block holds, which callback ran *)

\* No control is being handled, and stop() has not run.
Idle ==
    /\ scm.state = status.state
    /\ \/ status.state = "RUNNING" /\ app = "started"
       \/ status.state = "PAUSED" /\ app = "paused"

\* stop() has run, after a STOP or a SHUTDOWN; STOPPED is written by the main thread.
Stopping ==
    /\ app = "stopped" /\ quitting
    /\ \/ /\ code["ht"] = "STOP" /\ ~ shutdown
          /\ status.state \in {"STOP_PENDING", "STOPPED"}
          /\ scm.state \in {"STOP_PENDING", "STOPPED"}
       \/ /\ code["ht"] = "SHUTDOWN" /\ shutdown
          /\ status.state \in {"RUNNING", "PAUSED", "STOPPED"}
          /\ scm.state \in {"RUNNING", "PAUSED", "STOPPED"}
    /\ status.state = "STOPPED" \/ scm.state = status.state
    /\ status.state = "STOPPED" <=> mainPc \in {"stopReport", "grace", "deleteHandler", "cleanup"}
    /\ mainPc \in {"grace", "deleteHandler", "cleanup"} => scm.state = "STOPPED"

\* The callback of the control that "ht" handles has still to run.
Posted ==
    IF Pending(code["ht"]) = "none" THEN Idle
    ELSE /\ app \in {"started", "paused"}
         /\ scm.state = status.state /\ status.state = Pending(code["ht"])

\* It has run, and "ht" has not written the final status.
Served ==
    CASE code["ht"] \in {"STOP", "SHUTDOWN"} -> Stopping
      [] code["ht"] \in {"PAUSE", "CONTINUE"} ->
            /\ scm.state = status.state /\ status.state = Pending(code["ht"])
            /\ app = Callback(code["ht"])
      [] OTHER -> Idle

\* serviceMain() starts the service.
StartPhase ==
    pc["sm"] \notin Ran =>
        /\ \/ pc["ht"] \in {"unstarted", "dispatch", "serving"}
           \/ pc["ht"] = "lock" /\ pc["sm"] = "finalReport" /\ scm.state = "RUNNING"
        /\ ~ quitting /\ (shutdown => pc["ht"] = "lock")
        /\ pc["sm"] = "unstarted" => scm.state = "STOPPED" /\ app = "none"
        /\ pc["sm"] \in {"args", "acquire2", "register", "lock"} =>
              scm.state = "START_PENDING" /\ app = "none"
        /\ pc["sm"] \in {"pendReport", "post"} =>
              /\ scm.state = "START_PENDING" /\ status.state = "START_PENDING"
              /\ app = "none"
        /\ pc["sm"] \in {"enterWait", "wait"} =>
              /\ scm.state = "START_PENDING" /\ status.state = "START_PENDING"
              /\ app = IF queue = << >> THEN "started" ELSE "none"
        /\ pc["sm"] = "finalReport" =>
              /\ status.state = "RUNNING" /\ app = "started"
              /\ scm.state \in {"START_PENDING", "RUNNING"}

\* The handler thread handles one control after the other.
RunPhase ==
    pc["sm"] \in Ran =>
        /\ pc["ht"] = "serving" => Idle \/ Stopping
        /\ pc["ht"] = "lock" => Idle
        /\ pc["ht"] = "pendReport" =>
              /\ app \in {"started", "paused"} /\ Pending(code["ht"]) # "none"
              /\ status.state = Pending(code["ht"])
              /\ scm.state \in {status.state, "RUNNING", "PAUSED"}
              /\ scm.state = "PAUSED" => app = "paused"
        /\ pc["ht"] = "post" => Posted /\ code["ht"] # "INTERROGATE"
        /\ pc["ht"] \in {"enterWait", "wait"} =>
              /\ IF queue = << >> THEN Served ELSE Posted
              /\ code["ht"] # "INTERROGATE"
        /\ pc["ht"] = "finalReport" =>
              /\ code["ht"] \in {"PAUSE", "CONTINUE"} /\ app = Callback(code["ht"])
              /\ status.state = Final(code["ht"])
              /\ scm.state \in {Pending(code["ht"]), Final(code["ht"])}
        /\ pc["ht"] \in {"unlock", "check", "report"} =>
              (Idle /\ code["ht"] # "SHUTDOWN") \/ Stopping
        /\ pc["ht"] = "finished" => Stopping

Phases == sysd # "deleted" => StartPhase /\ RunPhase

\* One event at a time is on its way, and its thread waits for it.
Flight ==
    /\ \A t \in waiters : pc[t] = "wait"
    /\ \A t \in Threads : InFlight(t) =>
          \/ queue = << [code |-> EventOf(code[t]), from |-> t] >> /\ mainPc = "exec"
          \/ queue = << >> /\ mainPc = "wake"
    /\ queue # << >> \/ mainPc = "wake" => \E t \in Threads : InFlight(t)
    /\ pc["ht"] \in HandlerPc \ {"lock"} => pc["sm"] \in Ran
    /\ pc["ht"] \in HandlerPc => (shutdown <=> code["ht"] = "SHUTDOWN")
    /\ shutdown => pc["ht"] \in HandlerPc \/ app = "stopped"
    /\ pc["sm"] = "unlock" => pc["ht"] \in {"serving", "lock"} /\ Idle
    /\ LoopOver => quitting
    /\ quitting => app = "stopped"

\* The process ends after stop() and after the handler thread; nothing else failed.
Ended ==
    /\ mainPc \in {"returned", "destroyed", "exited"} => sysd = "deleted"
    /\ mainPc \in {"deleteHandler", "cleanup", "returned", "destroyed", "exited"} =>
          pc["ht"] = "finished"
    /\ sysd = "deleted" =>
          queue = << >> /\ waiters = {} /\ pc["sm"] \in Ran /\ app = "stopped"
    /\ mainPc # "sysInit" /\ mainPc # "exited" => pc["ht"] # "unstarted"
    /\ dispatcher = "ok" /\ pc["ht"] # "failed"
    /\ pc["sm"] \in Ran => registered

BInv == Phases /\ Flight /\ Ended

-----------------------------------------------------------------------------
(* The invariant is preserved *)

\* A first element.
LEMMA OneElement == \A e : Append(<< >>, e) = << e >>
OBVIOUS

\* The event posted is the only one on its way.
LEMMA PostAlone ==
    ASSUME IInv, BInv, NEW t \in Threads, PostEvent(t)
    PROVE  /\ queue = << >> /\ mainPc = "exec"
           /\ queue' = << [code |-> EventOf(code[t]), from |-> t] >>
           /\ \A u \in Threads : ~ InFlight(u)
<1> USE DEF IInv, BInv, Threads, PostEvent, Goes
<1>1. \A u \in Threads : ~ InFlight(u)
    BY DEF Flight, InFlight, Ended, Phases, StartPhase, TypeOK, SmPc, Ran, HandlerPc
<1>2. queue = << >> /\ mainPc # "wake"
    BY <1>1 DEF Flight
<1>3. ~ LoopOver
    BY DEF Flight, MainOrder, Phases, StartPhase, RunPhase, Posted, Idle, TypeOK, SmPc, Ran
<1>4. mainPc = "exec" /\ handlerObj
    BY <1>2, <1>3 DEF RegisterOrder, HandlerPc
<1> QED
    BY <1>1, <1>2, <1>4, OneElement

\* The event handled is that of the one thread that waits.
LEMMA HandleAlone ==
    ASSUME IInv, BInv, HandleEvent
    PROVE  /\ queue' = << >>
           /\ \E t \in Threads : InFlight(t) /\ Head(queue).code = EventOf(code[t])
<1>1. PICK t \in Threads : InFlight(t)
    BY DEF BInv, Flight, HandleEvent
<1>2. queue = << [code |-> EventOf(code[t]), from |-> t] >>
    BY <1>1 DEF BInv, Flight, HandleEvent
<1>3. Tail(queue) = << >> /\ Head(queue).code = EventOf(code[t])
    BY <1>2
<1> QED
    BY <1>1, <1>3 DEF HandleEvent

\* The callback that the event of "ht" names has run.
LEMMA CallbackServes ==
    ASSUME Posted, code["ht"] \in Codes \ {"STARTUP", "INTERROGATE"}, HandleEvent,
           Head(queue).code = EventOf(code["ht"]), shutdown <=> code["ht"] = "SHUTDOWN",
           app # "stopped"
    PROVE  Served'
<1> USE DEF HandleEvent, MainGoes, EventOf
<1>1. /\ UNCHANGED <<code, status, scm, shutdown>> /\ mainPc' = "wake"
      /\ app' = Callback(EventOf(code["ht"]))
      /\ quitting' = (quitting \/ EventOf(code["ht"]) = "STOP")
    BY DEF threadVars, scmVars
<1>2. CASE code["ht"] = "STOP"
    BY <1>1, <1>2 DEF Posted, Pending, Served, Stopping, Callback
<1>3. CASE code["ht"] = "SHUTDOWN"
    BY <1>1, <1>3 DEF Posted, Pending, Idle, Served, Stopping, Callback
<1>4. CASE code["ht"] \in {"PAUSE", "CONTINUE"}
    BY <1>1, <1>4 DEF Posted, Pending, Served, Callback
<1>5. CASE code["ht"] \notin {"STOP", "SHUTDOWN", "PAUSE", "CONTINUE"}
    <2>1. app' = app /\ Idle
        BY <1>1, <1>5 DEF Posted, Pending, Callback
    <2> QED
        BY <1>1, <1>5, <2>1 DEF Idle, Served
<1> QED
    BY <1>2, <1>3, <1>4, <1>5

LEMMA PhasesNext ==
    ASSUME Adversity = {}, IInv, BInv, [Next]_vars
    PROVE  Phases'
<1> USE DEF IInv, BInv, TypeOK, MainGoes, MainFails, Goes, Caller, Report, Status, Threads, HandlerPc,
            mainVars, threadVars, semVars, lockVars, eventVars,
            scmVars, restVars, MainOrder, StartOrder,
            RegisterOrder, Mutex, CriticalPc, Ended, Flight,
            LoopOver, InFlight, Phases, StartPhase, RunPhase, Ran,
            Stopping, Idle, Served, Posted, Pending, Final,
            Callback, EventOf, SmPc
<1>1. CASE SysInit
    BY <1>1 DEF SysInit
<1>2. CASE AcquireStart
    BY <1>2 DEF AcquireStart
<1>3. CASE CreateHandler
    BY <1>3 DEF CreateHandler
<1>4. CASE ReleaseStart2
    BY <1>4 DEF ReleaseStart2
<1>5. CASE HandleEvent
    <2>1. PICK t \in Threads : InFlight(t) /\ Head(queue).code = EventOf(code[t])
        BY <1>5, HandleAlone
    <2>2. queue' = << >> /\ mainPc = "exec" /\ queue # << >>
        BY <1>5, HandleAlone DEF HandleEvent
    <2>3. StartPhase'
        BY <1>5, <2>1, <2>2, SMTT(30) DEF HandleEvent
    <2>4. RunPhase'
        <3>1. CASE t = "sm"
            BY <1>5, <2>1, <2>2, <3>1 DEF HandleEvent
        <3>2. CASE t = "ht"
            <4>1. Served' /\ pc["ht"] \in {"enterWait", "wait"}
                BY <1>5, <2>1, <2>2, <3>2, CallbackServes DEF HandleEvent
            <4> QED
                BY <1>5, <2>2, <4>1 DEF HandleEvent
        <3> QED
            BY <3>1, <3>2
    <2> QED
        BY <2>3, <2>4
<1>6. CASE WakeAll
    BY <1>6 DEF WakeAll
<1>7. CASE ExecReturn
    BY <1>7 DEF ExecReturn
<1>8. CASE StopWrite
    BY <1>8 DEF StopWrite
<1>9. CASE StopReport
    BY <1>9 DEF StopReport
<1>10. CASE Grace
    BY <1>10 DEF Grace
<1>11. CASE DeleteHandler
    BY <1>11 DEF DeleteHandler
<1>12. CASE SysCleanup
    BY <1>12 DEF SysCleanup
<1>13. CASE DestroyService
    BY <1>13 DEF DestroyService
<1>14. CASE ProcessExit
    BY <1>14 DEF ProcessExit
<1>15. CASE EnvQuit
    BY <1>15 DEF EnvQuit
<1>16. CASE StartTimeout
    BY <1>16 DEF StartTimeout
<1>17. CASE SetServiceFlags
    BY <1>17 DEF SetServiceFlags
<1>18. CASE Dispatch
    BY <1>18 DEF Dispatch
<1>19. CASE DispatchFailed
    BY <1>19 DEF DispatchFailed
<1>20. CASE DispatcherReturns
    BY <1>20 DEF DispatcherReturns
<1>21. CASE ServiceArgs
    BY <1>21 DEF ServiceArgs
<1>22. CASE AcquireStart2
    BY <1>22 DEF AcquireStart2
<1>23. CASE Register
    BY <1>23 DEF Register
<1>24. CASE Lock("ht")
    BY <1>24 DEF Lock
<1>25. CASE Lock("sm")
    BY <1>25 DEF Lock
<1>26. CASE ReportPending("ht")
    BY <1>26 DEF ReportPending
<1>27. CASE ReportPending("sm")
    BY <1>27 DEF ReportPending
<1>28. CASE PostEvent("ht")
    <2>1. queue = << >> /\ queue' # << >> /\ mainPc = "exec"
        BY <1>28, PostAlone
    <2> QED
        BY <1>28, <2>1 DEF PostEvent
<1>29. CASE PostEvent("sm")
    BY <1>29 DEF PostEvent
<1>30. CASE EnterWait("ht")
    BY <1>30 DEF EnterWait
<1>31. CASE EnterWait("sm")
    BY <1>31 DEF EnterWait
<1>32. CASE Resume("ht")
    BY <1>32 DEF Resume
<1>33. CASE Resume("sm")
    BY <1>33 DEF Resume
<1>34. CASE ReportFinal("ht")
    BY <1>34 DEF ReportFinal
<1>35. CASE ReportFinal("sm")
    BY <1>35 DEF ReportFinal
<1>36. CASE Unlock("ht")
    BY <1>36 DEF Unlock
<1>37. CASE Unlock("sm")
    BY <1>37 DEF Unlock
<1>38. CASE CheckStatus("ht")
    BY <1>38 DEF CheckStatus
<1>39. CASE CheckStatus("sm")
    BY <1>39 DEF CheckStatus
<1>40. CASE ReportCurrent("ht")
    BY <1>40 DEF ReportCurrent
<1>41. CASE ReportCurrent("sm")
    BY <1>41 DEF ReportCurrent
<1>42. CASE UseAfterFree("ht")
    BY <1>42 DEF UseAfterFree
<1>43. CASE UseAfterFree("sm")
    BY <1>43 DEF UseAfterFree
<1>44. ASSUME NEW c \in Codes, Control(c)
      PROVE  Phases'
    BY <1>44 DEF Control, Accepted, Running
<1>45. CASE UNCHANGED vars
    BY <1>45 DEF vars
<1> QED
    BY <1>1, <1>2, <1>3, <1>4, <1>5, <1>6, <1>7, <1>8, <1>9, <1>10, <1>11, <1>12, <1>13, <1>14,
       <1>15, <1>16, <1>17, <1>18, <1>19, <1>20, <1>21, <1>22, <1>23, <1>24, <1>25, <1>26,
       <1>27, <1>28, <1>29, <1>30, <1>31, <1>32, <1>33, <1>34, <1>35, <1>36, <1>37, <1>38,
       <1>39, <1>40, <1>41, <1>42, <1>43, <1>44, <1>45
    DEF Next, MainStep, HtStep, SmStep, Handler, Terminated

LEMMA FlightNext ==
    ASSUME Adversity = {}, IInv, BInv, [Next]_vars
    PROVE  Flight'
<1> USE DEF IInv, BInv, TypeOK, MainGoes, MainFails, Goes, Caller, Report, Status, Threads, HandlerPc,
            mainVars, threadVars, semVars, lockVars, eventVars,
            scmVars, restVars, MainOrder, StartOrder,
            RegisterOrder, Mutex, CriticalPc, Ended, Flight,
            LoopOver, InFlight, Phases, StartPhase, RunPhase, Ran,
            Stopping, Idle, Served, Posted
<1>1. CASE SysInit
    BY <1>1 DEF SysInit
<1>2. CASE AcquireStart
    BY <1>2 DEF AcquireStart
<1>3. CASE CreateHandler
    BY <1>3 DEF CreateHandler
<1>4. CASE ReleaseStart2
    BY <1>4 DEF ReleaseStart2
<1>5. CASE HandleEvent
    BY <1>5, HandleAlone DEF HandleEvent, EventOf, Callback, SmPc, RegisterOrder
<1>6. CASE WakeAll
    BY <1>6 DEF WakeAll
<1>7. CASE ExecReturn
    BY <1>7 DEF ExecReturn, SmPc
<1>8. CASE StopWrite
    BY <1>8 DEF StopWrite
<1>9. CASE StopReport
    BY <1>9 DEF StopReport
<1>10. CASE Grace
    BY <1>10 DEF Grace
<1>11. CASE DeleteHandler
    BY <1>11 DEF DeleteHandler
<1>12. CASE SysCleanup
    BY <1>12 DEF SysCleanup
<1>13. CASE DestroyService
    BY <1>13 DEF DestroyService
<1>14. CASE ProcessExit
    BY <1>14 DEF ProcessExit
<1>15. CASE EnvQuit
    BY <1>15 DEF EnvQuit
<1>16. CASE StartTimeout
    BY <1>16 DEF StartTimeout
<1>17. CASE SetServiceFlags
    BY <1>17 DEF SetServiceFlags
<1>18. CASE Dispatch
    BY <1>18 DEF Dispatch
<1>19. CASE DispatchFailed
    BY <1>19 DEF DispatchFailed
<1>20. CASE DispatcherReturns
    BY <1>20 DEF DispatcherReturns
<1>21. CASE ServiceArgs
    BY <1>21 DEF ServiceArgs
<1>22. CASE AcquireStart2
    BY <1>22 DEF AcquireStart2
<1>23. CASE Register
    BY <1>23 DEF Register
<1>24. CASE Lock("ht")
    BY <1>24 DEF Lock
<1>25. CASE Lock("sm")
    BY <1>25 DEF Lock
<1>26. CASE ReportPending("ht")
    BY <1>26 DEF ReportPending
<1>27. CASE ReportPending("sm")
    BY <1>27 DEF ReportPending
<1>28. CASE PostEvent("ht")
    BY <1>28, PostAlone DEF PostEvent
<1>29. CASE PostEvent("sm")
    BY <1>29, PostAlone DEF PostEvent
<1>30. CASE EnterWait("ht")
    BY <1>30 DEF EnterWait
<1>31. CASE EnterWait("sm")
    BY <1>31 DEF EnterWait
<1>32. CASE Resume("ht")
    BY <1>32 DEF Resume, SmPc
<1>33. CASE Resume("sm")
    BY <1>33 DEF Resume, SmPc, Final
<1>34. CASE ReportFinal("ht")
    BY <1>34 DEF ReportFinal
<1>35. CASE ReportFinal("sm")
    BY <1>35 DEF ReportFinal
<1>36. CASE Unlock("ht")
    BY <1>36 DEF Unlock
<1>37. CASE Unlock("sm")
    BY <1>37 DEF Unlock
<1>38. CASE CheckStatus("ht")
    BY <1>38 DEF CheckStatus
<1>39. CASE CheckStatus("sm")
    BY <1>39 DEF CheckStatus
<1>40. CASE ReportCurrent("ht")
    BY <1>40 DEF ReportCurrent
<1>41. CASE ReportCurrent("sm")
    BY <1>41 DEF ReportCurrent
<1>42. CASE UseAfterFree("ht")
    BY <1>42 DEF UseAfterFree
<1>43. CASE UseAfterFree("sm")
    BY <1>43 DEF UseAfterFree
<1>44. ASSUME NEW c \in Codes, Control(c)
      PROVE  Flight'
    BY <1>44 DEF Control, Accepted, Running
<1>45. CASE UNCHANGED vars
    BY <1>45 DEF vars
<1> QED
    BY <1>1, <1>2, <1>3, <1>4, <1>5, <1>6, <1>7, <1>8, <1>9, <1>10, <1>11, <1>12, <1>13, <1>14,
       <1>15, <1>16, <1>17, <1>18, <1>19, <1>20, <1>21, <1>22, <1>23, <1>24, <1>25, <1>26,
       <1>27, <1>28, <1>29, <1>30, <1>31, <1>32, <1>33, <1>34, <1>35, <1>36, <1>37, <1>38,
       <1>39, <1>40, <1>41, <1>42, <1>43, <1>44, <1>45
    DEF Next, MainStep, HtStep, SmStep, Handler, Terminated

LEMMA EndedNext ==
    ASSUME Adversity = {}, IInv, BInv, [Next]_vars
    PROVE  Ended'
<1> USE DEF IInv, BInv, TypeOK, MainGoes, MainFails, Goes, Caller, Report, Status, Threads, HandlerPc,
            mainVars, threadVars, semVars, lockVars, eventVars,
            scmVars, restVars, MainOrder, StartOrder,
            RegisterOrder, Ended, Flight, LoopOver, InFlight,
            Phases, StartPhase, RunPhase, Ran, Stopping, Idle,
            Served, Posted
<1>1. CASE SysInit
    BY <1>1 DEF SysInit
<1>2. CASE AcquireStart
    BY <1>2 DEF AcquireStart
<1>3. CASE CreateHandler
    BY <1>3 DEF CreateHandler
<1>4. CASE ReleaseStart2
    BY <1>4 DEF ReleaseStart2
<1>5. CASE HandleEvent
    BY <1>5 DEF HandleEvent
<1>6. CASE WakeAll
    BY <1>6 DEF WakeAll
<1>7. CASE ExecReturn
    BY <1>7 DEF ExecReturn
<1>8. CASE StopWrite
    BY <1>8 DEF StopWrite
<1>9. CASE StopReport
    BY <1>9 DEF StopReport
<1>10. CASE Grace
    BY <1>10 DEF Grace
<1>11. CASE DeleteHandler
    BY <1>11 DEF DeleteHandler
<1>12. CASE SysCleanup
    BY <1>12 DEF SysCleanup
<1>13. CASE DestroyService
    BY <1>13 DEF DestroyService
<1>14. CASE ProcessExit
    BY <1>14 DEF ProcessExit
<1>15. CASE EnvQuit
    BY <1>15 DEF EnvQuit
<1>16. CASE StartTimeout
    BY <1>16 DEF StartTimeout
<1>17. CASE SetServiceFlags
    BY <1>17 DEF SetServiceFlags
<1>18. CASE Dispatch
    BY <1>18 DEF Dispatch
<1>19. CASE DispatchFailed
    BY <1>19 DEF DispatchFailed
<1>20. CASE DispatcherReturns
    BY <1>20 DEF DispatcherReturns
<1>21. CASE ServiceArgs
    BY <1>21 DEF ServiceArgs
<1>22. CASE AcquireStart2
    BY <1>22 DEF AcquireStart2
<1>23. CASE Register
    BY <1>23 DEF Register
<1>24. CASE Lock("ht")
    BY <1>24 DEF Lock
<1>25. CASE Lock("sm")
    BY <1>25 DEF Lock
<1>26. CASE ReportPending("ht")
    BY <1>26 DEF ReportPending
<1>27. CASE ReportPending("sm")
    BY <1>27 DEF ReportPending
<1>28. CASE PostEvent("ht")
    BY <1>28 DEF PostEvent
<1>29. CASE PostEvent("sm")
    BY <1>29 DEF PostEvent
<1>30. CASE EnterWait("ht")
    BY <1>30 DEF EnterWait
<1>31. CASE EnterWait("sm")
    BY <1>31 DEF EnterWait
<1>32. CASE Resume("ht")
    BY <1>32 DEF Resume
<1>33. CASE Resume("sm")
    BY <1>33 DEF Resume
<1>34. CASE ReportFinal("ht")
    BY <1>34 DEF ReportFinal
<1>35. CASE ReportFinal("sm")
    BY <1>35 DEF ReportFinal
<1>36. CASE Unlock("ht")
    BY <1>36 DEF Unlock
<1>37. CASE Unlock("sm")
    BY <1>37 DEF Unlock
<1>38. CASE CheckStatus("ht")
    BY <1>38 DEF CheckStatus
<1>39. CASE CheckStatus("sm")
    BY <1>39 DEF CheckStatus
<1>40. CASE ReportCurrent("ht")
    BY <1>40 DEF ReportCurrent
<1>41. CASE ReportCurrent("sm")
    BY <1>41 DEF ReportCurrent
<1>42. CASE UseAfterFree("ht")
    BY <1>42 DEF UseAfterFree
<1>43. CASE UseAfterFree("sm")
    BY <1>43 DEF UseAfterFree
<1>44. ASSUME NEW c \in Codes, Control(c)
      PROVE  Ended'
    BY <1>44 DEF Control, Accepted, Running
<1>45. CASE UNCHANGED vars
    BY <1>45 DEF vars
<1> QED
    BY <1>1, <1>2, <1>3, <1>4, <1>5, <1>6, <1>7, <1>8, <1>9, <1>10, <1>11, <1>12, <1>13, <1>14,
       <1>15, <1>16, <1>17, <1>18, <1>19, <1>20, <1>21, <1>22, <1>23, <1>24, <1>25, <1>26,
       <1>27, <1>28, <1>29, <1>30, <1>31, <1>32, <1>33, <1>34, <1>35, <1>36, <1>37, <1>38,
       <1>39, <1>40, <1>41, <1>42, <1>43, <1>44, <1>45
    DEF Next, MainStep, HtStep, SmStep, Handler, Terminated

-----------------------------------------------------------------------------
(* Every step is one of the lifecycle *)

\* Once start() has run, whatever the status block holds may be reported.
Reportable ==
    \/ status.state = scm.state
    \/ scm.state = "START_PENDING" /\ status.state = "RUNNING" /\ app = "started"
    \/ /\ scm.state \in {"RUNNING", "PAUSED"} /\ ~ shutdown
       /\ status.state \in {"PAUSE_PENDING", "CONTINUE_PENDING", "STOP_PENDING"}
    \/ scm.state = "PAUSE_PENDING" /\ status.state = "PAUSED" /\ app = "paused"
    \/ scm.state = "CONTINUE_PENDING" /\ status.state = "RUNNING" /\ app = "started"
    \/ status.state = "STOPPED" /\ app = "stopped"

LEMMA StatusReportable ==
    ASSUME IInv, BInv, sysd = "live", app # "none"
    PROVE  Reportable
<1> USE DEF IInv, BInv, Phases, Reportable
<1>1. CASE pc["sm"] \notin Ran
    BY <1>1 DEF StartPhase, TypeOK, SmPc, HandlerPc, Ran
<1>2. CASE pc["sm"] \in Ran /\ pc["ht"] = "pendReport"
    <2>1. ~ shutdown
        BY <1>2 DEF Flight, RunPhase, Pending, HandlerPc
    <2> QED
        BY <1>2, <2>1 DEF RunPhase, Pending, RegisterOrder, HandlerPc
<1>3. CASE pc["sm"] \in Ran /\ pc["ht"] = "finalReport"
    BY <1>3 DEF RunPhase, Pending, Final, Callback
<1>4. CASE pc["sm"] \in Ran /\ pc["ht"] \notin {"pendReport", "finalReport"}
    <2>1. pc["ht"] \notin {"unstarted", "dispatch", "failed"}
        BY <1>4 DEF StartOrder, Ran
    <2>2. status.state = scm.state \/ Stopping
        BY <1>4, <2>1 DEF RunPhase, TypeOK, HtPc, HandlerPc, Posted, Served, Idle
    <2> QED
        BY <2>2 DEF Stopping
<1> QED
    BY <1>1, <1>2, <1>3, <1>4

LEMMA ReportStep ==
    ASSUME IInv, BInv, sysd = "live", app # "none", Report(status) \/ scm'.state = status.state,
           UNCHANGED <<sysd, app, shutdown>>
    PROVE  [Lifecycle!Next]_(Lifecycle!vars)
<1>1. Reportable
    BY StatusReportable
<1>2. scm'.state \in {scm.state, status.state}
    BY DEF Report
<1> QED
    BY <1>1, <1>2 DEF Reportable, Lifecycle!Next, Lifecycle!vars, Lifecycle!Complete,
       Lifecycle!Completed,
        Lifecycle!Request, Lifecycle!Stop

LEMMA LifecycleStep ==
    ASSUME Adversity = {}, IInv, BInv, [Next]_vars
    PROVE  [Lifecycle!Next]_(Lifecycle!vars)
<1> USE DEF IInv, BInv, TypeOK, MainGoes, MainFails, Goes, Caller, Report, Status, Threads, HandlerPc,
            mainVars, threadVars, semVars, lockVars, eventVars, scmVars, restVars,
            MainOrder, StartOrder, RegisterOrder, Mutex, CriticalPc, Ended, Flight, LoopOver, InFlight,
            Phases, StartPhase, RunPhase, Ran, Stopping, Idle, Served, Posted, SmPc,
            Lifecycle!Next, Lifecycle!vars, Lifecycle!Live
<1>1. CASE SysInit
    BY <1>1 DEF SysInit
<1>2. CASE AcquireStart
    BY <1>2 DEF AcquireStart
<1>3. CASE CreateHandler
    BY <1>3 DEF CreateHandler
<1>4. CASE ReleaseStart2
    BY <1>4 DEF ReleaseStart2
<1>5. CASE HandleEvent
    BY <1>5, HandleAlone DEF HandleEvent, EventOf, Callback, Pending, Lifecycle!Run,
       Lifecycle!RunStart, Lifecycle!RunPause, Lifecycle!RunResume, Lifecycle!RunStop,
       Lifecycle!RunShutdown
<1>6. CASE WakeAll
    BY <1>6 DEF WakeAll
<1>7. CASE ExecReturn
    BY <1>7 DEF ExecReturn
<1>8. CASE StopWrite
    BY <1>8 DEF StopWrite
<1>9. CASE StopReport
    BY <1>9, ReportStep DEF StopReport
<1>10. CASE Grace
    BY <1>10 DEF Grace
<1>11. CASE DeleteHandler
    BY <1>11 DEF DeleteHandler
<1>12. CASE SysCleanup
    BY <1>12 DEF SysCleanup
<1>13. CASE DestroyService
    BY <1>13 DEF DestroyService
<1>14. CASE ProcessExit
    BY <1>14 DEF ProcessExit
<1>15. CASE EnvQuit
    BY <1>15 DEF EnvQuit
<1>16. CASE StartTimeout
    BY <1>16 DEF StartTimeout
<1>17. CASE SetServiceFlags
    BY <1>17, ReportStep DEF SetServiceFlags
<1>18. CASE Dispatch
    BY <1>18 DEF Dispatch, Lifecycle!Launch
<1>19. CASE DispatchFailed
    BY <1>19 DEF DispatchFailed
<1>20. CASE DispatcherReturns
    BY <1>20 DEF DispatcherReturns
<1>21. CASE ServiceArgs
    BY <1>21 DEF ServiceArgs
<1>22. CASE AcquireStart2
    BY <1>22 DEF AcquireStart2
<1>23. CASE Register
    BY <1>23 DEF Register
<1>24. CASE Lock("ht")
    BY <1>24 DEF Lock
<1>25. CASE Lock("sm")
    BY <1>25 DEF Lock
<1>26. CASE ReportPending("ht")
    BY <1>26 DEF ReportPending, Pending, Final, Callback, Lifecycle!Complete,
       Lifecycle!Completed, Lifecycle!Request, Lifecycle!Stop
<1>27. CASE ReportPending("sm")
    BY <1>27 DEF ReportPending, Pending, Final, Callback, Lifecycle!Complete,
       Lifecycle!Completed, Lifecycle!Request, Lifecycle!Stop
<1>28. CASE PostEvent("ht")
    BY <1>28 DEF PostEvent
<1>29. CASE PostEvent("sm")
    BY <1>29 DEF PostEvent
<1>30. CASE EnterWait("ht")
    BY <1>30 DEF EnterWait
<1>31. CASE EnterWait("sm")
    BY <1>31 DEF EnterWait
<1>32. CASE Resume("ht")
    BY <1>32 DEF Resume
<1>33. CASE Resume("sm")
    BY <1>33 DEF Resume
<1>34. CASE ReportFinal("ht")
    BY <1>34 DEF ReportFinal, Pending, Final, Callback, Lifecycle!Complete, Lifecycle!Completed,
       Lifecycle!Request, Lifecycle!Stop
<1>35. CASE ReportFinal("sm")
    BY <1>35 DEF ReportFinal, Pending, Final, Callback, Lifecycle!Complete, Lifecycle!Completed,
       Lifecycle!Request, Lifecycle!Stop
<1>36. CASE Unlock("ht")
    BY <1>36 DEF Unlock
<1>37. CASE Unlock("sm")
    BY <1>37 DEF Unlock
<1>38. CASE CheckStatus("ht")
    BY <1>38 DEF CheckStatus
<1>39. CASE CheckStatus("sm")
    BY <1>39 DEF CheckStatus
<1>40. CASE ReportCurrent("ht")
    BY <1>40, ReportStep DEF ReportCurrent, BeforeStart
<1>41. CASE ReportCurrent("sm")
    BY <1>41, ReportStep DEF ReportCurrent, BeforeStart
<1>42. CASE UseAfterFree("ht")
    BY <1>42 DEF UseAfterFree
<1>43. CASE UseAfterFree("sm")
    BY <1>43 DEF UseAfterFree
<1>44. ASSUME NEW c \in Codes, Control(c)
      PROVE  [Lifecycle!Next]_(Lifecycle!vars)
    BY <1>44 DEF Control, Accepted, Running, Lifecycle!Shutdown
<1>45. CASE UNCHANGED vars
    BY <1>45 DEF vars
<1> QED
    BY <1>1, <1>2, <1>3, <1>4, <1>5, <1>6, <1>7, <1>8, <1>9, <1>10, <1>11, <1>12, <1>13, <1>14,
       <1>15, <1>16, <1>17, <1>18, <1>19, <1>20, <1>21, <1>22, <1>23, <1>24, <1>25, <1>26,
       <1>27, <1>28, <1>29, <1>30, <1>31, <1>32, <1>33, <1>34, <1>35, <1>36, <1>37, <1>38,
       <1>39, <1>40, <1>41, <1>42, <1>43, <1>44, <1>45
    DEF Next, MainStep, HtStep, SmStep, Handler, Terminated

-----------------------------------------------------------------------------
(* The theorems *)

LEMMA BInvInit == Init => BInv
BY DEF Init, BInv, Phases, StartPhase, RunPhase, Flight, Ended, Ran, InFlight, LoopOver, Threads,
   HandlerPc

LEMMA BInvAlways ==
    ASSUME Adversity = {}
    PROVE  Spec => [](IInv /\ BInv)
<1>1. IInv /\ BInv /\ [Next]_vars => BInv'
    BY PhasesNext, FlightNext, EndedNext DEF BInv
<1> QED
    BY <1>1, BInvInit, IInvInit, IInvNext, PTL DEF Spec

(***************************************************************************)
(* In a benign environment no thread leaves condition.wait() before its    *)
(* own event has been handled.                                             *)
(***************************************************************************)
THEOREM OwnEventIsServed ==
    ASSUME Adversity = {}
    PROVE  Spec => []OwnEventServed
<1>1. BInv => OwnEventServed
    <2> SUFFICES ASSUME BInv, NEW t \in Threads, pc[t] = "wait", t \notin waiters,
                        NEW i \in 1..Len(queue)
                 PROVE  queue[i].from # t
        BY DEF OwnEventServed
    <2>1. queue # << >>
        OBVIOUS
    <2>2. PICK u \in Threads : InFlight(u)
        BY <2>1 DEF BInv, Flight
    <2>3. queue = << [code |-> EventOf(code[u]), from |-> u] >> /\ u # t
        BY <2>1, <2>2 DEF BInv, Flight, InFlight
    <2> QED
        BY <2>3
<1> QED
    BY <1>1, BInvAlways, PTL

(***************************************************************************)
(* In a benign environment a service shown as PAUSED has run pause(): the  *)
(* documentation of pause() is right there, and the counterexample of      *)
(* PausedMeansPaused needs a STOP during the start.                        *)
(***************************************************************************)
THEOREM PausedIsPaused ==
    ASSUME Adversity = {}
    PROVE  Spec => []PausedMeansPaused
<1>1. IInv /\ BInv => PausedMeansPaused
    BY DEF IInv, TypeOK, StartOrder, BInv, Phases, StartPhase, RunPhase, PausedMeansPaused, Posted,
           Served, Idle, Stopping, Ran, SmPc, HtPc, HandlerPc, Pending, Final, Callback, RegisterOrder,
           Flight, Ended
<1> QED
    BY <1>1, BInvAlways, PTL

\* The handler thread has ended, and serviceMain() has reported RUNNING.
HandlerThreadIsOver ==
    sysd = "deleted" => pc["ht"] = "finished" /\ pc["sm"] \in Ran

(***************************************************************************)
(* In a benign environment "let the handler thread finish" is kept for the *)
(* thread it names: of the threads that share the object only the one of   *)
(* serviceMain() can outlive it, on its way out of handler().              *)
(***************************************************************************)
THEOREM OnlyServiceMainOutlives ==
    ASSUME Adversity = {}
    PROVE  Spec => []HandlerThreadIsOver
<1>1. IInv /\ BInv => HandlerThreadIsOver
    BY DEF IInv, MainOrder, BInv, Ended, HandlerThreadIsOver
<1> QED
    BY <1>1, BInvAlways, PTL

(***************************************************************************)
(* In a benign environment the SCM and the service object see what         *)
(* ServiceLifecycle allows: a pending state, then the callback, then the   *)
(* final state, and STOPPED once, after stop().                            *)
(***************************************************************************)
THEOREM ImplementsLifecycle ==
    ASSUME Adversity = {}
    PROVE  Spec => LifecycleSpec
<1>1. Init => Lifecycle!Init
    BY DEF Init, Lifecycle!Init
<1>2. IInv /\ BInv /\ [Next]_vars => [Lifecycle!Next]_(Lifecycle!vars)
    BY LifecycleStep
<1> QED
    BY <1>1, <1>2, BInvAlways, PTL DEF Spec, LifecycleSpec, Lifecycle!Spec
=============================================================================
