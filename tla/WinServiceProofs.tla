-------------------------- MODULE WinServiceProofs --------------------------
(***************************************************************************)
(* What WinService guarantees for every set of commands, every choice of   *)
(* flags and every adversity of the environment.                           *)
(*                                                                         *)
(* The inductive invariant follows the start-up order of the three threads:*)
(* what the semaphores order (StartOrder), what the mutex orders (Mutex),  *)
(* and what holds as long as the service object has not seen start()       *)
(* (BeforeStart).                                                          *)
(***************************************************************************)
EXTENDS WinService, TLAPS

-----------------------------------------------------------------------------
(* The parts of the inductive invariant *)

\* Where the main thread can be, by the object it creates and deletes.
MainOrder ==
    /\ sysd = "none" <=> mainPc = "sysInit"
    /\ sysd = "deleted" =>
          mainPc \in {"returned", "destroyed", "exited"} /\ startResult = "ok"
    /\ startResult # "none" => mainPc \in {"returned", "destroyed", "exited"}
    /\ mainPc = "exited" =>
          pc["ht"] = "finished" /\ pc["sm"] = "done" /\ scm.state = "STOPPED"

\* The threads start one after the other.
StartOrder ==
    /\ mainPc = "sysInit" => pc["ht"] = "unstarted"
    /\ pc["ht"] \in {"unstarted", "dispatch", "failed"} => pc["sm"] = "unstarted"
    /\ pc["ht"] \in HandlerPc \cup {"serving"} => pc["sm"] # "unstarted"
    /\ (pc["ht"] \in {"unstarted", "dispatch", "failed"} \/ pc["sm"] = "args")
          => startSem = 0
    /\ mainPc \in {"sysInit", "acquire", "create", "release2"} => startSem2 = 0

\* What startSemaphore2 orders behind the creation of the application.
RegisterOrder ==
    /\ registered => pc["sm"] \in HandlerPc \cup {"done"}
    /\ pc["sm"] \in HandlerPc => registered /\ code["sm"] = "STARTUP"
    /\ pc["ht"] \in HandlerPc => registered /\ code["ht"] \in Codes \ {"STARTUP"}
    /\ (startSem2 > 0 \/ pc["sm"] = "register" \/ registered) =>
          mainPc \in {"exec", "wake"} \/ (LoopOver /\ startResult # "failed")
    /\ mainPc \in {"release2", "exec", "wake"} => handlerObj

\* Nothing happens to a service that has no handler registered.
Unregistered ==
    (~ registered /\ sysd # "deleted") =>
        /\ waiters = {} /\ queue = << >> /\ app = "none"
        /\ scm.state \in {"STOPPED", "START_PENDING"}

Mutex ==
    \A t \in Threads : (pc[t] \in CriticalPc /\ sysd = "live") => mutex = t

\* serviceMain() has not posted its event yet.
PrePost == {"unstarted", "args", "acquire2", "register", "lock", "pendReport",
            "post"}

\* The startup event is the first event posted.
StartupFirst ==
    /\ pc["sm"] \in PrePost => app = "none"
    /\ ~ LoopOver =>
        /\ pc["sm"] \in PrePost => queue = << >>
        /\ pc["sm"] \in PrePost \ {"post"} => scm.accepts = {}
        /\ pc["ht"] \in HandlerPc => pc["sm"] \notin {"lock", "pendReport"}
        /\ pc["ht"] \in HandlerPc \ {"lock"} => pc["sm"] # "post"
        /\ (app = "none" /\ queue # << >>) => Head(queue).code = "STARTUP"
        /\ (app = "none" /\ pc["sm"] \in {"enterWait", "wait"}) => queue # << >>
        /\ mainPc = "wake" => app # "none"

\* Before start() no thread has been woken, and only STOP can be delivered.
BeforeStart ==
    (app = "none" /\ sysd = "live" /\ mainPc # "exited") =>
        /\ status.state \in {"STOPPED", "START_PENDING", "STOP_PENDING"}
        /\ scm.state \in {"STOPPED", "START_PENDING", "STOP_PENDING"}
        /\ pc["ht"] \in HandlerPc => code["ht"] = "STOP"
        /\ registered => pc["sm"] # "done"
        /\ \A t \in Threads :
              /\ pc[t] \notin {"finalReport", "unlock", "check", "report"}
              /\ pc[t] = "wait" => t \in waiters

IInv ==
    /\ TypeOK /\ MainOrder /\ StartOrder /\ RegisterOrder /\ Unregistered
    /\ Mutex /\ StartupFirst /\ BeforeStart /\ NoLostWakeup

-----------------------------------------------------------------------------
(* Lemmas on the operators *)

\* What handler() writes and posts has its type.
LEMMA FlagsType == \A f : serviceFlags(f) \in SUBSET Accepts
BY DEF serviceFlags, Accepts

LEMMA PendingType ==
    \A c : Pending(c) # "none" => Pending(c) \in States
BY DEF Pending, States

LEMMA FinalType ==
    \A c : Final(c) # "none" => Final(c) \in States
BY DEF Final, States

LEMMA StartupCode == "STARTUP" \in Codes
BY DEF Codes, Requests

LEMMA EventOfType == \A c \in Codes : EventOf(c) \in Codes
BY DEF EventOf, Codes, Requests

LEMMA CallbackType ==
    ASSUME app \in {"none", "started", "paused", "stopped"}
    PROVE  \A c : Callback(c) \in {"none", "started", "paused", "stopped"}
BY DEF Callback

\* start() is the first callback, and the service object keeps its last one.
LEMMA CallbackRuns ==
    \A c : app # "none" \/ c = "STARTUP" => Callback(c) # "none"
BY DEF Callback

LEMMA PendingStart ==
    /\ Pending("STARTUP") = "START_PENDING" /\ Pending("STOP") = "STOP_PENDING"
    /\ Final("STARTUP") = "RUNNING"
BY DEF Pending, Final

\* A posted event leaves the head of the queue where it is.
LEMMA AppendHead ==
    ASSUME NEW S, NEW q \in Seq(S), NEW e \in S
    PROVE  /\ Append(q, e) # << >>
           /\ q # << >> => Head(Append(q, e)) = Head(q)
           /\ q = << >> => Head(Append(q, e)) = e
OBVIOUS

\* A control that arrives before start() has run is a STOP of a service that
\* has reported the controls it accepts.
LEMMA ControlBeforeStart ==
    ASSUME BeforeStart, app = "none", sysd = "live", mainPc # "exited",
           NEW c \in Codes, Accepted(c)
    PROVE  c = "STOP" /\ "STOP" \in scm.accepts /\ registered
BY DEF BeforeStart, Accepted, Running

-----------------------------------------------------------------------------
(* Each part of the invariant is preserved *)

LEMMA TypeNext == IInv /\ [Next]_vars => TypeOK'
<1> SUFFICES ASSUME IInv, [Next]_vars PROVE TypeOK'
    OBVIOUS
<1> USE DEF TypeOK, mainVars, threadVars, semVars, lockVars, eventVars, scmVars,
       restVars, MainGoes, MainFails, Goes, Caller, Report, Status,
       IInv, StartOrder, RegisterOrder, Threads, HtPc, SmPc, HandlerPc, MainPc, States
<1>1. CASE SysInit
    BY <1>1, FlagsType DEF SysInit
<1>2. CASE AcquireStart
    BY <1>2 DEF AcquireStart
<1>3. CASE CreateHandler
    BY <1>3 DEF CreateHandler
<1>4. CASE ReleaseStart2
    BY <1>4 DEF ReleaseStart2
<1>5. CASE HandleEvent
    BY <1>5, CallbackType DEF HandleEvent
<1>6. CASE WakeAll
    BY <1>6 DEF WakeAll
<1>7. CASE ExecReturn
    BY <1>7 DEF ExecReturn
<1>8. CASE StopWrite
    BY <1>8 DEF StopWrite
<1>9. CASE StopReport
    BY <1>9 DEF StopReport
<1>10. CASE Grace
    BY <1>10 DEF Grace
<1>11. CASE DeleteHandler
  <2>1. (queue \in Seq([code : Codes, from : Threads]))'
    BY <1>11 DEF DeleteHandler
  <2>2. mainPc' \in MainPc /\ handlerObj' \in BOOLEAN
    BY <1>11 DEF DeleteHandler
  <2>3. UNCHANGED <<quitting, startResult, threadVars, semVars, lockVars, status,
                    scmVars, restVars>>
    BY <1>11 DEF DeleteHandler
  <2> QED
    BY <2>1, <2>2, <2>3
<1>12. CASE SysCleanup
    BY <1>12 DEF SysCleanup
<1>13. CASE DestroyService
    BY <1>13 DEF DestroyService
<1>14. CASE ProcessExit
    BY <1>14 DEF ProcessExit
<1>15. CASE EnvQuit
    BY <1>15 DEF EnvQuit
<1>16. CASE StartTimeout
    BY <1>16 DEF StartTimeout
<1>17. CASE SetServiceFlags
    BY <1>17, FlagsType, FlagsAssumption DEF SetServiceFlags
<1>18. CASE Dispatch
  <2>1. (pc \in [Threads -> HtPc \cup SmPc] /\ pc["ht"] \in HtPc /\ pc["sm"] \in SmPc)'
    BY <1>18 DEF Dispatch
  <2>2. scm' \in Status /\ dispatcher' \in {"ok", "console", "error"}
    BY <1>18 DEF Dispatch, Accepts
  <2>3. UNCHANGED <<mainVars, code, semVars, lockVars, eventVars, status, registered,
                    shutdown, sysd, app, flags>>
    BY <1>18 DEF Dispatch
  <2> QED
    BY <2>1, <2>2, <2>3
<1>19. CASE DispatchFailed
    BY <1>19 DEF DispatchFailed
<1>20. CASE DispatcherReturns
    BY <1>20 DEF DispatcherReturns
<1>21. CASE ServiceArgs
    BY <1>21 DEF ServiceArgs
<1>22. CASE AcquireStart2
    BY <1>22 DEF AcquireStart2
<1>23. CASE Register
  <2>1. code' \in [Threads -> Codes \cup {"none"}]
    BY <1>23, StartupCode DEF Register
  <2>2. UNCHANGED <<mainVars, semVars, lockVars, eventVars, status, scm,
                    shutdown, restVars>>
    BY <1>23 DEF Register
  <2>3. (pc \in [Threads -> HtPc \cup SmPc] /\ pc["ht"] \in HtPc /\ pc["sm"] \in SmPc)'
        /\ registered' \in BOOLEAN
    BY <1>23, ZenonT(30) DEF Register
  <2> QED
    BY <2>1, <2>2, <2>3
<1>24. ASSUME NEW t \in Threads, Lock(t)
      PROVE  TypeOK'
    BY <1>24, PendingType DEF Lock
<1>25. ASSUME NEW t \in Threads, ReportPending(t)
      PROVE  TypeOK'
    BY <1>25 DEF ReportPending
<1>26. ASSUME NEW t \in Threads, PostEvent(t)
      PROVE  TypeOK'
  <2> DEFINE e == [code |-> EventOf(code[t]), from |-> t]
             S == [code : Codes, from : Threads]
  <2>1. e \in S
    BY <1>26, StartupCode, EventOfType DEF PostEvent
  <2>2. queue' = Append(queue, e) \/ queue' = queue
    BY <1>26 DEF PostEvent
  <2>3. queue \in Seq(S)
    OBVIOUS
  <2>4. queue' \in Seq(S)
    <3> HIDE DEF e, S
    <3> QED
      BY <2>1, <2>2, <2>3, SMTT(30)
  <2>5. (queue \in Seq([code : Codes, from : Threads]))'
    BY <2>4
  <2>6. (pc \in [Threads -> HtPc \cup SmPc] /\ pc["ht"] \in HtPc /\ pc["sm"] \in SmPc)'
    BY <1>26 DEF PostEvent
  <2>7. UNCHANGED <<mainVars, code, semVars, lockVars, handlerObj, status, scmVars,
                    restVars>>
    BY <1>26 DEF PostEvent
  <2> QED
    BY <2>5, <2>6, <2>7
<1>27. ASSUME NEW t \in Threads, EnterWait(t)
      PROVE  TypeOK'
    BY <1>27 DEF EnterWait
<1>28. ASSUME NEW t \in Threads, Resume(t)
      PROVE  TypeOK'
    BY <1>28, FinalType DEF Resume
<1>29. ASSUME NEW t \in Threads, ReportFinal(t)
      PROVE  TypeOK'
    BY <1>29 DEF ReportFinal
<1>30. ASSUME NEW t \in Threads, Unlock(t)
      PROVE  TypeOK'
    BY <1>30 DEF Unlock
<1>31. ASSUME NEW t \in Threads, CheckStatus(t)
      PROVE  TypeOK'
    BY <1>31 DEF CheckStatus
<1>32. ASSUME NEW t \in Threads, ReportCurrent(t)
      PROVE  TypeOK'
    BY <1>32 DEF ReportCurrent
<1>33. ASSUME NEW t \in Threads, UseAfterFree(t)
      PROVE  TypeOK'
    BY <1>33 DEF UseAfterFree
<1>34. ASSUME NEW c \in Codes, Control(c)
      PROVE  TypeOK'
    BY <1>34 DEF Control, Accepted
<1>35. CASE UNCHANGED vars
    BY <1>35 DEF vars
<1> QED
    BY <1>1, <1>2, <1>3, <1>4, <1>5, <1>6, <1>7, <1>8, <1>9, <1>10, <1>11, <1>12, <1>13, <1>14, <1>15, <1>16, <1>17, <1>18, <1>19, <1>20, <1>21, <1>22, <1>23, <1>24, <1>25, <1>26, <1>27, <1>28, <1>29, <1>30, <1>31, <1>32, <1>33, <1>34, <1>35
    DEF Next, MainStep, HtStep, SmStep, Handler, Terminated

LEMMA MainOrderNext == IInv /\ [Next]_vars => MainOrder'
<1> SUFFICES ASSUME IInv, [Next]_vars PROVE MainOrder'
    OBVIOUS
<1> USE DEF mainVars, threadVars, semVars, lockVars, eventVars, scmVars, restVars,
       MainGoes, MainFails, Goes, Caller, Report, IInv, TypeOK, Threads, HandlerPc, MainOrder
<1>1. CASE SysInit
    BY <1>1 DEF SysInit
<1>2. CASE AcquireStart
    BY <1>2 DEF AcquireStart
<1>3. CASE CreateHandler
    BY <1>3 DEF CreateHandler
<1>4. CASE ReleaseStart2
    BY <1>4 DEF ReleaseStart2
<1>5. CASE HandleEvent
    BY <1>5 DEF HandleEvent
<1>6. CASE WakeAll
    BY <1>6 DEF WakeAll
<1>7. CASE ExecReturn
    BY <1>7 DEF ExecReturn
<1>8. CASE StopWrite
    BY <1>8 DEF StopWrite
<1>9. CASE StopReport
    BY <1>9 DEF StopReport
<1>10. CASE Grace
    BY <1>10 DEF Grace
<1>11. CASE DeleteHandler
    BY <1>11 DEF DeleteHandler
<1>12. CASE SysCleanup
    BY <1>12 DEF SysCleanup
<1>13. CASE DestroyService
    BY <1>13 DEF DestroyService
<1>14. CASE ProcessExit
    BY <1>14 DEF ProcessExit
<1>15. CASE EnvQuit
    BY <1>15 DEF EnvQuit
<1>16. CASE StartTimeout
    BY <1>16 DEF StartTimeout
<1>17. CASE SetServiceFlags
    BY <1>17 DEF SetServiceFlags
<1>18. CASE Dispatch
    BY <1>18 DEF Dispatch
<1>19. CASE DispatchFailed
    BY <1>19 DEF DispatchFailed
<1>20. CASE DispatcherReturns
    BY <1>20 DEF DispatcherReturns
<1>21. CASE ServiceArgs
    BY <1>21 DEF ServiceArgs
<1>22. CASE AcquireStart2
    BY <1>22 DEF AcquireStart2
<1>23. CASE Register
    BY <1>23 DEF Register
<1>24. ASSUME NEW t \in Threads, Lock(t)
      PROVE  MainOrder'
    BY <1>24 DEF Lock
<1>25. ASSUME NEW t \in Threads, ReportPending(t)
      PROVE  MainOrder'
    BY <1>25 DEF ReportPending
<1>26. ASSUME NEW t \in Threads, PostEvent(t)
      PROVE  MainOrder'
    BY <1>26 DEF PostEvent
<1>27. ASSUME NEW t \in Threads, EnterWait(t)
      PROVE  MainOrder'
    BY <1>27 DEF EnterWait
<1>28. ASSUME NEW t \in Threads, Resume(t)
      PROVE  MainOrder'
    BY <1>28 DEF Resume
<1>29. ASSUME NEW t \in Threads, ReportFinal(t)
      PROVE  MainOrder'
    BY <1>29 DEF ReportFinal
<1>30. ASSUME NEW t \in Threads, Unlock(t)
      PROVE  MainOrder'
    BY <1>30 DEF Unlock
<1>31. ASSUME NEW t \in Threads, CheckStatus(t)
      PROVE  MainOrder'
    BY <1>31 DEF CheckStatus
<1>32. ASSUME NEW t \in Threads, ReportCurrent(t)
      PROVE  MainOrder'
    BY <1>32 DEF ReportCurrent
<1>33. ASSUME NEW t \in Threads, UseAfterFree(t)
      PROVE  MainOrder'
    BY <1>33 DEF UseAfterFree
<1>34. ASSUME NEW c \in Codes, Control(c)
      PROVE  MainOrder'
    BY <1>34 DEF Control, Accepted
<1>35. CASE UNCHANGED vars
    BY <1>35 DEF vars
<1> QED
    BY <1>1, <1>2, <1>3, <1>4, <1>5, <1>6, <1>7, <1>8, <1>9, <1>10, <1>11, <1>12, <1>13, <1>14, <1>15, <1>16, <1>17, <1>18, <1>19, <1>20, <1>21, <1>22, <1>23, <1>24, <1>25, <1>26, <1>27, <1>28, <1>29, <1>30, <1>31, <1>32, <1>33, <1>34, <1>35
    DEF Next, MainStep, HtStep, SmStep, Handler, Terminated

LEMMA StartOrderNext == IInv /\ [Next]_vars => StartOrder'
<1> SUFFICES ASSUME IInv, [Next]_vars PROVE StartOrder'
    OBVIOUS
<1> USE DEF mainVars, threadVars, semVars, lockVars, eventVars, scmVars, restVars,
       MainGoes, MainFails, Goes, Caller, Report, IInv, TypeOK, Threads, HandlerPc,
       MainOrder, StartOrder, HtPc
<1>1. CASE SysInit
    BY <1>1 DEF SysInit
<1>2. CASE AcquireStart
    BY <1>2 DEF AcquireStart
<1>3. CASE CreateHandler
    BY <1>3 DEF CreateHandler
<1>4. CASE ReleaseStart2
    BY <1>4 DEF ReleaseStart2
<1>5. CASE HandleEvent
    BY <1>5 DEF HandleEvent
<1>6. CASE WakeAll
    BY <1>6 DEF WakeAll
<1>7. CASE ExecReturn
    BY <1>7 DEF ExecReturn
<1>8. CASE StopWrite
    BY <1>8 DEF StopWrite
<1>9. CASE StopReport
    BY <1>9 DEF StopReport
<1>10. CASE Grace
    BY <1>10 DEF Grace
<1>11. CASE DeleteHandler
    BY <1>11 DEF DeleteHandler
<1>12. CASE SysCleanup
    BY <1>12 DEF SysCleanup
<1>13. CASE DestroyService
    BY <1>13 DEF DestroyService
<1>14. CASE ProcessExit
    BY <1>14 DEF ProcessExit
<1>15. CASE EnvQuit
    BY <1>15 DEF EnvQuit
<1>16. CASE StartTimeout
    BY <1>16 DEF StartTimeout
<1>17. CASE SetServiceFlags
    BY <1>17 DEF SetServiceFlags
<1>18. CASE Dispatch
    BY <1>18 DEF Dispatch
<1>19. CASE DispatchFailed
    BY <1>19 DEF DispatchFailed
<1>20. CASE DispatcherReturns
    BY <1>20 DEF DispatcherReturns
<1>21. CASE ServiceArgs
    BY <1>21 DEF ServiceArgs
<1>22. CASE AcquireStart2
    BY <1>22 DEF AcquireStart2
<1>23. CASE Register
    BY <1>23 DEF Register
<1>24. ASSUME NEW t \in Threads, Lock(t)
      PROVE  StartOrder'
    BY <1>24 DEF Lock
<1>25. ASSUME NEW t \in Threads, ReportPending(t)
      PROVE  StartOrder'
    BY <1>25 DEF ReportPending
<1>26. ASSUME NEW t \in Threads, PostEvent(t)
      PROVE  StartOrder'
    BY <1>26 DEF PostEvent
<1>27. ASSUME NEW t \in Threads, EnterWait(t)
      PROVE  StartOrder'
    BY <1>27 DEF EnterWait
<1>28. ASSUME NEW t \in Threads, Resume(t)
      PROVE  StartOrder'
    BY <1>28 DEF Resume
<1>29. ASSUME NEW t \in Threads, ReportFinal(t)
      PROVE  StartOrder'
    BY <1>29 DEF ReportFinal
<1>30. ASSUME NEW t \in Threads, Unlock(t)
      PROVE  StartOrder'
    BY <1>30 DEF Unlock
<1>31. ASSUME NEW t \in Threads, CheckStatus(t)
      PROVE  StartOrder'
    BY <1>31 DEF CheckStatus
<1>32. ASSUME NEW t \in Threads, ReportCurrent(t)
      PROVE  StartOrder'
    BY <1>32 DEF ReportCurrent
<1>33. ASSUME NEW t \in Threads, UseAfterFree(t)
      PROVE  StartOrder'
    BY <1>33 DEF UseAfterFree
<1>34. ASSUME NEW c \in Codes, Control(c)
      PROVE  StartOrder'
    BY <1>34 DEF Control, Accepted
<1>35. CASE UNCHANGED vars
    BY <1>35 DEF vars
<1> QED
    BY <1>1, <1>2, <1>3, <1>4, <1>5, <1>6, <1>7, <1>8, <1>9, <1>10, <1>11, <1>12, <1>13, <1>14, <1>15, <1>16, <1>17, <1>18, <1>19, <1>20, <1>21, <1>22, <1>23, <1>24, <1>25, <1>26, <1>27, <1>28, <1>29, <1>30, <1>31, <1>32, <1>33, <1>34, <1>35
    DEF Next, MainStep, HtStep, SmStep, Handler, Terminated

LEMMA RegisterOrderNext == IInv /\ [Next]_vars => RegisterOrder'
<1> SUFFICES ASSUME IInv, [Next]_vars PROVE RegisterOrder'
    OBVIOUS
<1> USE DEF mainVars, threadVars, semVars, lockVars, eventVars, scmVars, restVars,
       MainGoes, MainFails, Goes, Caller, Report, IInv, TypeOK, Threads, HandlerPc,
       MainOrder, StartOrder, RegisterOrder, LoopOver
<1>1. CASE SysInit
    BY <1>1 DEF SysInit
<1>2. CASE AcquireStart
    BY <1>2 DEF AcquireStart
<1>3. CASE CreateHandler
    BY <1>3 DEF CreateHandler
<1>4. CASE ReleaseStart2
    BY <1>4 DEF ReleaseStart2
<1>5. CASE HandleEvent
    BY <1>5 DEF HandleEvent
<1>6. CASE WakeAll
    BY <1>6 DEF WakeAll
<1>7. CASE ExecReturn
    BY <1>7 DEF ExecReturn
<1>8. CASE StopWrite
    BY <1>8 DEF StopWrite
<1>9. CASE StopReport
    BY <1>9 DEF StopReport
<1>10. CASE Grace
    BY <1>10 DEF Grace
<1>11. CASE DeleteHandler
    BY <1>11 DEF DeleteHandler
<1>12. CASE SysCleanup
    BY <1>12 DEF SysCleanup
<1>13. CASE DestroyService
    BY <1>13 DEF DestroyService
<1>14. CASE ProcessExit
    BY <1>14 DEF ProcessExit
<1>15. CASE EnvQuit
    BY <1>15 DEF EnvQuit
<1>16. CASE StartTimeout
    BY <1>16 DEF StartTimeout
<1>17. CASE SetServiceFlags
    BY <1>17 DEF SetServiceFlags
<1>18. CASE Dispatch
    BY <1>18 DEF Dispatch
<1>19. CASE DispatchFailed
    BY <1>19 DEF DispatchFailed
<1>20. CASE DispatcherReturns
    BY <1>20 DEF DispatcherReturns
<1>21. CASE ServiceArgs
    BY <1>21 DEF ServiceArgs
<1>22. CASE AcquireStart2
    BY <1>22 DEF AcquireStart2
<1>23. CASE Register
    BY <1>23 DEF Register
<1>24. ASSUME NEW t \in Threads, Lock(t)
      PROVE  RegisterOrder'
    BY <1>24 DEF Lock
<1>25. ASSUME NEW t \in Threads, ReportPending(t)
      PROVE  RegisterOrder'
    BY <1>25 DEF ReportPending
<1>26. ASSUME NEW t \in Threads, PostEvent(t)
      PROVE  RegisterOrder'
    BY <1>26 DEF PostEvent
<1>27. ASSUME NEW t \in Threads, EnterWait(t)
      PROVE  RegisterOrder'
    BY <1>27 DEF EnterWait
<1>28. ASSUME NEW t \in Threads, Resume(t)
      PROVE  RegisterOrder'
    BY <1>28 DEF Resume
<1>29. ASSUME NEW t \in Threads, ReportFinal(t)
      PROVE  RegisterOrder'
    BY <1>29 DEF ReportFinal
<1>30. ASSUME NEW t \in Threads, Unlock(t)
      PROVE  RegisterOrder'
    BY <1>30 DEF Unlock
<1>31. ASSUME NEW t \in Threads, CheckStatus(t)
      PROVE  RegisterOrder'
    BY <1>31 DEF CheckStatus
<1>32. ASSUME NEW t \in Threads, ReportCurrent(t)
      PROVE  RegisterOrder'
    BY <1>32 DEF ReportCurrent
<1>33. ASSUME NEW t \in Threads, UseAfterFree(t)
      PROVE  RegisterOrder'
    BY <1>33 DEF UseAfterFree
<1>34. ASSUME NEW c \in Codes, Control(c)
      PROVE  RegisterOrder'
    BY <1>34 DEF Control, Accepted
<1>35. CASE UNCHANGED vars
    BY <1>35 DEF vars
<1> QED
    BY <1>1, <1>2, <1>3, <1>4, <1>5, <1>6, <1>7, <1>8, <1>9, <1>10, <1>11, <1>12, <1>13, <1>14, <1>15, <1>16, <1>17, <1>18, <1>19, <1>20, <1>21, <1>22, <1>23, <1>24, <1>25, <1>26, <1>27, <1>28, <1>29, <1>30, <1>31, <1>32, <1>33, <1>34, <1>35
    DEF Next, MainStep, HtStep, SmStep, Handler, Terminated

LEMMA UnregisteredNext == IInv /\ [Next]_vars => Unregistered'
<1> SUFFICES ASSUME IInv, [Next]_vars PROVE Unregistered'
    OBVIOUS
<1> USE DEF mainVars, threadVars, semVars, lockVars, eventVars, scmVars, restVars,
       MainGoes, MainFails, Goes, Caller, Report, IInv, TypeOK, Threads, HandlerPc,
       MainOrder, StartOrder, RegisterOrder, Unregistered
<1>1. CASE SysInit
    BY <1>1 DEF SysInit
<1>2. CASE AcquireStart
    BY <1>2 DEF AcquireStart
<1>3. CASE CreateHandler
    BY <1>3 DEF CreateHandler
<1>4. CASE ReleaseStart2
    BY <1>4 DEF ReleaseStart2
<1>5. CASE HandleEvent
    BY <1>5 DEF HandleEvent
<1>6. CASE WakeAll
    BY <1>6 DEF WakeAll
<1>7. CASE ExecReturn
    BY <1>7 DEF ExecReturn
<1>8. CASE StopWrite
    BY <1>8 DEF StopWrite
<1>9. CASE StopReport
    BY <1>9 DEF StopReport
<1>10. CASE Grace
    BY <1>10 DEF Grace
<1>11. CASE DeleteHandler
    BY <1>11 DEF DeleteHandler
<1>12. CASE SysCleanup
    BY <1>12 DEF SysCleanup
<1>13. CASE DestroyService
    BY <1>13 DEF DestroyService
<1>14. CASE ProcessExit
    BY <1>14 DEF ProcessExit
<1>15. CASE EnvQuit
    BY <1>15 DEF EnvQuit
<1>16. CASE StartTimeout
    BY <1>16 DEF StartTimeout
<1>17. CASE SetServiceFlags
    BY <1>17 DEF SetServiceFlags
<1>18. CASE Dispatch
  <2>1. scm'.state = "START_PENDING" \/ scm' = scm
    BY <1>18 DEF Dispatch
  <2>2. UNCHANGED <<waiters, queue, app, registered, sysd>>
    BY <1>18 DEF Dispatch
  <2> QED
    BY <2>1, <2>2
<1>19. CASE DispatchFailed
    BY <1>19 DEF DispatchFailed
<1>20. CASE DispatcherReturns
    BY <1>20 DEF DispatcherReturns
<1>21. CASE ServiceArgs
    BY <1>21 DEF ServiceArgs
<1>22. CASE AcquireStart2
    BY <1>22 DEF AcquireStart2
<1>23. CASE Register
    BY <1>23 DEF Register
<1>24. ASSUME NEW t \in Threads, Lock(t)
      PROVE  Unregistered'
    BY <1>24 DEF Lock
<1>25. ASSUME NEW t \in Threads, ReportPending(t)
      PROVE  Unregistered'
    BY <1>25 DEF ReportPending
<1>26. ASSUME NEW t \in Threads, PostEvent(t)
      PROVE  Unregistered'
    BY <1>26 DEF PostEvent
<1>27. ASSUME NEW t \in Threads, EnterWait(t)
      PROVE  Unregistered'
    BY <1>27 DEF EnterWait
<1>28. ASSUME NEW t \in Threads, Resume(t)
      PROVE  Unregistered'
    BY <1>28 DEF Resume
<1>29. ASSUME NEW t \in Threads, ReportFinal(t)
      PROVE  Unregistered'
    BY <1>29 DEF ReportFinal
<1>30. ASSUME NEW t \in Threads, Unlock(t)
      PROVE  Unregistered'
    BY <1>30 DEF Unlock
<1>31. ASSUME NEW t \in Threads, CheckStatus(t)
      PROVE  Unregistered'
    BY <1>31 DEF CheckStatus
<1>32. ASSUME NEW t \in Threads, ReportCurrent(t)
      PROVE  Unregistered'
    BY <1>32 DEF ReportCurrent
<1>33. ASSUME NEW t \in Threads, UseAfterFree(t)
      PROVE  Unregistered'
    BY <1>33 DEF UseAfterFree
<1>34. ASSUME NEW c \in Codes, Control(c)
      PROVE  Unregistered'
    BY <1>34 DEF Control, Accepted
<1>35. CASE UNCHANGED vars
    BY <1>35 DEF vars
<1> QED
    BY <1>1, <1>2, <1>3, <1>4, <1>5, <1>6, <1>7, <1>8, <1>9, <1>10, <1>11, <1>12, <1>13, <1>14, <1>15, <1>16, <1>17, <1>18, <1>19, <1>20, <1>21, <1>22, <1>23, <1>24, <1>25, <1>26, <1>27, <1>28, <1>29, <1>30, <1>31, <1>32, <1>33, <1>34, <1>35
    DEF Next, MainStep, HtStep, SmStep, Handler, Terminated

LEMMA MutexNext == IInv /\ [Next]_vars => Mutex'
<1> SUFFICES ASSUME IInv, [Next]_vars PROVE Mutex'
    OBVIOUS
<1> USE DEF mainVars, threadVars, semVars, lockVars, eventVars, scmVars, restVars,
       MainGoes, MainFails, Goes, Caller, Report, IInv, TypeOK, Threads, HandlerPc,
       MainOrder, StartOrder, Mutex, CriticalPc
<1>1. CASE SysInit
    BY <1>1 DEF SysInit
<1>2. CASE AcquireStart
    BY <1>2 DEF AcquireStart
<1>3. CASE CreateHandler
    BY <1>3 DEF CreateHandler
<1>4. CASE ReleaseStart2
    BY <1>4 DEF ReleaseStart2
<1>5. CASE HandleEvent
    BY <1>5 DEF HandleEvent
<1>6. CASE WakeAll
    BY <1>6 DEF WakeAll
<1>7. CASE ExecReturn
    BY <1>7 DEF ExecReturn
<1>8. CASE StopWrite
    BY <1>8 DEF StopWrite
<1>9. CASE StopReport
    BY <1>9 DEF StopReport
<1>10. CASE Grace
    BY <1>10 DEF Grace
<1>11. CASE DeleteHandler
    BY <1>11 DEF DeleteHandler
<1>12. CASE SysCleanup
    BY <1>12 DEF SysCleanup
<1>13. CASE DestroyService
    BY <1>13 DEF DestroyService
<1>14. CASE ProcessExit
    BY <1>14 DEF ProcessExit
<1>15. CASE EnvQuit
    BY <1>15 DEF EnvQuit
<1>16. CASE StartTimeout
    BY <1>16 DEF StartTimeout
<1>17. CASE SetServiceFlags
    BY <1>17 DEF SetServiceFlags
<1>18. CASE Dispatch
    BY <1>18 DEF Dispatch
<1>19. CASE DispatchFailed
    BY <1>19 DEF DispatchFailed
<1>20. CASE DispatcherReturns
    BY <1>20 DEF DispatcherReturns
<1>21. CASE ServiceArgs
    BY <1>21 DEF ServiceArgs
<1>22. CASE AcquireStart2
    BY <1>22 DEF AcquireStart2
<1>23. CASE Register
    BY <1>23 DEF Register
<1>24. ASSUME NEW t \in Threads, Lock(t)
      PROVE  Mutex'
    BY <1>24 DEF Lock
<1>25. ASSUME NEW t \in Threads, ReportPending(t)
      PROVE  Mutex'
    BY <1>25 DEF ReportPending
<1>26. ASSUME NEW t \in Threads, PostEvent(t)
      PROVE  Mutex'
    BY <1>26 DEF PostEvent
<1>27. ASSUME NEW t \in Threads, EnterWait(t)
      PROVE  Mutex'
    BY <1>27 DEF EnterWait
<1>28. ASSUME NEW t \in Threads, Resume(t)
      PROVE  Mutex'
    BY <1>28 DEF Resume
<1>29. ASSUME NEW t \in Threads, ReportFinal(t)
      PROVE  Mutex'
    BY <1>29 DEF ReportFinal
<1>30. ASSUME NEW t \in Threads, Unlock(t)
      PROVE  Mutex'
    BY <1>30 DEF Unlock
<1>31. ASSUME NEW t \in Threads, CheckStatus(t)
      PROVE  Mutex'
    BY <1>31 DEF CheckStatus
<1>32. ASSUME NEW t \in Threads, ReportCurrent(t)
      PROVE  Mutex'
    BY <1>32 DEF ReportCurrent
<1>33. ASSUME NEW t \in Threads, UseAfterFree(t)
      PROVE  Mutex'
    BY <1>33 DEF UseAfterFree
<1>34. ASSUME NEW c \in Codes, Control(c)
      PROVE  Mutex'
    BY <1>34 DEF Control, Accepted
<1>35. CASE UNCHANGED vars
    BY <1>35 DEF vars
<1> QED
    BY <1>1, <1>2, <1>3, <1>4, <1>5, <1>6, <1>7, <1>8, <1>9, <1>10, <1>11, <1>12, <1>13, <1>14, <1>15, <1>16, <1>17, <1>18, <1>19, <1>20, <1>21, <1>22, <1>23, <1>24, <1>25, <1>26, <1>27, <1>28, <1>29, <1>30, <1>31, <1>32, <1>33, <1>34, <1>35
    DEF Next, MainStep, HtStep, SmStep, Handler, Terminated

LEMMA StartupFirstNext == IInv /\ [Next]_vars => StartupFirst'
<1> SUFFICES ASSUME IInv, [Next]_vars PROVE StartupFirst'
    OBVIOUS
<1> USE DEF mainVars, threadVars, semVars, lockVars, eventVars, scmVars, restVars,
       MainGoes, MainFails, Goes, Caller, Report, IInv, TypeOK, Threads, HandlerPc,
       MainOrder, StartOrder, RegisterOrder, Mutex, CriticalPc, LoopOver, PrePost,
       StartupFirst, BeforeStart, Unregistered
<1>1. CASE SysInit
    BY <1>1 DEF SysInit
<1>2. CASE AcquireStart
    BY <1>2 DEF AcquireStart
<1>3. CASE CreateHandler
    BY <1>3 DEF CreateHandler
<1>4. CASE ReleaseStart2
    BY <1>4 DEF ReleaseStart2
<1>5. CASE HandleEvent
  <2>1. app' # "none"
    BY <1>5, CallbackRuns DEF HandleEvent
  <2>2. pc["sm"] \notin PrePost
    BY <1>5 DEF HandleEvent
  <2> QED
    BY <1>5, <2>1, <2>2 DEF HandleEvent
<1>6. CASE WakeAll
    BY <1>6 DEF WakeAll
<1>7. CASE ExecReturn
    BY <1>7 DEF ExecReturn
<1>8. CASE StopWrite
    BY <1>8 DEF StopWrite
<1>9. CASE StopReport
    BY <1>9 DEF StopReport
<1>10. CASE Grace
    BY <1>10 DEF Grace
<1>11. CASE DeleteHandler
    BY <1>11 DEF DeleteHandler
<1>12. CASE SysCleanup
    BY <1>12 DEF SysCleanup
<1>13. CASE DestroyService
    BY <1>13 DEF DestroyService
<1>14. CASE ProcessExit
    BY <1>14 DEF ProcessExit
<1>15. CASE EnvQuit
    BY <1>15 DEF EnvQuit
<1>16. CASE StartTimeout
    BY <1>16 DEF StartTimeout
<1>17. CASE SetServiceFlags
    BY <1>17 DEF SetServiceFlags
<1>18. CASE Dispatch
    BY <1>18 DEF Dispatch
<1>19. CASE DispatchFailed
    BY <1>19 DEF DispatchFailed
<1>20. CASE DispatcherReturns
    BY <1>20 DEF DispatcherReturns
<1>21. CASE ServiceArgs
    BY <1>21 DEF ServiceArgs
<1>22. CASE AcquireStart2
    BY <1>22 DEF AcquireStart2
<1>23. CASE Register
    BY <1>23 DEF Register
<1>24. ASSUME NEW t \in Threads, Lock(t)
      PROVE  StartupFirst'
    BY <1>24 DEF Lock
<1>25. ASSUME NEW t \in Threads, ReportPending(t)
      PROVE  StartupFirst'
    BY <1>25 DEF ReportPending
<1>26. ASSUME NEW t \in Threads, PostEvent(t)
      PROVE  StartupFirst'
  <2> DEFINE e == [code |-> EventOf(code[t]), from |-> t]
             S == [code : Codes, from : Threads]
  <2>1. e \in S /\ queue \in Seq(S)
    BY <1>26, StartupCode, EventOfType DEF PostEvent
  <2>2. /\ Append(queue, e) # << >>
        /\ queue # << >> => Head(Append(queue, e)) = Head(queue)
        /\ queue = << >> => Head(Append(queue, e)) = e
    <3> HIDE DEF e, S
    <3> QED
      BY <2>1, AppendHead
  <2>3. t = "sm" => e.code = "STARTUP"
    BY <1>26 DEF PostEvent, EventOf
  <2>4. queue' = Append(queue, e) \/ (queue' = queue /\ LoopOver')
    BY <1>26 DEF PostEvent
  <2> HIDE DEF e, S
  <2>5. ~ LoopOver' => queue' = Append(queue, e)
    BY <2>4
  <2>6. UNCHANGED <<mainVars, lockVars, scmVars, app>>
    BY <1>26 DEF PostEvent
  <2>7. pc[t] = "post" /\ pc' = [pc EXCEPT ![t] = "enterWait"]
    BY <1>26 DEF PostEvent
  <2>8. CASE t = "sm"
    BY <2>2, <2>3, <2>5, <2>6, <2>7, <2>8
  <2>9. CASE t = "ht"
    BY <2>2, <2>5, <2>6, <2>7, <2>9
  <2> QED
    BY <2>8, <2>9
<1>27. ASSUME NEW t \in Threads, EnterWait(t)
      PROVE  StartupFirst'
    BY <1>27 DEF EnterWait
<1>28. ASSUME NEW t \in Threads, Resume(t)
      PROVE  StartupFirst'
    BY <1>28 DEF Resume
<1>29. ASSUME NEW t \in Threads, ReportFinal(t)
      PROVE  StartupFirst'
    BY <1>29 DEF ReportFinal
<1>30. ASSUME NEW t \in Threads, Unlock(t)
      PROVE  StartupFirst'
    BY <1>30 DEF Unlock
<1>31. ASSUME NEW t \in Threads, CheckStatus(t)
      PROVE  StartupFirst'
    BY <1>31 DEF CheckStatus
<1>32. ASSUME NEW t \in Threads, ReportCurrent(t)
      PROVE  StartupFirst'
    BY <1>32 DEF ReportCurrent
<1>33. ASSUME NEW t \in Threads, UseAfterFree(t)
      PROVE  StartupFirst'
    BY <1>33 DEF UseAfterFree
<1>34. ASSUME NEW c \in Codes, Control(c)
      PROVE  StartupFirst'
  <2>1. pc["sm"] \in PrePost => (c = "STOP" /\ "STOP" \in scm.accepts) \/ LoopOver
    BY <1>34, ControlBeforeStart DEF Control
  <2>2. ~ LoopOver => pc["sm"] \notin {"lock", "pendReport"}
    BY <2>1
  <2>3. UNCHANGED <<mainPc, queue, scm, app>>
    BY <1>34 DEF Control
  <2>4. pc' = [pc EXCEPT !["ht"] = "lock"]
    BY <1>34 DEF Control
  <2> QED
    BY <2>2, <2>3, <2>4
<1>35. CASE UNCHANGED vars
    BY <1>35 DEF vars
<1> QED
    BY <1>1, <1>2, <1>3, <1>4, <1>5, <1>6, <1>7, <1>8, <1>9, <1>10, <1>11, <1>12, <1>13, <1>14, <1>15, <1>16, <1>17, <1>18, <1>19, <1>20, <1>21, <1>22, <1>23, <1>24, <1>25, <1>26, <1>27, <1>28, <1>29, <1>30, <1>31, <1>32, <1>33, <1>34, <1>35
    DEF Next, MainStep, HtStep, SmStep, Handler, Terminated

LEMMA BeforeStartNext == IInv /\ [Next]_vars => BeforeStart'
<1> SUFFICES ASSUME IInv, [Next]_vars PROVE BeforeStart'
    OBVIOUS
<1> USE DEF mainVars, threadVars, semVars, lockVars, eventVars, scmVars, restVars,
       MainGoes, MainFails, Goes, Caller, Report, IInv, TypeOK, Threads, HandlerPc,
       MainOrder, StartOrder, RegisterOrder, LoopOver, PrePost, Unregistered,
       StartupFirst, BeforeStart
<1>1. CASE SysInit
    BY <1>1 DEF SysInit
<1>2. CASE AcquireStart
    BY <1>2 DEF AcquireStart
<1>3. CASE CreateHandler
    BY <1>3 DEF CreateHandler
<1>4. CASE ReleaseStart2
    BY <1>4 DEF ReleaseStart2
<1>5. CASE HandleEvent
  <2>1. app' # "none"
    BY <1>5, CallbackRuns DEF HandleEvent
  <2> QED
    BY <2>1
<1>6. CASE WakeAll
    BY <1>6 DEF WakeAll
<1>7. CASE ExecReturn
    BY <1>7 DEF ExecReturn
<1>8. CASE StopWrite
    BY <1>8 DEF StopWrite
<1>9. CASE StopReport
    BY <1>9 DEF StopReport
<1>10. CASE Grace
    BY <1>10 DEF Grace
<1>11. CASE DeleteHandler
    BY <1>11 DEF DeleteHandler
<1>12. CASE SysCleanup
    BY <1>12 DEF SysCleanup
<1>13. CASE DestroyService
    BY <1>13 DEF DestroyService
<1>14. CASE ProcessExit
    BY <1>14 DEF ProcessExit
<1>15. CASE EnvQuit
    BY <1>15 DEF EnvQuit
<1>16. CASE StartTimeout
    BY <1>16 DEF StartTimeout
<1>17. CASE SetServiceFlags
    BY <1>17 DEF SetServiceFlags
<1>18. CASE Dispatch
    BY <1>18 DEF Dispatch
<1>19. CASE DispatchFailed
    BY <1>19 DEF DispatchFailed
<1>20. CASE DispatcherReturns
    BY <1>20 DEF DispatcherReturns
<1>21. CASE ServiceArgs
    BY <1>21 DEF ServiceArgs
<1>22. CASE AcquireStart2
    BY <1>22 DEF AcquireStart2
<1>23. CASE Register
    BY <1>23 DEF Register
<1>24. ASSUME NEW t \in Threads, Lock(t)
      PROVE  BeforeStart'
  <2> SUFFICES ASSUME app = "none", sysd = "live", mainPc # "exited"
               PROVE  BeforeStart'
    BY <1>24 DEF Lock
  <2>1. code[t] \in {"STARTUP", "STOP"}
    BY <1>24 DEF Lock
  <2>2. /\ status'.state \in {"START_PENDING", "STOP_PENDING"}
        /\ pc[t] = "lock" /\ pc' = [pc EXCEPT ![t] = "pendReport"]
    BY <1>24, <2>1, PendingStart DEF Lock, Status
  <2>3. UNCHANGED <<mainPc, scm, app, code, registered, waiters>>
    BY <1>24 DEF Lock
  <2> QED
    BY <2>2, <2>3
<1>25. ASSUME NEW t \in Threads, ReportPending(t)
      PROVE  BeforeStart'
    BY <1>25 DEF ReportPending
<1>26. ASSUME NEW t \in Threads, PostEvent(t)
      PROVE  BeforeStart'
    BY <1>26 DEF PostEvent
<1>27. ASSUME NEW t \in Threads, EnterWait(t)
      PROVE  BeforeStart'
    BY <1>27 DEF EnterWait
<1>28. ASSUME NEW t \in Threads, Resume(t)
      PROVE  BeforeStart'
    BY <1>28 DEF Resume
<1>29. ASSUME NEW t \in Threads, ReportFinal(t)
      PROVE  BeforeStart'
    BY <1>29 DEF ReportFinal
<1>30. ASSUME NEW t \in Threads, Unlock(t)
      PROVE  BeforeStart'
    BY <1>30 DEF Unlock
<1>31. ASSUME NEW t \in Threads, CheckStatus(t)
      PROVE  BeforeStart'
    BY <1>31 DEF CheckStatus
<1>32. ASSUME NEW t \in Threads, ReportCurrent(t)
      PROVE  BeforeStart'
    BY <1>32 DEF ReportCurrent
<1>33. ASSUME NEW t \in Threads, UseAfterFree(t)
      PROVE  BeforeStart'
    BY <1>33 DEF UseAfterFree
<1>34. ASSUME NEW c \in Codes, Control(c)
      PROVE  BeforeStart'
  <2> SUFFICES ASSUME app = "none", sysd = "live", mainPc # "exited"
               PROVE  BeforeStart'
    BY <1>34 DEF Control
  <2>1. c = "STOP" /\ registered
    BY <1>34, ControlBeforeStart DEF Control
  <2>2. pc' = [pc EXCEPT !["ht"] = "lock"] /\ code' = [code EXCEPT !["ht"] = "STOP"]
    BY <1>34, <2>1 DEF Control
  <2>3. UNCHANGED <<status, scm, registered, waiters>>
    BY <1>34 DEF Control
  <2> QED
    BY <2>2, <2>3
<1>35. CASE UNCHANGED vars
    BY <1>35 DEF vars
<1> QED
    BY <1>1, <1>2, <1>3, <1>4, <1>5, <1>6, <1>7, <1>8, <1>9, <1>10, <1>11, <1>12, <1>13, <1>14, <1>15, <1>16, <1>17, <1>18, <1>19, <1>20, <1>21, <1>22, <1>23, <1>24, <1>25, <1>26, <1>27, <1>28, <1>29, <1>30, <1>31, <1>32, <1>33, <1>34, <1>35
    DEF Next, MainStep, HtStep, SmStep, Handler, Terminated

LEMMA NoLostWakeupNext == IInv /\ [Next]_vars => NoLostWakeup'
<1> SUFFICES ASSUME IInv, [Next]_vars PROVE NoLostWakeup'
    OBVIOUS
<1> USE DEF mainVars, threadVars, semVars, lockVars, eventVars, scmVars, restVars,
       MainGoes, MainFails, Goes, Caller, Report, IInv, TypeOK, Threads, HandlerPc,
       MainOrder, RegisterOrder, Mutex, CriticalPc, LoopOver, NoLostWakeup
<1>1. CASE SysInit
    BY <1>1 DEF SysInit
<1>2. CASE AcquireStart
    BY <1>2 DEF AcquireStart
<1>3. CASE CreateHandler
    BY <1>3 DEF CreateHandler
<1>4. CASE ReleaseStart2
    BY <1>4 DEF ReleaseStart2
<1>5. CASE HandleEvent
    BY <1>5 DEF HandleEvent
<1>6. CASE WakeAll
    BY <1>6 DEF WakeAll
<1>7. CASE ExecReturn
    BY <1>7 DEF ExecReturn
<1>8. CASE StopWrite
    BY <1>8 DEF StopWrite
<1>9. CASE StopReport
    BY <1>9 DEF StopReport
<1>10. CASE Grace
    BY <1>10 DEF Grace
<1>11. CASE DeleteHandler
    BY <1>11 DEF DeleteHandler
<1>12. CASE SysCleanup
    BY <1>12 DEF SysCleanup
<1>13. CASE DestroyService
    BY <1>13 DEF DestroyService
<1>14. CASE ProcessExit
    BY <1>14 DEF ProcessExit
<1>15. CASE EnvQuit
    BY <1>15 DEF EnvQuit
<1>16. CASE StartTimeout
    BY <1>16 DEF StartTimeout
<1>17. CASE SetServiceFlags
    BY <1>17 DEF SetServiceFlags
<1>18. CASE Dispatch
    BY <1>18 DEF Dispatch
<1>19. CASE DispatchFailed
    BY <1>19 DEF DispatchFailed
<1>20. CASE DispatcherReturns
    BY <1>20 DEF DispatcherReturns
<1>21. CASE ServiceArgs
    BY <1>21 DEF ServiceArgs
<1>22. CASE AcquireStart2
    BY <1>22 DEF AcquireStart2
<1>23. CASE Register
    BY <1>23 DEF Register
<1>24. ASSUME NEW t \in Threads, Lock(t)
      PROVE  NoLostWakeup'
    BY <1>24 DEF Lock
<1>25. ASSUME NEW t \in Threads, ReportPending(t)
      PROVE  NoLostWakeup'
    BY <1>25 DEF ReportPending
<1>26. ASSUME NEW t \in Threads, PostEvent(t)
      PROVE  NoLostWakeup'
    BY <1>26 DEF PostEvent
<1>27. ASSUME NEW t \in Threads, EnterWait(t)
      PROVE  NoLostWakeup'
    BY <1>27 DEF EnterWait
<1>28. ASSUME NEW t \in Threads, Resume(t)
      PROVE  NoLostWakeup'
    BY <1>28 DEF Resume
<1>29. ASSUME NEW t \in Threads, ReportFinal(t)
      PROVE  NoLostWakeup'
    BY <1>29 DEF ReportFinal
<1>30. ASSUME NEW t \in Threads, Unlock(t)
      PROVE  NoLostWakeup'
    BY <1>30 DEF Unlock
<1>31. ASSUME NEW t \in Threads, CheckStatus(t)
      PROVE  NoLostWakeup'
    BY <1>31 DEF CheckStatus
<1>32. ASSUME NEW t \in Threads, ReportCurrent(t)
      PROVE  NoLostWakeup'
    BY <1>32 DEF ReportCurrent
<1>33. ASSUME NEW t \in Threads, UseAfterFree(t)
      PROVE  NoLostWakeup'
    BY <1>33 DEF UseAfterFree
<1>34. ASSUME NEW c \in Codes, Control(c)
      PROVE  NoLostWakeup'
    BY <1>34 DEF Control, Accepted
<1>35. CASE UNCHANGED vars
    BY <1>35 DEF vars
<1> QED
    BY <1>1, <1>2, <1>3, <1>4, <1>5, <1>6, <1>7, <1>8, <1>9, <1>10, <1>11, <1>12, <1>13, <1>14, <1>15, <1>16, <1>17, <1>18, <1>19, <1>20, <1>21, <1>22, <1>23, <1>24, <1>25, <1>26, <1>27, <1>28, <1>29, <1>30, <1>31, <1>32, <1>33, <1>34, <1>35
    DEF Next, MainStep, HtStep, SmStep, Handler, Terminated

-----------------------------------------------------------------------------
(* The theorems *)

LEMMA IInvInit == Init => IInv
<1> SUFFICES ASSUME Init PROVE IInv
    OBVIOUS
<1> USE DEF Init, Threads, HandlerPc
<1>1. TypeOK
  <2>1. << >> \in Seq([code : Codes, from : Threads])
    OBVIOUS
  <2> QED
    BY <2>1, FlagsAssumption
       DEF TypeOK, HtPc, SmPc, MainPc, Status, States, Accepts
<1>2. MainOrder /\ StartOrder /\ RegisterOrder /\ Unregistered /\ Mutex
    BY DEF MainOrder, StartOrder, RegisterOrder, Unregistered, Mutex, CriticalPc,
           LoopOver
<1>3. StartupFirst /\ BeforeStart /\ NoLostWakeup
    BY DEF StartupFirst, BeforeStart, NoLostWakeup, PrePost, LoopOver
<1> QED
    BY <1>1, <1>2, <1>3 DEF IInv

LEMMA IInvNext == IInv /\ [Next]_vars => IInv'
BY TypeNext, MainOrderNext, StartOrderNext, RegisterOrderNext, UnregisteredNext,
   MutexNext, StartupFirstNext, BeforeStartNext, NoLostWakeupNext DEF IInv

LEMMA IInvAlways == Spec => []IInv
BY IInvInit, IInvNext, PTL DEF Spec

(***************************************************************************)
(* The types of all variables: in particular the semaphores are binary, as *)
(* serviceMain() and the handler thread never both let start() continue.   *)
(***************************************************************************)
THEOREM TypeCorrect == Spec => []TypeOK
BY IInvAlways, PTL DEF IInv

(***************************************************************************)
(* A thread that waits in handler() has its event queued, or is about to   *)
(* be woken, as long as the event loop runs.                               *)
(***************************************************************************)
THEOREM NoWakeupIsLost == Spec => []NoLostWakeup
BY IInvAlways, PTL DEF IInv

(***************************************************************************)
(* handler() never posts an event before controllerHandler exists.         *)
(***************************************************************************)
THEOREM ReceiverIsReady == Spec => []ReceiverReady
<1>1. IInv => ReceiverReady
    BY DEF IInv, RegisterOrder, ReceiverReady, LoopOver, HandlerPc, Threads
<1> QED
    BY <1>1, IInvAlways, PTL

(***************************************************************************)
(* The SCM is not told that the service runs before start() has run.       *)
(***************************************************************************)
THEOREM RunsAfterStart == Spec => []RunningAfterStart
<1>1. IInv => RunningAfterStart
  <2> SUFFICES ASSUME IInv, sysd = "live", scm.state \in Running, app = "none"
               PROVE  FALSE
    BY DEF RunningAfterStart
  <2>1. CASE registered
    BY <2>1 DEF IInv, MainOrder, BeforeStart, Running
  <2>2. CASE ~ registered
    BY <2>2 DEF IInv, Unregistered, Running
  <2> QED
    BY <2>1, <2>2
<1> QED
    BY <1>1, IInvAlways, PTL

(***************************************************************************)
(* When start() fails, nothing has happened that exec() would have to undo.*)
(***************************************************************************)
THEOREM FailsCleanly == Spec => []CleanFailure
<1>1. IInv => CleanFailure
    BY DEF IInv, CleanFailure, MainOrder, RegisterOrder, Unregistered, LoopOver
<1> QED
    BY <1>1, IInvAlways, PTL

(***************************************************************************)
(* start() is the first callback of the service object.                    *)
(***************************************************************************)
THEOREM StartIsFirst == Spec => StartComesFirst
<1> DEFINE First == app = "none" => app' \in {"none", "started"}
<1>1. IInv /\ [Next]_vars => [First]_vars
  <2> SUFFICES ASSUME IInv, [Next]_vars, app = "none", app' # app
               PROVE  app' = "started"
    BY DEF First
  <2>1. CASE HandleEvent
    <3>1. Head(queue).code = "STARTUP"
      BY <2>1 DEF IInv, StartupFirst, HandleEvent, MainGoes, LoopOver
    <3> QED
      BY <2>1, <3>1 DEF HandleEvent, Callback
  <2>2. UNCHANGED app \/ HandleEvent
    BY DEF Next, MainStep, HtStep, SmStep, Handler, Terminated, vars, restVars,
           SysInit, AcquireStart, CreateHandler, ReleaseStart2, WakeAll,
           ExecReturn, StopWrite, StopReport, Grace, DeleteHandler, SysCleanup,
           DestroyService, ProcessExit, EnvQuit, StartTimeout, SetServiceFlags,
           Lock, ReportPending, PostEvent, EnterWait, Resume, ReportFinal, Unlock,
           CheckStatus, ReportCurrent, UseAfterFree, Dispatch, DispatchFailed,
           DispatcherReturns, ServiceArgs, AcquireStart2, Register, Control
  <2> QED
    BY <2>1, <2>2
<1> QED
    BY <1>1, IInvAlways, PTL DEF Spec, StartComesFirst
=============================================================================
