---------------------------- MODULE ProgramProofs ----------------------------
(***************************************************************************)
(* The program for every number of users and services and every division   *)
(* into sessions, through crashes.                                         *)
(*                                                                         *)
(* One process at a time runs the code of the service.  The SCM does not   *)
(* see to it: it starts the next process as soon as the service shows      *)
(* STOPPED.  It follows from the lock of the single instance               *)
(* (InsideHasLock, LockExcludes), and from the services having one session.*)
(*                                                                         *)
(* Nobody waits for a service that is gone, and every handle is closed:    *)
(* where the service process is and what the SCM shows of it go together   *)
(* (ServicePlaces).                                                        *)
(***************************************************************************)
EXTENDS Program, TLAPS

\* Past isRunning(), and not yet at its end.
Inside(p) == pc[p] \notin {"down", "isRunning"}

InsideHasLock == \A p \in Procs : Inside(p) => held[p] = "WriteLock"

LockExcludes ==
    \A p, q \in Procs :
        held[p] # "NoLock" /\ held[q] # "NoLock" /\ Session[p] = Session[q] => p = q

LockInv == held \in [Procs -> Lock!Modes] /\ InsideHasLock /\ LockExcludes

-----------------------------------------------------------------------------
(* The types *)

\* stop() polls at least once.
LEMMA PollsRange ==
    /\ 0 \in 0..MaxPolls
    /\ \A n \in 0..MaxPolls : n < MaxPolls => n + 1 \in 0..MaxPolls
<1>1. MaxPolls \in Nat
    BY PollsAssumption
<1> QED
    BY <1>1

\* Goes() and the three actions that move several processes keep the type.
LEMMA GoesType ==
    ASSUME pc \in [Procs -> Pc], NEW p, NEW from, NEW to \in Pc, Goes(p, from, to)
    PROVE  pc' \in [Procs -> Pc]
BY DEF Goes

LEMMA MoveType ==
    ASSUME pc \in [Procs -> Pc], NEW p \in Procs, NEW t \in Pc, NEW w, NEW u \in Pc,
           pc' = [r \in Procs |-> IF r = p THEN t ELSE IF r \in w THEN u ELSE pc[r]]
    PROVE  pc' \in [Procs -> Pc]
OBVIOUS

LEMMA EndsType ==
    ASSUME TypeOK, NEW p \in Procs, Ends(p)
    PROVE  TypeOK'
<1>1. pc' \in [Procs -> Pc]
    BY MoveType DEF Ends, TypeOK, Pc, UserPc
<1>2. held' \in [Procs -> Lock!Modes]
    BY DEF Ends, TypeOK, Lock!Release, Lock!Modes
<1>3. arg' \in [Procs -> Args] /\ polls' \in [Procs -> 0..MaxPolls]
    BY PollsRange DEF Ends, TypeOK, Args
<1>4. owner' = {} \/ \E q \in Services : owner' = {q}
    BY DEF Ends, TypeOK
<1> QED
    BY <1>1, <1>2, <1>3, <1>4 DEF Ends, TypeOK, States

LEMMA MainType ==
    ASSUME TypeOK, NEW p \in Procs, Main(p)
    PROVE  TypeOK'
<1> USE DEF Pc, UserPc, scmVars
<1>1. CASE isRunning(p)
    <2>1. CASE Ends(p)
        BY <2>1, EndsType
    <2>2. CASE Goes(p, "isRunning", "exec") /\ Lock!AcquireWrite(p)
                 /\ UNCHANGED <<arg, handles, polls, scmVars>>
        BY <2>2, GoesType DEF TypeOK, Lock!AcquireWrite, Lock!Modes
    <2> QED
        BY <1>1, <2>1, <2>2 DEF isRunning
<1>2. CASE exec(p)
    <2>1. PICK to \in Pc : Goes(p, "exec", to)
        BY <1>2 DEF exec
    <2> QED
        BY <1>2, <2>1, GoesType DEF exec, TypeOK
<1>3. CASE Connect(p)
    BY <1>3 DEF Connect, TypeOK
<1>4. CASE Return(p)
    BY <1>4, EndsType DEF Return
<1> QED
    BY <1>1, <1>2, <1>3, <1>4 DEF Main

LEMMA UserType ==
    ASSUME TypeOK, NEW u \in Users, User(u)
    PROVE  TypeOK'
<1> USE DEF Pc, UserPc, scmVars
<1>1. CASE install(u)
    BY <1>1, GoesType DEF install, TypeOK
<1>2. CASE uninstall(u)
    BY <1>2, GoesType DEF uninstall, TypeOK
<1>3. CASE OpenService(u)
    BY <1>3, GoesType DEF OpenService, TypeOK
<1>4. CASE Poll(u)
    <2>1. polls' \in [Procs -> 0..MaxPolls]
        <3>1. polls[u] \in 0..MaxPolls /\ polls[u] < MaxPolls
            BY <1>4 DEF Poll, TypeOK, Procs
        <3>2. polls' = polls \/ polls' = [polls EXCEPT ![u] = polls[u] + 1]
            BY <1>4 DEF Poll
        <3>3. polls[u] + 1 \in 0..MaxPolls
            BY <3>1, PollsRange
        <3> QED
            BY <3>2, <3>3 DEF TypeOK
    <2>2. pc' \in [Procs -> Pc]
        BY <1>4, GoesType DEF Poll, TypeOK
    <2> QED
        BY <1>4, <2>1, <2>2 DEF Poll, TypeOK
<1>5. CASE CloseServiceHandle(u)
    BY <1>5, GoesType DEF CloseServiceHandle, TypeOK
<1> QED
    BY <1>1, <1>2, <1>3, <1>4, <1>5 DEF User

LEMMA LaunchType ==
    ASSUME TypeOK, NEW q \in Services, NEW starts, Launch(q, starts)
    PROVE  TypeOK'
BY DEF Launch, TypeOK, Pc, UserPc, States, Procs

LEMMA CallType ==
    ASSUME TypeOK, NEW u \in Users, Call(u)
    PROVE  TypeOK'
<1> USE DEF Pc, UserPc, scmVars
<1>1. CASE \E q \in Services : Launch(q, {u})
    BY <1>1, LaunchType
<1>2. CASE Goes(u, "call", "close") /\ UNCHANGED <<arg, held, handles, polls, scmVars>>
    BY <1>2, GoesType DEF TypeOK
<1>3. CASE ControlService(u)
    <2>1. pc' \in [Procs -> Pc]
        BY <1>3, GoesType DEF ControlService, TypeOK
    <2>2. state' \in States /\ control' \in Controls \cup {""}
        BY <1>3 DEF ControlService, TypeOK, Pending, Controls, States
    <2> QED
        BY <1>3, <2>1, <2>2 DEF ControlService, TypeOK
<1> QED
    BY <1>1, <1>2, <1>3 DEF Call, StartService

LEMMA AnswersType ==
    ASSUME TypeOK, NEW final \in States, NEW pcs \in [Procs -> Pc], Answers(final, pcs)
    PROVE  pc' \in [Procs -> Pc] /\ state' \in States /\ control' = ""
BY DEF Answers, Pc, UserPc

LEMMA ServiceType ==
    ASSUME TypeOK, NEW q \in Services, Service(q) \/ ReportStopped(q)
    PROVE  TypeOK'
<1> USE DEF Pc, UserPc, scmVars, procVars
<1>1. CASE Started(q)
    BY <1>1 DEF Started, TypeOK, States, Up
<1>2. CASE StartFails(q)
    BY <1>2, GoesType DEF StartFails, TypeOK
<1>3. CASE Handled(q)
    <2>1. PICK final \in States : Answers(final, pc)
        BY <1>3 DEF Handled, TypeOK, States, Up
    <2>2. pc' \in [Procs -> Pc] /\ state' \in States /\ control' = ""
        BY <2>1, AnswersType DEF TypeOK
    <2> QED
        BY <1>3, <2>2 DEF Handled, TypeOK
<1>4. CASE Leave(q)
    BY <1>4, EndsType DEF Leave, Procs
<1>5. CASE ReportStopped(q)
    <2>1. [pc EXCEPT ![q] = "leaving"] \in [Procs -> Pc]
        BY DEF TypeOK
    <2>2. pc' \in [Procs -> Pc] /\ state' \in States /\ control' = ""
        BY <1>5, <2>1, AnswersType DEF ReportStopped, States, TypeOK
    <2> QED
        BY <1>5, <2>2 DEF ReportStopped, TypeOK
<1> QED
    BY <1>1, <1>2, <1>3, <1>4, <1>5 DEF Service

(***************************************************************************)
(* The variables of main(), of the controllers and of the SCM stay in      *)
(* their types: stop() polls MaxPolls times at most, and the SCM has at    *)
(* most one process for the service.                                       *)
(***************************************************************************)
THEOREM TypeCorrect == Spec => []TypeOK
<1>1. Init => TypeOK
    BY PollsRange
    DEF Init, TypeOK, Pc, UserPc, Args, States, Up, Lock!Init, Lock!Modes
<1>2. TypeOK /\ [Next]_vars => TypeOK'
    <2> SUFFICES ASSUME TypeOK, [Next]_vars PROVE TypeOK'
        OBVIOUS
    <2>1. CASE \E u \in Users : User(u) \/ Call(u)
        BY <2>1, UserType, CallType
    <2>2. ASSUME NEW u \in Users, AppQuits(u) PROVE TypeOK'
        BY <2>2, GoesType DEF AppQuits, TypeOK, Pc, scmVars, UserPc
    <2>3. ASSUME NEW u \in Users, NEW a \in Args, Run(u, a) PROVE TypeOK'
        BY <2>3, GoesType, PollsRange DEF Run, TypeOK, Pc, scmVars
    <2>4. CASE \E q \in Services : Service(q) \/ ReportStopped(q) \/ Launch(q, {})
        BY <2>4, ServiceType, LaunchType
    <2>5. CASE \E p \in Procs : Main(p) \/ Crash(p)
        BY <2>5, MainType, EndsType DEF Crash
    <2>6. CASE Forget
        BY <2>6 DEF Forget, TypeOK, procVars
    <2>7. CASE UNCHANGED vars
        BY <2>7 DEF vars, procVars, scmVars, TypeOK
    <2> QED
        BY <2>1, <2>2, <2>3, <2>4, <2>5, <2>6, <2>7 DEF Next
<1> QED
    BY <1>1, <1>2, PTL DEF Spec

-----------------------------------------------------------------------------
(* The lock of the single instance *)

\* A step that changes no lock and brings nobody past isRunning().
LEMMA NobodyEnters ==
    ASSUME LockInv, held' = held,
           \A r \in Procs : pc'[r] \in {"down", "isRunning"} \/ Inside(r)
    PROVE  LockInv'
BY DEF LockInv, InsideHasLock, LockExcludes, Inside

\* Whoever ends gives its lock up, and is not inside.
LEMMA EndsKeeps ==
    ASSUME TypeOK, LockInv, NEW p \in Procs, Ends(p)
    PROVE  LockInv'
<1>1. /\ pc'[p] = "down"
      /\ \A r \in Procs \ {p} : pc'[r] \in {"down", "isRunning"} \/ Inside(r)
    BY DEF Ends, Inside
<1>2. /\ held' \in [Procs -> Lock!Modes] /\ held'[p] = "NoLock"
      /\ \A r \in Procs \ {p} : held'[r] = held[r]
    BY DEF Ends, LockInv, Lock!Release, Lock!Modes
<1> QED
    BY <1>1, <1>2 DEF LockInv, InsideHasLock, LockExcludes, Inside

\* isRunning() lets a process in only with the lock, which nobody else of its
\* session has then.
LEMMA IsRunningKeeps ==
    ASSUME TypeOK, LockInv, NEW p \in Procs, isRunning(p)
    PROVE  LockInv'
<1>1. CASE Ends(p)
    BY <1>1, EndsKeeps
<1>2. CASE Goes(p, "isRunning", "exec") /\ Lock!AcquireWrite(p)
    <2>1. /\ held' = [held EXCEPT ![p] = "WriteLock"]
          /\ \A q \in Procs \ {p} : Session[q] = Session[p] => held[q] = "NoLock"
        BY <1>2 DEF Lock!AcquireWrite, Lock!Peers
    <2>2. \A r \in Procs \ {p} : pc'[r] = pc[r]
        BY <1>2 DEF Goes, TypeOK
    <2> QED
        BY <2>1, <2>2 DEF LockInv, InsideHasLock, LockExcludes, Inside, Lock!Modes
<1> QED
    BY <1>1, <1>2 DEF isRunning

LEMMA LockNext == TypeOK /\ LockInv /\ [Next]_vars => LockInv'
<1> SUFFICES ASSUME TypeOK, LockInv, [Next]_vars PROVE LockInv'
    OBVIOUS
<1> USE DEF Inside, Goes, TypeOK
<1>1. CASE \E p \in Procs : isRunning(p)
    BY <1>1, IsRunningKeeps
<1>2. CASE \E p \in Procs : Ends(p)
    BY <1>2, EndsKeeps
<1>3. ASSUME NEW p \in Procs, exec(p) \/ Connect(p) PROVE LockInv'
    BY <1>3, NobodyEnters DEF exec, Connect
<1>4. ASSUME NEW u \in Users, User(u) \/ Call(u) \/ AppQuits(u) PROVE LockInv'
    <2>1. CASE User(u) \/ AppQuits(u)
        BY <2>1, NobodyEnters
        DEF User, AppQuits, install, uninstall, OpenService, Poll, CloseServiceHandle
    <2>2. CASE \E q \in Services : Launch(q, {u}) /\ pc[u] = "call"
        BY <2>2, NobodyEnters DEF Launch
    <2>3. CASE \E a \in {"close", "answer"} : Goes(u, "call", a) /\ held' = held
        BY <2>3, NobodyEnters
    <2> QED
        BY <1>4, <2>1, <2>2, <2>3 DEF Call, StartService, ControlService
<1>5. ASSUME NEW u \in Users, NEW a \in Args, Run(u, a) PROVE LockInv'
    BY <1>5, NobodyEnters DEF Run
<1>6. ASSUME NEW q \in Services,
             Started(q) \/ StartFails(q) \/ Handled(q) \/ ReportStopped(q) \/ Launch(q, {})
      PROVE LockInv'
    BY <1>6, NobodyEnters
    DEF Started, StartFails, Handled, ReportStopped, Answers, Launch, procVars
<1>7. CASE Forget \/ UNCHANGED vars
    BY <1>7, NobodyEnters DEF Forget, vars, procVars
<1> QED
    BY <1>1, <1>2, <1>3, <1>4, <1>5, <1>6, <1>7
    DEF Next, Main, Return, Crash, Service, Leave, Procs

(***************************************************************************)
(* The code of the service runs in one process at a time, although the SCM *)
(* starts the next one while the last is still in main().                  *)
(***************************************************************************)
THEOREM OneServiceRuns == Spec => []OneService
<1>1. Init => LockInv
    BY DEF Init, LockInv, InsideHasLock, LockExcludes, Inside, Lock!Init, Lock!Modes
<1>2. TypeOK /\ LockInv /\ [Next]_vars => LockInv'
    BY LockNext
<1>3. LockInv => OneService
    BY SessionAssumption
    DEF LockInv, InsideHasLock, LockExcludes, Inside, OneService, InService, Procs
<1> QED
    BY <1>1, <1>2, <1>3, TypeCorrect, PTL DEF Spec

(***************************************************************************)
(* What the processes do with the lock of the single instance is what      *)
(* RWLock allows, which LockedFile implements: nobody takes the lock from  *)
(* another, and it is had in write mode, one process of a session at once. *)
(***************************************************************************)
THEOREM UsesTheLock == Spec => Lock!Spec
<1>1. Init => Lock!Init
    BY DEF Init
<1>2. [Next]_vars => [Lock!Next]_held
    <2> SUFFICES ASSUME [Next]_vars PROVE [Lock!Next]_held
        OBVIOUS
    <2>1. ASSUME NEW p \in Procs, Ends(p) \/ isRunning(p) PROVE [Lock!Next]_held
        BY <2>1 DEF Ends, isRunning, Lock!Next
    <2>2. ASSUME NEW p \in Procs, exec(p) \/ Connect(p) PROVE held' = held
        BY <2>2 DEF exec, Connect
    <2>3. ASSUME NEW u \in Users, User(u) \/ Call(u) \/ AppQuits(u) \/ \E a \in Args : Run(u, a)
          PROVE  held' = held
        BY <2>3 DEF User, install, uninstall, OpenService, Poll, CloseServiceHandle, Call, StartService,
                    Launch, ControlService, AppQuits, Run
    <2>4. ASSUME NEW q \in Services,
                 Started(q) \/ StartFails(q) \/ Handled(q) \/ ReportStopped(q) \/ Launch(q, {})
          PROVE  held' = held
        BY <2>4 DEF Started, StartFails, Handled, ReportStopped, Launch, procVars
    <2>5. CASE Forget \/ UNCHANGED vars
        BY <2>5 DEF Forget, vars, procVars
    <2> QED
        BY <2>1, <2>2, <2>3, <2>4, <2>5 DEF Next, Main, Return, Crash, Service, Leave, Procs
<1> QED
    BY <1>1, <1>2, PTL DEF Spec, Lock!Spec
-----------------------------------------------------------------------------
(* Who waits for the service, and who has a handle *)

\* Where a service process is, and what the SCM shows of it.
ServicePlaces ==
    /\ \A q \in Services :
          /\ arg[q] = "" /\ pc[q] \in {"down", "isRunning", "exec", "return", "service", "leaving"}
          /\ q \in owner <=> pc[q] \notin {"down", "leaving"}
    /\ state = "STOPPED" <=> owner = {}
    /\ \A q \in owner : pc[q] = "service" \/ state = "START_PENDING"
    /\ control # "" => state \notin {"STOPPED", "START_PENDING"}

\* Who has called StartService() or ControlService(), alone, and whom it
\* waits for.
Attended ==
    \A u \in Users :
        /\ pc[u] = "startWait" =>
              state = "START_PENDING" /\ \E q \in owner : pc[q] \in {"isRunning", "exec"}
        /\ pc[u] = "answer" =>
              control # "" /\ control = arg[u] /\ \E q \in owner : pc[q] = "service"
        /\ \A v \in Users : pc[u] \in {"startWait", "answer"} /\ pc[v] = pc[u] => u = v

\* Between OpenService() and CloseServiceHandle()
HasHandle(u) == pc[u] \in {"call", "startWait", "answer", "poll", "close"}

\* Each handle is closed, and the SCM knows the service until then.
HandlesAreKept ==
    /\ \A u \in Users : u \in handles <=> HasHandle(u)
    /\ handles # {} => entry # "none"

CallInv == TypeOK /\ ServicePlaces /\ Attended /\ HandlesAreKept

\* Nobody begins to wait, and whom others wait for stays there.
LEMMA AttendedKeeps ==
    ASSUME Attended, UNCHANGED <<state, control>>, owner' = owner,
           \A u \in Users : pc'[u] \in {"startWait", "answer"} => pc'[u] = pc[u] /\ arg'[u] = arg[u],
           \A q \in owner :
               /\ pc[q] \in {"isRunning", "exec"} => pc'[q] \in {"isRunning", "exec"}
               /\ pc[q] = "service" => pc'[q] = "service"
    PROVE  Attended'
<1>1. ASSUME NEW u \in Users, pc'[u] = "startWait"
      PROVE  state' = "START_PENDING" /\ \E q \in owner' : pc'[q] \in {"isRunning", "exec"}
    <2>1. pc[u] = "startWait"
        BY <1>1
    <2>2. PICK q \in owner : pc[q] \in {"isRunning", "exec"}
        BY <2>1 DEF Attended
    <2>3. q \in owner' /\ pc'[q] \in {"isRunning", "exec"}
        BY <2>2
    <2> QED
        BY <2>1, <2>3 DEF Attended
<1>2. ASSUME NEW u \in Users, pc'[u] = "answer"
      PROVE  control' # "" /\ control' = arg'[u] /\ \E q \in owner' : pc'[q] = "service"
    <2>1. pc[u] = "answer" /\ arg'[u] = arg[u]
        BY <1>2
    <2>2. PICK q \in owner : pc[q] = "service"
        BY <2>1 DEF Attended
    <2>3. q \in owner' /\ pc'[q] = "service"
        BY <2>2
    <2> QED
        BY <2>1, <2>3 DEF Attended
<1>3. ASSUME NEW u \in Users, NEW v \in Users, pc'[u] \in {"startWait", "answer"}, pc'[v] = pc'[u]
      PROVE  u = v
    <2>1. pc[u] \in {"startWait", "answer"} /\ pc[v] = pc[u]
        BY <1>3
    <2> QED
        BY <2>1, Zenon DEF Attended
<1> QED
    BY <1>1, <1>2, <1>3 DEF Attended

LEMMA EndsAttends ==
    ASSUME CallInv, NEW p \in Procs, Ends(p)
    PROVE  CallInv'
<1> USE DEF CallInv, Ends, Procs
<1>1. TypeOK'
    BY EndsType
<1>2. ServicePlaces'
    BY ProcsAssumption DEF ServicePlaces, TypeOK
<1>3. Attended'
    <2>1. CASE p \in owner
        <3>1. \A u \in Users : pc'[u] \notin {"startWait", "answer"}
            BY <2>1
        <3> QED
            BY <3>1 DEF Attended
    <2>2. CASE p \notin owner
        <3>1. \A r \in Procs : /\ pc'[r] = IF r = p THEN "down" ELSE pc[r]
                              /\ r # p => arg'[r] = arg[r]
            BY <2>2 DEF TypeOK
        <3>2. UNCHANGED <<owner, state, control>> /\ owner \subseteq Procs \ {p}
            BY <2>2 DEF TypeOK
        <3>3. Attended
            OBVIOUS
        <3>4. /\ \A u \in Users : pc'[u] \in {"startWait", "answer"} => pc'[u] = pc[u] /\ arg'[u] = arg[u]
              /\ \A q \in owner : pc'[q] = pc[q]
            BY <3>1, <3>2
        <3> HIDE DEF CallInv, Ends
        <3> QED
            BY <3>2, <3>3, <3>4, AttendedKeeps
    <2> QED
        BY <2>1, <2>2
<1>4. HandlesAreKept'
    BY DEF HandlesAreKept, HasHandle, TypeOK
<1> QED
    BY <1>1, <1>2, <1>3, <1>4

LEMMA LaunchAttends ==
    ASSUME CallInv, NEW q \in Services, NEW starts, Launch(q, starts),
           starts = {} \/ \E u \in Users : starts = {u} /\ pc[u] = "call"
    PROVE  CallInv'
<1> USE DEF CallInv, Launch, Procs
<1>1. TypeOK'
    BY LaunchType
<1>2. ServicePlaces'
    BY ProcsAssumption DEF ServicePlaces, TypeOK
<1>3. Attended'
    BY ProcsAssumption DEF ServicePlaces, Attended, TypeOK
<1>4. HandlesAreKept'
    BY ProcsAssumption DEF HandlesAreKept, HasHandle, TypeOK
<1> QED
    BY <1>1, <1>2, <1>3, <1>4

\* A user's step that is no call.
LEMMA UserAttends ==
    ASSUME CallInv, NEW u \in Users,
           User(u) \/ AppQuits(u) \/ (exec(u) \/ Connect(u)) \/ \E a \in Args : Run(u, a)
    PROVE  ServicePlaces' /\ Attended' /\ HandlesAreKept'
<1>1. /\ u \notin owner /\ pc \in [Procs -> Pc] /\ arg \in [Procs -> Args]
      /\ u \notin Services /\ Procs = Users \cup Services
    BY ProcsAssumption DEF CallInv, TypeOK, Procs
<1>2. ~ Connect(u)
    BY <1>1 DEF Connect
<1>3. UNCHANGED <<state, owner, control>>
    BY <1>2 DEF User, install, uninstall, OpenService, Poll, CloseServiceHandle, AppQuits, exec, Run, scmVars
<1>4. PICK t \in Pc : /\ pc' = [pc EXCEPT ![u] = t]
                      /\ t \notin {"startWait", "answer"} /\ pc[u] \notin {"startWait", "answer"}
    BY <1>1, <1>2
    DEF User, install, uninstall, OpenService, Poll, CloseServiceHandle, AppQuits, exec, Run, Goes,
        Pc, UserPc
<1>5. \A r \in Procs \ {u} : pc'[r] = pc[r] /\ arg'[r] = arg[r]
    BY <1>1, <1>2, <1>4
    DEF User, install, uninstall, OpenService, Poll, CloseServiceHandle, AppQuits, exec, Run
<1>0. owner \subseteq Procs \ {u} /\ ServicePlaces /\ Attended
    BY <1>1 DEF CallInv, TypeOK
<1>6. ServicePlaces'
    BY <1>0, <1>1, <1>3, <1>5 DEF ServicePlaces
<1>7. Attended'
    <2>1. /\ pc'[u] \notin {"startWait", "answer"}
          /\ \A r \in Procs \ {u} : pc'[r] = pc[r] /\ arg'[r] = arg[r]
        BY <1>1, <1>4, <1>5
    <2> QED
        BY <1>0, <1>1, <1>3, <2>1, AttendedKeeps
<1>8. HandlesAreKept'
    <2>1. CASE OpenService(u)
        BY <1>1, <2>1 DEF CallInv, HandlesAreKept, HasHandle, OpenService, Goes, scmVars
    <2>2. CASE CloseServiceHandle(u)
        BY <1>1, <2>2 DEF CallInv, HandlesAreKept, HasHandle, CloseServiceHandle, Goes, scmVars
    <2>3. CASE User(u) /\ ~ OpenService(u) /\ ~ CloseServiceHandle(u)
        BY <1>1, <2>3
        DEF CallInv, HandlesAreKept, HasHandle, User, install, uninstall, Poll, Goes, scmVars
    <2>4. CASE AppQuits(u) \/ exec(u) \/ \E a \in Args : Run(u, a)
        BY <1>1, <2>4 DEF CallInv, HandlesAreKept, HasHandle, AppQuits, exec, Run, Goes, scmVars
    <2> QED
        BY <1>2, <2>1, <2>2, <2>3, <2>4
<1> QED
    BY <1>6, <1>7, <1>8

LEMMA CallAttends ==
    ASSUME CallInv, NEW u \in Users, Call(u)
    PROVE  ServicePlaces' /\ Attended' /\ HandlesAreKept'
<1>1. /\ pc[u] = "call" /\ pc \in [Procs -> Pc] /\ u \notin Services /\ u \notin owner
      /\ Procs = Users \cup Services
    BY ProcsAssumption DEF Call, StartService, ControlService, Goes, CallInv, TypeOK, Procs
<1>2. CASE \E q \in Services : Launch(q, {u})
    BY <1>1, <1>2, LaunchAttends DEF CallInv
<1>3. CASE Goes(u, "call", "close") /\ UNCHANGED <<arg, handles, scmVars>>
    <2>1. ServicePlaces'
        BY <1>1, <1>3 DEF Goes, scmVars, CallInv, ServicePlaces, TypeOK
    <2>2. Attended'
        BY <1>1, <1>3 DEF Goes, scmVars, CallInv, Attended, TypeOK
    <2>3. HandlesAreKept'
        BY <1>1, <1>3 DEF Goes, scmVars, CallInv, HandlesAreKept, HasHandle
    <2> QED
        BY <2>1, <2>2, <2>3
<1>4. CASE /\ arg[u] \in Controls /\ control = "" /\ state \in Up /\ Goes(u, "call", "answer")
           /\ control' = arg[u] /\ state' = Pending[arg[u]] /\ UNCHANGED <<arg, handles, entry, owner>>
    <2>1. /\ state # "STOPPED" /\ state # "START_PENDING" /\ state' # "STOPPED" /\ state' # "START_PENDING"
          /\ arg[u] # ""
        BY <1>4 DEF Pending, Controls, Up
    <2>2. PICK q \in owner : pc[q] = "service"
        BY <2>1 DEF CallInv, ServicePlaces
    <2>3. ServicePlaces'
        BY <1>1, <1>4, <2>1 DEF Goes, CallInv, ServicePlaces, TypeOK
    <2>4. Attended'
        BY <1>1, <1>4, <2>1, <2>2 DEF Goes, CallInv, Attended, TypeOK
    <2>5. HandlesAreKept'
        BY <1>1, <1>4 DEF Goes, CallInv, HandlesAreKept, HasHandle, TypeOK
    <2> QED
        BY <2>3, <2>4, <2>5
<1> QED
    BY <1>2, <1>3, <1>4 DEF Call, StartService, ControlService, scmVars

\* The callers of ControlService() go on together.
LEMMA AnswersAttend ==
    ASSUME CallInv, NEW final, NEW pcs \in [Procs -> Pc], Answers(final, pcs),
           state \notin {"STOPPED", "START_PENDING"},
           \A r \in Users : pcs[r] = pc[r],
           UNCHANGED <<arg, handles, entry>>
    PROVE  Attended' /\ HandlesAreKept'
<1>1. \A u \in Users : \/ pc[u] = "answer" /\ pc'[u] \in {"poll", "close"}
                       \/ pc[u] # "answer" /\ pc'[u] = pc[u]
    BY DEF Answers, Procs
<1> QED
    BY <1>1 DEF CallInv, Attended, HandlesAreKept, HasHandle

LEMMA ServiceAttends ==
    ASSUME CallInv, NEW q \in Services, Started(q) \/ StartFails(q) \/ Handled(q) \/ ReportStopped(q)
    PROVE  ServicePlaces' /\ Attended' /\ HandlesAreKept'
<1>1. /\ q \notin Users /\ Procs = Users \cup Services /\ pc \in [Procs -> Pc]
      /\ pc[q] = "service" /\ owner = {q}
    BY ProcsAssumption
    DEF Started, StartFails, Handled, ReportStopped, Goes, CallInv, ServicePlaces, TypeOK, Procs
<1>2. CASE Started(q)
    BY <1>1, <1>2
    DEF Started, procVars, CallInv, ServicePlaces, Attended, HandlesAreKept, HasHandle, TypeOK
<1>3. CASE StartFails(q)
    BY <1>1, <1>3
    DEF StartFails, Goes, scmVars, CallInv, ServicePlaces, Attended, HandlesAreKept, HasHandle, TypeOK
<1>4. CASE Handled(q)
    <2>1. PICK final \in {state, "PAUSED", "RUNNING"} : Answers(final, pc)
        BY <1>4 DEF Handled
    <2>2. state \notin {"STOPPED", "START_PENDING"} /\ UNCHANGED <<arg, handles, entry, owner>>
        BY <1>4 DEF Handled, CallInv, ServicePlaces
    <2>3. Attended' /\ HandlesAreKept'
        BY <2>1, <2>2, AnswersAttend DEF CallInv, TypeOK
    <2>4. \A r \in Services : pc'[r] = pc[r]
        BY <1>1, <2>1, ProcsAssumption DEF Answers
    <2>5. state' = final /\ control' = ""
        BY <2>1 DEF Answers
    <2> QED
        BY <1>1, <2>1, <2>2, <2>3, <2>4, <2>5 DEF CallInv, ServicePlaces
<1>5. CASE ReportStopped(q)
    <2> DEFINE pcs == [pc EXCEPT ![q] = "leaving"]
    <2>1. /\ pcs \in [Procs -> Pc] /\ \A r \in Procs : pcs[r] = IF r = q THEN "leaving" ELSE pc[r]
          /\ Answers("STOPPED", pcs)
        BY <1>1, <1>5 DEF ReportStopped, Pc
    <2>2. /\ state \notin {"STOPPED", "START_PENDING"} /\ owner' = {}
          /\ UNCHANGED <<arg, handles, entry>>
        BY <1>5 DEF ReportStopped, Up
    <2> HIDE DEF pcs
    <2>3. Attended' /\ HandlesAreKept'
        BY <1>1, <2>1, <2>2, AnswersAttend
    <2>4. \A r \in Services : pc'[r] = IF r = q THEN "leaving" ELSE pc[r]
        BY <1>1, <2>1, ProcsAssumption DEF Answers
    <2>5. state' = "STOPPED" /\ control' = ""
        BY <2>1 DEF Answers
    <2> QED
        BY <1>1, <2>2, <2>3, <2>4, <2>5 DEF CallInv, ServicePlaces
<1> QED
    BY <1>2, <1>3, <1>4, <1>5

\* A service process on its way to start(): StartService() returns when it is there.
LEMMA MainAttends ==
    ASSUME CallInv, NEW p \in Procs, isRunning(p) \/ (p \in Services /\ (exec(p) \/ Connect(p)))
    PROVE  ServicePlaces' /\ Attended' /\ HandlesAreKept'
<1>1. Procs = Users \cup Services /\ pc \in [Procs -> Pc] /\ Users \cap Services = {}
    BY ProcsAssumption DEF CallInv, TypeOK, Procs
<1>2. CASE Ends(p)
    BY <1>2, EndsAttends DEF CallInv
<1>3. CASE Goes(p, "isRunning", "exec") /\ UNCHANGED <<arg, handles, scmVars>>
    <2>1. /\ \A r \in Procs : pc'[r] = IF r = p THEN "exec" ELSE pc[r]
          /\ pc[p] = "isRunning" /\ UNCHANGED <<arg, handles, entry, state, owner, control>>
          /\ owner \subseteq Procs
        BY <1>1, <1>3 DEF Goes, scmVars, CallInv, TypeOK
    <2>2. ServicePlaces'
        BY <1>1, <2>1 DEF CallInv, ServicePlaces
    <2>3. Attended'
        BY <1>1, <2>1, AttendedKeeps DEF CallInv
    <2>4. HandlesAreKept'
        BY <1>1, <2>1 DEF CallInv, HandlesAreKept, HasHandle
    <2> QED
        BY <2>2, <2>3, <2>4
<1>4. CASE p \in Services /\ exec(p)
    BY <1>4 DEF exec, Goes, CallInv, ServicePlaces
<1>5. CASE p \in Services /\ Connect(p)
    BY <1>1, <1>5
    DEF Connect, scmVars, CallInv, ServicePlaces, Attended, HandlesAreKept, HasHandle, TypeOK
<1> QED
    BY <1>2, <1>3, <1>4, <1>5 DEF isRunning

LEMMA CallNext ==
    ASSUME CallInv, TypeOK', [Next]_vars
    PROVE  CallInv'
<1> SUFFICES ServicePlaces' /\ Attended' /\ HandlesAreKept'
    BY DEF CallInv
<1>1. CASE \E p \in Procs : Ends(p)
    BY <1>1, EndsAttends DEF CallInv
<1>2. CASE \E q \in Services : Launch(q, {})
    BY <1>2, LaunchAttends DEF CallInv
<1>3. CASE \E u \in Users : User(u) \/ AppQuits(u) \/ exec(u) \/ Connect(u) \/ \E a \in Args : Run(u, a)
    BY <1>3, UserAttends
<1>4. CASE \E u \in Users : Call(u)
    BY <1>4, CallAttends
<1>5. CASE \E q \in Services : Started(q) \/ StartFails(q) \/ Handled(q) \/ ReportStopped(q)
    BY <1>5, ServiceAttends
<1>6. CASE \E p \in Procs : isRunning(p) \/ (p \in Services /\ (exec(p) \/ Connect(p)))
    BY <1>6, MainAttends
<1>7. CASE Forget \/ UNCHANGED vars
    <2>1. /\ UNCHANGED <<pc, arg, handles, state, owner, control>>
          /\ entry' = entry \/ handles = {}
        BY <1>7 DEF Forget, vars, procVars, scmVars
    <2>2. ServicePlaces'
        BY <2>1 DEF CallInv, ServicePlaces
    <2>3. Attended'
        BY <2>1 DEF CallInv, Attended
    <2>4. HandlesAreKept'
        BY <2>1 DEF CallInv, HandlesAreKept, HasHandle
    <2> QED
        BY <2>2, <2>3, <2>4
<1> QED
    BY <1>1, <1>2, <1>3, <1>4, <1>5, <1>6, <1>7
    DEF Next, Main, Return, Crash, Service, Leave, Procs

LEMMA CallAlways == Spec => []CallInv
<1>1. Init => ServicePlaces /\ Attended /\ HandlesAreKept
    BY DEF Init, ServicePlaces, Attended, HandlesAreKept, HasHandle, Procs
<1>2. ServicePlaces /\ Attended /\ HandlesAreKept /\ TypeOK /\ TypeOK' /\ [Next]_vars
          => ServicePlaces' /\ Attended' /\ HandlesAreKept'
    BY CallNext DEF CallInv
<1>3. ServicePlaces /\ Attended /\ HandlesAreKept /\ TypeOK => CallInv
    BY DEF CallInv
<1> QED
    BY <1>1, <1>2, <1>3, TypeCorrect, PTL DEF Spec

(***************************************************************************)
(* Nobody waits for a service that is not there: whoever is in             *)
(* StartService() or ControlService() is alone, and the process it waits   *)
(* for is on its way, or is the service and has that user's control in     *)
(* hand, whoever has died.                                                 *)
(***************************************************************************)
THEOREM CallersAreAttended == Spec => []Attended
<1>1. CallInv => Attended
    BY DEF CallInv
<1> QED
    BY <1>1, CallAlways, PTL

(***************************************************************************)
(* Each handle of a controller is closed, on every way out of a call, and  *)
(* the SCM forgets no service that somebody still has open.                *)
(***************************************************************************)
THEOREM HandlesAreClosed == Spec => []HandlesAreKept
<1>1. CallInv => HandlesAreKept
    BY DEF CallInv
<1> QED
    BY <1>1, CallAlways, PTL
-----------------------------------------------------------------------------
(* Who turns a service away *)

HoldersAreInside == \A p \in Procs : held[p] # "NoLock" => Inside(p)

LEMMA HoldersNext ==
    ASSUME CallInv, LockInv, HoldersAreInside, [Next]_vars
    PROVE  HoldersAreInside'
<1> USE DEF HoldersAreInside, Inside, Goes
<1>0. pc \in [Procs -> Pc] /\ held \in [Procs -> Lock!Modes] /\ Procs = Users \cup Services
    BY DEF CallInv, TypeOK, Procs
<1>1. ASSUME NEW p \in Procs, Ends(p) PROVE HoldersAreInside'
    BY <1>0, <1>1 DEF Ends, Lock!Release
<1>2. ASSUME NEW p \in Procs, isRunning(p) PROVE HoldersAreInside'
    BY <1>0, <1>1, <1>2 DEF isRunning, Lock!AcquireWrite
<1>3. ASSUME held' = held, \A p \in Procs : Inside(p) => Inside(p)' PROVE HoldersAreInside'
    BY <1>3
<1>4. ASSUME NEW p \in Procs, exec(p) \/ Connect(p) PROVE HoldersAreInside'
    BY <1>0, <1>3, <1>4 DEF exec, Connect
<1>5. ASSUME NEW u \in Users, User(u) \/ AppQuits(u) \/ \E a \in Args : Run(u, a)
      PROVE  HoldersAreInside'
    BY <1>0, <1>3, <1>5
    DEF User, install, uninstall, OpenService, Poll, CloseServiceHandle, AppQuits, Run
<1>6. ASSUME NEW q \in Services, NEW starts, Launch(q, starts) PROVE HoldersAreInside'
    BY <1>0, <1>3, <1>6 DEF Launch
<1>7. ASSUME NEW u \in Users, Call(u) PROVE HoldersAreInside'
    BY <1>0, <1>3, <1>6, <1>7 DEF Call, StartService, ControlService
<1>8. ASSUME NEW q \in Services, Started(q) \/ StartFails(q) \/ Handled(q) \/ ReportStopped(q)
      PROVE  HoldersAreInside'
    BY <1>0, <1>3, <1>8 DEF Started, StartFails, Handled, ReportStopped, Answers, procVars
<1>9. CASE Forget \/ UNCHANGED vars
    BY <1>3, <1>9 DEF Forget, vars, procVars
<1> QED
    BY <1>1, <1>2, <1>4, <1>5, <1>6, <1>7, <1>8, <1>9
    DEF Next, Main, Return, Crash, Service, Leave, Procs

\* A user of its session, or a predecessor that has reported STOPPED.
LeavingBlocks ==
    \A q \in Services : pc[q] = "isRunning" =>
        \A r \in Lock!Peers(q) : held[r] # "NoLock" => r \in Users \/ pc[r] = "leaving"

(***************************************************************************)
(* The only process of the service that turns another one away is one that *)
(* the SCM holds for stopped and that is still on its way out of main():   *)
(* what ScmStartsService shows once is the one case there is.              *)
(***************************************************************************)
THEOREM OnlyTheLeavingBlocks == Spec => []LeavingBlocks
<1> DEFINE Inv == LockInv /\ HoldersAreInside
<1>1. Init => Inv
    BY DEF Init, LockInv, HoldersAreInside, InsideHasLock, LockExcludes, Inside, Lock!Init, Lock!Modes
<1>2. CallInv /\ Inv /\ [Next]_vars => Inv'
    BY LockNext, HoldersNext DEF CallInv
<1>3. CallInv /\ Inv => LeavingBlocks
    <2> SUFFICES ASSUME CallInv, Inv, NEW q \in Services, pc[q] = "isRunning",
                        NEW r \in Lock!Peers(q), held[r] # "NoLock", r \in Services
                 PROVE  pc[r] = "leaving"
        BY DEF LeavingBlocks, Lock!Peers, Procs
    <2>1. q \in owner /\ r # q /\ Inside(r)
        BY DEF CallInv, ServicePlaces, HoldersAreInside, Lock!Peers
    <2>2. r \notin owner
        <3>1. PICK x \in Services : owner = {x}
            BY <2>1 DEF CallInv, TypeOK
        <3> QED
            BY <2>1, <3>1
    <2> QED
        BY <2>1, <2>2 DEF CallInv, ServicePlaces, Inside
<1> QED
    BY <1>1, <1>2, <1>3, CallAlways, PTL DEF Spec
=============================================================================
