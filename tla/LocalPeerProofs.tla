-------------------------- MODULE LocalPeerProofs ---------------------------
(***************************************************************************)
(* One running instance at a time, for every number of processes and       *)
(* messages, through crashes, stalls and lock files that cannot be opened, *)
(* ReInit() excluded; and one instance that takes messages, whose socket   *)
(* file no newcomer removes, ReInit() included.                            *)
(***************************************************************************)
EXTENDS LocalPeer, TLAPS

\* Whoever runs has the lock, and only one process has it.
RunningHasLock ==
    \A p \in Procs : Running(p) => held[p] = "WriteLock"

LockExcludes ==
    \A p, q \in Procs : held[p] # "NoLock" /\ held[q] # "NoLock" => p = q

RunInv ==
    /\ pc \in [Procs -> Pc] /\ held \in [Procs -> Lock!Modes]
    /\ RunningHasLock /\ LockExcludes

-----------------------------------------------------------------------------
\* A step of p that changes its place and keeps every lock preserves the
\* invariant if p had the lock before or does not run afterwards.
LEMMA MoveKeeps ==
    ASSUME RunInv, NEW p \in Procs, NEW t \in Pc, pc' = [pc EXCEPT ![p] = t],
           held' = held, t \in RunningPc => Running(p)
    PROVE  RunInv'
BY DEF RunInv, RunningHasLock, LockExcludes, Running

\* So does one that gives its lock up and does not run afterwards.
LEMMA ReleaseKeeps ==
    ASSUME RunInv, NEW p \in Procs, NEW t \in Pc \ RunningPc, pc' = [pc EXCEPT ![p] = t],
           ReleaseLock(p)
    PROVE  RunInv'
BY DEF RunInv, RunningHasLock, LockExcludes, Running, ReleaseLock, Lock!Release, Lock!Modes

\* isClient() lets a process run only with the lock.
LEMMA IsClientKeeps ==
    ASSUME RunInv, NEW p \in Procs, NEW from, NEW to \in Pc \ RunningPc, isClient(p, from, to)
    PROVE  RunInv'
<1>1. CASE Lock!AcquireWrite(p) /\ Goes(p, from, "listen")
    <2>1. pc' = [pc EXCEPT ![p] = "listen"] /\ "listen" \in Pc /\ "listen" \in RunningPc
        BY <1>1 DEF Goes, Pc, RunningPc
    <2>2. /\ held' = [held EXCEPT ![p] = "WriteLock"] /\ held[p] = "NoLock"
          /\ \A q \in Procs \ {p} : held[q] = "NoLock"
        BY <1>1 DEF Lock!AcquireWrite, Lock!Peers
    <2> QED
        BY <2>1, <2>2 DEF RunInv, RunningHasLock, LockExcludes, Running, Lock!Modes
<1>2. CASE Goes(p, from, to) /\ UNCHANGED held
    BY <1>2, MoveKeeps DEF Goes
<1> QED
    BY <1>1, <1>2 DEF isClient, lockVars

-----------------------------------------------------------------------------
LEMMA InstanceKeeps ==
    ASSUME "reinit" \notin Adversity, RunInv, NEW p \in Procs,
           Instance(p) /\ ~ ReInitLock(p) /\ ~ ReInitPeer(p)
    PROVE  RunInv'
<1>1. CASE isRunning(p)
    BY <1>1, IsClientKeeps DEF isRunning, Pc, RunningPc, Serving
<1>2. CASE Listen(p)
    BY <1>2, MoveKeeps DEF Listen, Goes, lockVars, Pc, RunningPc, Running
<1>3. CASE Exited(p)
    BY <1>3, MoveKeeps DEF Exited, Goes, lockVars, Pc, RunningPc, Serving
<1> QED
    BY <1>1, <1>2, <1>3 DEF Instance

LEMMA SendKeeps ==
    ASSUME RunInv, NEW p \in Procs, Send(p)
    PROVE  RunInv'
<1> USE DEF Pc, RunningPc, Serving, Sending, Goes, lockVars
<1>1. CASE SendLock(p)
    BY <1>1, IsClientKeeps DEF SendLock
<1>2. CASE Connect(p)
    BY <1>2, MoveKeeps DEF Connect
<1>3. CASE Write(p)
    BY <1>3, MoveKeeps DEF Write
<1>4. CASE WriteRest(p)
    BY <1>4, MoveKeeps DEF WriteRest
<1>5. CASE GotAck(p)
    BY <1>5, MoveKeeps DEF GotAck
<1>6. CASE TimedOut(p)
    BY <1>6, MoveKeeps DEF TimedOut
<1> QED
    BY <1>1, <1>2, <1>3, <1>4, <1>5, <1>6 DEF Send

LEMMA ReceiveKeeps ==
    ASSUME RunInv, NEW q \in Procs, Receive(q)
    PROVE  RunInv'
<1>1. PICK t \in Pc : pc' = [pc EXCEPT ![q] = t] /\ held' = held /\ Running(q)
    BY DEF Receive, NextConnection, ReadHeader, ReadBody, Discard, Answer, Emit, Goes, lockVars, Running,
           Pc, RunningPc, Serving
<1> QED
    BY <1>1, MoveKeeps

LEMMA RunNext ==
    ASSUME "reinit" \notin Adversity, RunInv, Next,
           \A p \in Procs : pc[p] \notin {"reinit", "reLock"}
    PROVE  RunInv'
<1> PICK p \in Procs : \/ Instance(p) \/ Send(p) \/ Receive(p)
                       \/ Start(p) \/ SendMessage(p) \/ ExitClient(p) \/ Exit(p) \/ ReInit(p)
                       \/ Crash(p)
    BY DEF Next
<1> USE DEF Pc, RunningPc, Serving, Sending
<1>1. CASE Instance(p)
    BY <1>1, InstanceKeeps DEF ReInitLock, ReInitPeer, isClient, Goes
<1>2. CASE Send(p)
    BY <1>2, SendKeeps
<1>3. CASE Receive(p)
    BY <1>3, ReceiveKeeps
<1>4. CASE Start(p)
    BY <1>4, MoveKeeps DEF Start, Goes
<1>5. CASE SendMessage(p)
    BY <1>5, MoveKeeps DEF SendMessage, Goes, lockVars
<1>6. CASE ExitClient(p)
    BY <1>6, MoveKeeps DEF ExitClient, Goes
<1>7. CASE Exit(p)
    BY <1>7, ReleaseKeeps DEF Exit, Goes
<1>8. CASE ReInit(p)
    BY <1>8 DEF ReInit
<1>9. CASE Crash(p)
    BY <1>9, ReleaseKeeps DEF Crash
<1> QED
    BY <1>1, <1>2, <1>3, <1>4, <1>5, <1>6, <1>7, <1>8, <1>9

NoReInit == \A p \in Procs : pc[p] \notin {"reinit", "reLock"}

LEMMA NoReInitNext ==
    ASSUME "reinit" \notin Adversity, pc \in [Procs -> Pc], NoReInit, [Next]_vars
    PROVE  NoReInit'
BY ZenonT(60) DEF NoReInit, Next, vars, Goes, Instance, Send, Receive, Start, SendMessage, ExitClient, Exit,
       ReInit, Crash, isRunning, isClient, Listen, Exited, ReInitPeer, ReInitLock, SendLock, Connect,
       Write, WriteRest, GotAck, TimedOut, NextConnection, ReadHeader, ReadBody, Discard, Answer, Emit

(***************************************************************************)
(* isRunning() returns false in one process at a time, whatever crashes,   *)
(* as long as the running instance does not call ReInit().                 *)
(***************************************************************************)
THEOREM OneRunningInstance ==
    ASSUME "reinit" \notin Adversity
    PROVE  Spec => []AtMostOneRunning
<1>1. Init => RunInv /\ NoReInit
    BY DEF Init, RunInv, NoReInit, RunningHasLock, LockExcludes, Running, RunningPc, Serving, Pc,
           Lock!Init, Lock!Modes
<1>2. RunInv /\ NoReInit /\ [Next]_vars => (RunInv /\ NoReInit)'
    <2>1. CASE Next
        BY <2>1, RunNext, NoReInitNext DEF NoReInit, RunInv
    <2>2. CASE UNCHANGED vars
        BY <2>2 DEF vars, lockVars, RunInv, NoReInit, RunningHasLock, LockExcludes, Running
    <2> QED
        BY <2>1, <2>2
<1>3. RunInv => AtMostOneRunning
    BY DEF RunInv, RunningHasLock, LockExcludes, AtMostOneRunning
<1> QED
    BY <1>1, <1>2, <1>3, PTL DEF Spec

-----------------------------------------------------------------------------
(* Who takes messages, ReInit() included *)

Bound == {"running"} \cup Serving

\* Whoever listens, or is about to, has the lock; ReInit() starts without a server.
ServeInv ==
    /\ pc \in [Procs -> Pc] /\ held \in [Procs -> Lock!Modes]
    /\ LockExcludes
    /\ \A p \in Procs :
          /\ pc[p] \in {"listen", "listenAgain"} \/ Serves(p) => held[p] = "WriteLock"
          /\ pc[p] = "reLock" => p \notin listening

\* A step that leaves locks and servers alone and does not begin to listen.
LEMMA ServeMove ==
    ASSUME ServeInv, NEW p \in Procs, NEW t \in Pc, pc' = [pc EXCEPT ![p] = t],
           held' = held, listening' = listening,
           t \notin {"listen", "listenAgain", "reLock"}, t \in Bound => pc[p] \in Bound
    PROVE  ServeInv'
BY DEF ServeInv, LockExcludes, Serves, Bound

\* A process that gives its lock up, or its server, and takes no messages then.
LEMMA ServeRelease ==
    ASSUME ServeInv, NEW p \in Procs, NEW t \in Pc, pc' = [pc EXCEPT ![p] = t],
           ReleaseLock(p) \/ held' = held,
           listening' \in {listening, listening \ {p}}, t \notin Bound \cup {"listen", "listenAgain"},
           t = "reLock" => listening' = listening \ {p}
    PROVE  ServeInv'
<1>1. /\ held' \in [Procs -> Lock!Modes] /\ \A q \in Procs \ {p} : held'[q] = held[q]
      /\ held'[p] \in {held[p], "NoLock"}
    BY DEF ServeInv, ReleaseLock, Lock!Release, Lock!Modes
<1>2. \A q \in Procs : /\ pc'[q] = IF q = p THEN t ELSE pc[q]
                       /\ q # p => (q \in listening' <=> q \in listening)
    BY DEF ServeInv
<1>3. pc' \in [Procs -> Pc]
    BY DEF ServeInv
<1>4. LockExcludes'
    BY <1>1 DEF ServeInv, LockExcludes
<1>5. ASSUME NEW q \in Procs
      PROVE  /\ pc'[q] \in {"listen", "listenAgain"} \/ Serves(q)' => held'[q] = "WriteLock"
             /\ pc'[q] = "reLock" => q \notin listening'
    BY <1>1, <1>2 DEF ServeInv, Serves, Bound
<1> QED
    BY <1>1, <1>3, <1>4, <1>5 DEF ServeInv

\* isClient(): who gets the lock listens next.
LEMMA ServeIsClient ==
    ASSUME ServeInv, NEW p \in Procs, NEW from, NEW to \in Pc, isClient(p, from, to),
           to \notin {"listen", "listenAgain", "reLock"},
           to \in Bound => p \notin listening
    PROVE  ServeInv'
<1>1. CASE Lock!AcquireWrite(p) /\ Goes(p, from, "listen") /\ UNCHANGED listening
    <2>1. pc' = [pc EXCEPT ![p] = "listen"] /\ "listen" \in Pc /\ "listen" \notin Bound
        BY <1>1 DEF Goes, Pc, RunningPc, Bound, Serving
    <2>2. /\ held' = [held EXCEPT ![p] = "WriteLock"] /\ held[p] = "NoLock"
          /\ \A q \in Procs \ {p} : held[q] = "NoLock"
        BY <1>1 DEF Lock!AcquireWrite, Lock!Peers
    <2> QED
        BY <1>1, <2>1, <2>2 DEF ServeInv, LockExcludes, Serves, Bound, Lock!Modes
<1>2. CASE Goes(p, from, to) /\ UNCHANGED <<held, listening>>
    BY <1>2 DEF Goes, ServeInv, LockExcludes, Serves, Bound
<1> QED
    BY <1>1, <1>2 DEF isClient, lockVars

LEMMA ServeListen ==
    ASSUME ServeInv, NEW p \in Procs, Listen(p)
    PROVE  ServeInv'
<1>1. PICK t \in {"running", "listenAgain"} : pc' = [pc EXCEPT ![p] = t]
    BY DEF Listen, Goes
<1>2. /\ held' = held /\ held[p] = "WriteLock"
      /\ listening' \in {listening, listening \cup {p}}
    BY DEF Listen, Goes, Bind, ServeInv, lockVars
<1>3. "running" \in Pc /\ "listenAgain" \in Pc
    BY DEF Pc, RunningPc
<1> QED
    BY <1>1, <1>2, <1>3 DEF ServeInv, LockExcludes, Serves

LEMMA ServeNext ==
    ASSUME ServeInv, Next
    PROVE  ServeInv'
<1> PICK p \in Procs : \/ Instance(p) \/ Send(p) \/ Receive(p)
                       \/ Start(p) \/ SendMessage(p) \/ ExitClient(p) \/ Exit(p) \/ ReInit(p)
                       \/ Crash(p)
    BY DEF Next
<1> USE DEF Pc, RunningPc, Serving, Sending, Bound
<1>1. CASE isRunning(p) \/ SendLock(p)
    BY <1>1, ServeIsClient DEF isRunning, SendLock
<1>2. CASE ReInitLock(p)
    <2>1. p \notin listening
        BY <1>2 DEF ReInitLock, isClient, Goes, ServeInv
    <2> QED
        BY <1>2, <2>1, ServeIsClient DEF ReInitLock
<1>3. CASE Listen(p)
    BY <1>3, ServeListen
<1>4. CASE Exited(p)
    BY <1>4, ServeRelease DEF Exited, Goes, CloseServer, lockVars
<1>5. CASE ReInitPeer(p)
    BY <1>5, ServeRelease DEF ReInitPeer, Goes, CloseServer, lockVars
<1>6. CASE Connect(p) \/ Write(p) \/ WriteRest(p) \/ GotAck(p) \/ TimedOut(p)
    <2>1. PICK t \in {"write", "await", "rest", "client"} : pc' = [pc EXCEPT ![p] = t]
        BY <1>6 DEF Connect, Write, WriteRest, GotAck, TimedOut, Goes
    <2>2. held' = held /\ listening' = listening
        BY <1>6 DEF Connect, Write, WriteRest, GotAck, TimedOut, lockVars
    <2> QED
        BY <2>1, <2>2, ServeMove
<1>7. CASE Receive(p)
    <2>1. PICK t \in Bound : pc' = [pc EXCEPT ![p] = t] /\ pc[p] \in Bound
        BY <1>7 DEF Receive, NextConnection, ReadHeader, ReadBody, Discard, Answer, Emit, Goes
    <2>2. held' = held /\ listening' = listening
        BY <1>7 DEF Receive, NextConnection, ReadHeader, ReadBody, Discard, Answer, Emit, lockVars
    <2> QED
        BY <2>1, <2>2, ServeMove
<1>8. CASE Start(p) \/ SendMessage(p) \/ ExitClient(p)
    <2>1. PICK t \in {"isClient", "sendLock", "down"} : pc' = [pc EXCEPT ![p] = t]
        BY <1>8 DEF Start, SendMessage, ExitClient, Goes
    <2>2. held' = held /\ listening' = listening
        BY <1>8 DEF Start, SendMessage, ExitClient, lockVars
    <2> QED
        BY <2>1, <2>2, ServeMove
<1>9. CASE Exit(p) \/ ReInit(p)
    <2>1. PICK t \in {"unlocked", "reinit"} : pc' = [pc EXCEPT ![p] = t]
        BY <1>9 DEF Exit, ReInit, Goes
    <2>2. ReleaseLock(p) /\ listening' = listening
        BY <1>9 DEF Exit, ReInit
    <2> QED
        BY <2>1, <2>2, ServeRelease
<1>10. CASE Crash(p)
    BY <1>10, ServeRelease DEF Crash
<1> QED
    BY <1>1, <1>2, <1>3, <1>4, <1>5, <1>6, <1>7, <1>8, <1>9, <1>10 DEF Instance, Send

LEMMA ServeAlways == Spec => []ServeInv
<1>1. Init => ServeInv
    BY DEF Init, ServeInv, LockExcludes, Serves, Serving, Pc, RunningPc, Lock!Init, Lock!Modes
<1>2. ServeInv /\ [Next]_vars => ServeInv'
    <2>1. CASE UNCHANGED vars
        BY <2>1 DEF vars, lockVars, ServeInv, LockExcludes, Serves
    <2> QED
        BY <2>1, ServeNext
<1> QED
    BY <1>1, <1>2, PTL DEF Spec

\* One instance takes messages, also after ReInit() (whoever serves has the lock).
THEOREM OneTakesMessages == Spec => []OneServes
<1>1. ServeInv => OneServes
    BY DEF ServeInv, LockExcludes, OneServes
<1> QED
    BY <1>1, ServeAlways, PTL

\* The workaround of isClient() removes no file of an instance that serves.
THEOREM WorkaroundSpares == Spec => SocketFileKept
<1>1. ASSUME ServeInv, Next, NEW p \in Procs, path = p, Serves(p), p \in listening', path' # p
      PROVE  \E q \in Procs \ {p} : pc[q] \in {"unlocked", "reinit"} /\ pc'[q] # pc[q]
    <2>1. path # "none"
        BY <1>1, ProcsAssumption
    <2>2. PICK r \in Procs : Listen(r) \/ Exited(r) \/ ReInitPeer(r)
        BY <1>1 DEF Next, Instance, Send, Receive, isRunning, isClient, ReInitLock, SendLock,
                    Connect, Write, WriteRest, GotAck, TimedOut, NextConnection, ReadHeader,
                    ReadBody, Discard, Answer, Emit, Start, SendMessage, ExitClient, Exit, ReInit, Crash,
                    fileVars
    <2>3. CASE Listen(r)
        <3>1. pc[r] \in {"listen", "listenAgain"} /\ held[r] = "WriteLock"
            BY <1>1, <2>3 DEF Listen, Goes, ServeInv
        <3>2. held[p] = "WriteLock" /\ pc[p] \notin {"listen", "listenAgain"}
            BY <1>1 DEF ServeInv, Serves, Serving
        <3>3. r = p
            BY <1>1, <3>1, <3>2 DEF ServeInv, LockExcludes
        <3> QED
            BY <3>1, <3>2, <3>3
    <2>4. CASE Exited(r) \/ ReInitPeer(r)
        <3>1. pc[r] \in {"unlocked", "reinit"} /\ pc'[r] # pc[r]
            BY <1>1, <2>4 DEF Exited, ReInitPeer, Goes, ServeInv
        <3>2. r # p
            BY <1>1, <3>1 DEF Serves, Serving
        <3> QED
            BY <3>1, <3>2
    <2> QED
        BY <2>2, <2>3, <2>4
<1>2. ServeInv /\ [Next]_vars
      => [\A p \in Procs :
            path = p /\ Serves(p) /\ p \in listening' /\ path' # p
              => \E q \in Procs \ {p} : pc[q] \in {"unlocked", "reinit"} /\ pc'[q] # pc[q]]_vars
    BY <1>1
<1> QED
    BY <1>2, ServeAlways, PTL DEF Spec, SocketFileKept

(***************************************************************************)
(* What the processes do with the lock file is what RWLock allows, which   *)
(* LockedFile implements, ReInit() and crashes included.                   *)
(***************************************************************************)
THEOREM UsesTheLock == Spec => Lock!Spec
<1>1. Init => Lock!Init
    BY DEF Init
<1>2. [Next]_vars => [Lock!Next]_held
    <2>1. ASSUME NEW p \in Procs, NEW from, NEW to, isClient(p, from, to) PROVE [Lock!Next]_held
        BY <2>1 DEF isClient, lockVars, Lock!Next
    <2>2. ASSUME NEW p \in Procs, ReleaseLock(p) PROVE [Lock!Next]_held
        BY <2>2 DEF ReleaseLock, Lock!Next
    <2>3. ASSUME NEW p \in Procs, Instance(p) PROVE [Lock!Next]_held
        BY <2>1, <2>3 DEF Instance, isRunning, ReInitLock, Listen, Exited, ReInitPeer, lockVars
    <2>4. ASSUME NEW p \in Procs, Send(p) \/ Receive(p) PROVE [Lock!Next]_held
        BY <2>1, <2>4 DEF Send, SendLock, Connect, Write, WriteRest, GotAck, TimedOut, Receive,
                          NextConnection, ReadHeader, ReadBody, Discard, Answer, Emit, lockVars
    <2>5. ASSUME NEW p \in Procs, Start(p) \/ SendMessage(p) \/ ExitClient(p) PROVE held' = held
        BY <2>5 DEF Start, SendMessage, ExitClient, lockVars
    <2>6. ASSUME NEW p \in Procs, Exit(p) \/ ReInit(p) \/ Crash(p) PROVE [Lock!Next]_held
        BY <2>2, <2>6 DEF Exit, ReInit, Crash
    <2>7. CASE UNCHANGED vars
        BY <2>7 DEF vars, lockVars
    <2> QED
        BY <2>3, <2>4, <2>5, <2>6, <2>7 DEF Next
<1> QED
    BY <1>1, <1>2, PTL DEF Spec, Lock!Spec
=============================================================================
