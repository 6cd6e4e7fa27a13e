-------------------------- MODULE UnixServiceProofs --------------------------
(***************************************************************************)
(* A service keeps its socket file while it takes commands, and clients    *)
(* are told the truth, for every number of programs and clients, whoever   *)
(* dies.                                                                   *)
(*                                                                         *)
(* The path: setPath() and sysCleanup() remove whatever file is there.     *)
(* Only a process that has the lock of main() gets to them                 *)
(* (InsideHasLock), and one process has it (LockExcludes).                 *)
(*                                                                         *)
(* The answers: a call has one connection (OneEach), whose command is      *)
(* carried out once it is read (NotYet), and slotReady() answers before    *)
(* anything can close the connection (Told).                               *)
(*                                                                         *)
(* The wait: who has sent a line has it at a process that is still to read *)
(* it or to say that it will not (Heard).                                  *)
(***************************************************************************)
EXTENDS UnixService, FiniteSetTheorems, TLAPS

\* A program past isRunning(), and not yet at its end.
Inside(p) == pc[p] \notin {"down", "isRunning"}

InsideHasLock == \A p \in Programs : Inside(p) => held[p] = "WriteLock"

LockExcludes ==
    \A p, q \in Programs : held[p] # "NoLock" /\ held[q] # "NoLock" => p = q

\* What setPath() leaves for bind(), and bind(), unless a call fails, for the
\* event loop.
PathIsOurs ==
    \A p \in Programs :
        /\ pc[p] = "bind" => file = "none"
        /\ pc[p] \in {"listens", "serving", "quit"} /\ p \notin failed => file = p /\ p \in bound

PathInv ==
    /\ pc \in [Users -> Pc] /\ held \in [Programs -> Lock!Modes]
    /\ InsideHasLock /\ LockExcludes /\ PathIsOurs

-----------------------------------------------------------------------------
\* A step of u that changes neither a lock nor the file, and takes u neither
\* past isRunning() nor into the service.
LEMMA MoveKeeps ==
    ASSUME PathInv, NEW u \in Users, NEW t \in Pc, pc' = [pc EXCEPT ![u] = t],
           held' = held, UNCHANGED pathVars,
           u \in Programs =>
               /\ t \in {"down", "isRunning"} \/ Inside(u)
               /\ t \notin {"bind", "listens"}
               /\ t \in {"serving", "quit"} => pc[u] \in {"listens", "serving", "quit"}
    PROVE  PathInv'
BY DEF PathInv, InsideHasLock, LockExcludes, PathIsOurs, Inside, pathVars

\* Who is inside is alone there.
LEMMA Alone ==
    ASSUME PathInv, NEW p \in Programs, Inside(p) \/ held[p] # "NoLock"
    PROVE  \A q \in Programs \ {p} : ~ Inside(q) /\ held[q] = "NoLock"
BY DEF PathInv, InsideHasLock, LockExcludes

\* A step of a program inside that gives no lock away: only its own part of
\* the invariant can be at stake.
LEMMA InsideKeeps ==
    ASSUME PathInv, NEW p \in Programs, NEW t \in Pc, Inside(p),
           pc' = [pc EXCEPT ![p] = t], held' = held,
           t = "bind" => file' = "none",
           t \in {"listens", "serving", "quit"} /\ p \notin failed' => file' = p /\ p \in bound'
    PROVE  PathInv'
<1>1. \A q \in Programs \ {p} : pc'[q] \in {"down", "isRunning"}
    BY Alone DEF Inside, PathInv, Users
<1> QED
    BY <1>1 DEF PathInv, InsideHasLock, LockExcludes, PathIsOurs, Inside, Users

\* The end of a process takes its lock and its socket, and nobody else's.
LEMMA EndsKeeps ==
    ASSUME PathInv, NEW u \in Users, Ends(u)
    PROVE  PathInv'
<1>1. pc' = [pc EXCEPT ![u] = "down"] /\ file' = file /\ bound' = bound \ {u}
      /\ failed' = failed \ {u}
    BY DEF Ends
<1>2. /\ held' \in [Programs -> Lock!Modes]
      /\ u \in Programs => held'[u] = "NoLock"
      /\ \A q \in Programs \ {u} : held'[q] = held[q]
    BY DEF Ends, PathInv, Lock!Release, Lock!Modes
<1> QED
    BY <1>1, <1>2 DEF PathInv, InsideHasLock, LockExcludes, PathIsOurs, Inside, Pc

-----------------------------------------------------------------------------
LEMMA MainKeeps ==
    ASSUME PathInv, NEW p \in Programs, Main(p)
    PROVE  PathInv'
<1> USE DEF Pc, CallPc, ServicePc, pathVars, Users
<1>1. CASE Ends(p)
    BY <1>1, EndsKeeps
<1>2. CASE Goes(p, "isRunning", "exec") /\ Lock!AcquireWrite(p) /\ UNCHANGED pathVars
    <2>1. /\ held' = [held EXCEPT ![p] = "WriteLock"]
          /\ \A q \in Programs \ {p} : held[q] = "NoLock"
        BY <1>2 DEF Lock!AcquireWrite, Lock!Peers
    <2>2. pc' = [pc EXCEPT ![p] = "exec"]
        BY <1>2 DEF Goes
    <2> QED
        BY <1>2, <2>1, <2>2
        DEF PathInv, InsideHasLock, LockExcludes, PathIsOurs, Inside, Lock!Modes
<1>3. CASE exec(p)
    <2>1. PICK t \in {"unlink", "connect", "return", "app"} : Goes(p, "exec", t)
        BY <1>3 DEF exec
    <2> QED
        BY <1>3, <2>1, InsideKeeps DEF exec, Goes, Inside, lifeVars
<1> QED
    BY <1>1, <1>2, <1>3 DEF Main, isRunning, Return

LEMMA ServiceKeeps ==
    ASSUME PathInv, NEW p \in Programs, Service(p)
    PROVE  PathInv'
<1> USE DEF Pc, ServicePc, Goes, Inside, lifeVars, pathVars
<1>1. CASE Unlink(p)
    <2>1. CASE pc' = [pc EXCEPT ![p] = "bind"] /\ file' = "none"
        BY <1>1, <2>1, InsideKeeps DEF Unlink
    <2>2. CASE pc' = [pc EXCEPT ![p] = "listens"] /\ Fails(p)
        BY <1>1, <2>2, InsideKeeps DEF Unlink, Fails
    <2> QED
        BY <1>1, <2>1, <2>2 DEF Unlink
<1>2. CASE Bind(p)
    <2>1. file = "none"
        BY <1>2 DEF Bind, PathInv, PathIsOurs
    <2>2. pc[p] = "bind" /\ pc' = [pc EXCEPT ![p] = "listens"] /\ held' = held
        BY <1>2 DEF Bind
    <2>3. p \notin failed' => file' = p /\ p \in bound'
        BY <1>2, <2>1 DEF Bind, Fails
    <2> QED
        BY <2>2, <2>3, InsideKeeps
<1>3. CASE executeApplication(p)
    BY <1>3, InsideKeeps DEF executeApplication, PathInv, PathIsOurs
<1>4. CASE LoopEnds(p)
    BY <1>4, InsideKeeps DEF LoopEnds
<1>5. CASE Close(p)
    BY <1>5, InsideKeeps DEF Close
<1>6. CASE sysCleanup(p)
    BY <1>6, InsideKeeps DEF sysCleanup
<1> QED
    BY <1>1, <1>2, <1>3, <1>4, <1>5, <1>6 DEF Service

LEMMA LoopKeeps ==
    ASSUME PathInv, NEW p \in Programs,
           Quits(p) \/ incomingConnection(p) \/ slotReady(p)
    PROVE  PathInv'
<1> USE DEF Pc, ServicePc, Goes, Inside, lifeVars, pathVars, Looping, Users
<1>1. CASE Quits(p)
    BY <1>1, MoveKeeps DEF Quits
<1>2. CASE incomingConnection(p)
    <2>1. pc' = pc /\ held' = held /\ UNCHANGED pathVars
        BY <1>2 DEF incomingConnection
    <2> QED
        BY <2>1 DEF PathInv, InsideHasLock, LockExcludes, PathIsOurs
<1>3. CASE slotReady(p)
    <2>1. PICK t \in {pc[p], "quit"} : pc' = [pc EXCEPT ![p] = t]
        BY <1>3 DEF slotReady, AfterCommand
    <2>2. t \in Pc
        BY <2>1 DEF PathInv
    <2> QED
        BY <1>3, <2>1, <2>2, MoveKeeps DEF slotReady
<1> QED
    BY <1>1, <1>2, <1>3

\* Calls keep clear of the file; a program that is started begins outside.
LEMMA CallerKeeps ==
    ASSUME PathInv, NEW u \in Users, Connect(u) \/ Caller(u)
    PROVE  PathInv'
<1> USE DEF Pc, CallPc, Goes, Inside, lifeVars, pathVars
<1>1. CASE Connect(u)
    <2>1. PICK t \in {"spawn", "down", "write"} : pc' = [pc EXCEPT ![u] = t]
        BY <1>1 DEF Connect, Connected, Refused
    <2> QED
        BY <1>1, <2>1, MoveKeeps DEF Connect
<1>2. CASE Write(u)
    BY <1>2, MoveKeeps DEF Write
<1>3. CASE GotAnswer(u)
    <2>1. PICK t \in {"down", "return", "spawn"} : Goes(u, "wait", t)
        BY <1>3 DEF GotAnswer
    <2> QED
        BY <1>3, <2>1, MoveKeeps DEF GotAnswer
<1>4. CASE Spawn(u)
    <2>1. PICK t \in {"return", "down"} :
              /\ pc[u] = "spawn"
              /\ \/ pc' = [pc EXCEPT ![u] = t]
                 \/ \E q \in Programs : pc[q] = "down" /\ pc' = [pc EXCEPT ![u] = t, ![q] = "isRunning"]
        BY <1>4 DEF Spawn
    <2>2. held' = held /\ UNCHANGED pathVars
        BY <1>4 DEF Spawn
    <2>3. CASE pc' = [pc EXCEPT ![u] = t]
        BY <2>1, <2>2, <2>3, MoveKeeps
    <2>4. ASSUME NEW q \in Programs, pc[q] = "down",
                 pc' = [pc EXCEPT ![u] = t, ![q] = "isRunning"]
          PROVE  PathInv'
        BY <2>1, <2>2, <2>4
        DEF PathInv, InsideHasLock, LockExcludes, PathIsOurs, Users
    <2> QED
        BY <2>1, <2>3, <2>4
<1> QED
    BY <1>1, <1>2, <1>3, <1>4 DEF Caller

LEMMA PathNext == PathInv /\ [Next]_vars => PathInv'
<1> SUFFICES ASSUME PathInv, [Next]_vars PROVE PathInv'
    OBVIOUS
<1> USE DEF Pc, CallPc, Goes, lifeVars, pathVars, Users
<1>1. ASSUME NEW p \in Programs, Run(p) PROVE PathInv'
    BY <1>1, MoveKeeps DEF Run
<1>2. ASSUME NEW u \in Clients, NEW c \in Asked, Call(u, c) PROVE PathInv'
    <2>1. PICK t \in {pc[u], "connect"} : pc' = [pc EXCEPT ![u] = t] /\ (t = "connect" => pc[u] = "down")
        BY <1>2 DEF Call, PathInv
    <2> QED
        BY <1>2, <2>1, MoveKeeps, UsersAssumption DEF Call, PathInv
<1>3. CASE UNCHANGED vars
    BY <1>3 DEF vars, PathInv, InsideHasLock, LockExcludes, PathIsOurs, Inside
<1> QED
    BY <1>1, <1>2, <1>3, MainKeeps, ServiceKeeps, LoopKeeps, CallerKeeps, EndsKeeps
    DEF Next, Crash

LEMMA PathInit == Init => PathInv
BY DEF Init, PathInv, InsideHasLock, LockExcludes, PathIsOurs, Inside, Pc, Users,
       Lock!Init, Lock!Modes

(***************************************************************************)
(* No program removes or takes over the socket file of a service that      *)
(* takes commands.                                                         *)
(***************************************************************************)
THEOREM ServiceKeepsItsPath == Spec => []ServedAtPath
<1>1. PathInv => ServedAtPath
    BY DEF PathInv, PathIsOurs, ServedAtPath, Looping
<1> QED
    BY <1>1, PathInit, PathNext, PTL DEF Spec

-----------------------------------------------------------------------------
(* What a client is told *)

Texts == {"", "true", "false", "closed", "reset"}
Conns == [from : Users, n : 0..MaxCalls, cmd : Asked \cup {"alive", ""}, accepted : BOOLEAN]

Types ==
    /\ pc \in [Users -> Pc]
    /\ file \in Programs \cup {"none"}
    /\ conns \in [Programs -> SUBSET Conns]
    /\ peer \in [Users -> Programs \cup {"none"}]
    /\ answer \in [Users -> Texts]
    /\ cmd \in [Users -> Asked \cup {"alive", ""}]
    /\ calls \in [Users -> 0..MaxCalls]
    /\ done \in SUBSET (Clients \X (0..MaxCalls))

\* Connections and commands carried out are of calls that have been made.
Made ==
    /\ \A p \in Programs : \A c \in conns[p] : c.n <= calls[c.from]
    /\ \A u \in Clients, n \in 0..MaxCalls : <<u, n>> \in done => n <= calls[u]

\* A call of a client has one connection.
OneEach ==
    \A p, q \in Programs : \A c \in conns[p], d \in conns[q] :
        c.from \in Clients /\ c.from = d.from /\ c.n = d.n => p = q /\ c = d

\* A command that waits to be read has not been carried out.
NotYet ==
    \A p \in Programs : \A c \in conns[p] :
        c.from \in Clients /\ c.cmd # "" => <<c.from, c.n>> \notin done

\* Where a client is in its call.
InOrder ==
    \A u \in Clients :
        /\ pc[u] \in {"connect", "write"} => <<u, calls[u]>> \notin done
        /\ pc[u] = "connect" => \A p \in Programs : \A c \in conns[p] : ~ Mine(u, c)
        /\ pc[u] = "write" => \A p \in Programs : \A c \in conns[p] : Mine(u, c) => c.cmd = ""
        /\ pc[u] \notin {"write", "wait"} => peer[u] = "none"

\* Whoever is still connected is told what was carried out.
Told ==
    \A u \in Clients :
        /\ <<u, calls[u]>> \in done /\ peer[u] # "none" => answer[u] # ""
        /\ peer[u] = "none" => answer[u] = ""

AnswerInv == Types /\ Made /\ OneEach /\ NotYet /\ InOrder /\ Told /\ AnswerIsRight

LEMMA SlotReadyTells ==
    ASSUME AnswerInv, NEW p \in Programs, slotReady(p)
    PROVE  AnswerInv'
<1> PICK c \in Ready(p) :
        /\ done' = Carried(c) /\ AfterCommand(p, c)
        /\ Answered(c, IF Obeys(c.cmd) THEN "true" ELSE "false")
        /\ conns' = [conns EXCEPT ![p] = (@ \ {c}) \cup {[c EXCEPT !.cmd = ""]}]
    BY DEF slotReady
<1> DEFINE d == [c EXCEPT !.cmd = ""]
<1>0. c \in conns[p] /\ c \in Conns /\ c.cmd # ""
    BY DEF Ready, AnswerInv, Types
<1>1. d \in Conns /\ d.from = c.from /\ d.n = c.n /\ d.cmd = ""
    BY <1>0 DEF Conns
<1>2. \A q \in Programs : \A e \in conns'[q] : (e \in conns[q] /\ ~(q = p /\ e = c)) \/ (q = p /\ e = d)
    BY DEF AnswerInv, Types
<1> HIDE DEF d
<1>3. peer' = peer /\ calls' = calls /\ cmd' = cmd /\ file' = file
    BY DEF slotReady, pathVars, callVars
<1>4. \A u \in Clients : pc'[u] = pc[u]
    BY UsersAssumption DEF AfterCommand, Users, AnswerInv, Types
<1>5. /\ done \subseteq done' 
      /\ \A x \in done' : x \in done \/ (c.from \in Clients /\ x = <<c.from, c.n>> /\ Obeys(c.cmd))
      /\ c.from \in Clients /\ Obeys(c.cmd) => <<c.from, c.n>> \in done'
    BY DEF Carried
<1>6. \A u \in Users :
        answer'[u] = IF c.from = u /\ c.n = calls[u] /\ peer[u] # "none" THEN IF Obeys(c.cmd) THEN "true" ELSE "false"
                     ELSE answer[u]
    BY DEF Answered, Mine
<1>7. Types'
    <2>1. pc' \in [Users -> Pc]
        BY DEF AnswerInv, Types, AfterCommand, Pc, ServicePc
    <2>2. conns' \in [Programs -> SUBSET Conns]
        BY <1>0, <1>1 DEF AnswerInv, Types, d
    <2>3. answer' \in [Users -> Texts]
        BY DEF AnswerInv, Types, Answered, Texts
    <2>4. done' \in SUBSET (Clients \X (0..MaxCalls))
        <3>1. c.n \in 0..MaxCalls
            BY <1>0 DEF Conns
        <3>2. c.from \in Clients => <<c.from, c.n>> \in Clients \X (0..MaxCalls)
            BY <3>1
        <3>3. done \in SUBSET (Clients \X (0..MaxCalls))
            BY DEF AnswerInv, Types
        <3> QED
            BY <3>2, <3>3, <1>5
    <2> QED
        BY <1>3, <2>1, <2>2, <2>3, <2>4 DEF AnswerInv, Types
<1>8. Made'
    <2>1. \A q \in Programs : \A e \in conns'[q] : e.n <= calls'[e.from]
        BY <1>0, <1>1, <1>2, <1>3 DEF AnswerInv, Made
    <2>2. ASSUME NEW u \in Clients, NEW n \in 0..MaxCalls, <<u, n>> \in done' PROVE n <= calls'[u]
        <3>1. <<u, n>> \in done \/ (u = c.from /\ n = c.n)
            BY <2>2, <1>5
        <3> QED
            BY <3>1, <1>0, <1>3 DEF AnswerInv, Made
    <2> QED
        BY <2>1, <2>2 DEF Made
<1>9. OneEach'
    <2> SUFFICES ASSUME NEW q \in Programs, NEW r \in Programs, NEW e \in conns'[q], NEW f \in conns'[r],
                        e.from \in Clients, e.from = f.from, e.n = f.n
                 PROVE  q = r /\ e = f
        BY ZenonT(30) DEF OneEach
    <2>1. PICK a \in conns[q] : a.from = e.from /\ a.n = e.n /\ (a = e \/ (q = p /\ a = c /\ e = d))
                               /\ (a = e => ~(q = p /\ e = c))
        BY <1>0, <1>1, <1>2
    <2>2. PICK b \in conns[r] : b.from = f.from /\ b.n = f.n /\ (b = f \/ (r = p /\ b = c /\ f = d))
                               /\ (b = f => ~(r = p /\ f = c))
        BY <1>0, <1>1, <1>2
    <2>3. q = r /\ a = b
        BY <2>1, <2>2 DEF AnswerInv, OneEach
    <2> QED
        BY <2>1, <2>2, <2>3
<1>10. NotYet'
    BY <1>0, <1>1, <1>2, <1>5 DEF AnswerInv, NotYet, OneEach
<1>11. InOrder'
    <2> SUFFICES ASSUME NEW u \in Clients
                 PROVE  /\ pc[u] \in {"connect", "write"} => <<u, calls[u]>> \notin done'
                        /\ pc[u] = "connect" => \A q \in Programs : \A e \in conns'[q] : ~ (e.from = u /\ e.n = calls[u])
                        /\ pc[u] = "write" => \A q \in Programs : \A e \in conns'[q] : e.from = u /\ e.n = calls[u] => e.cmd = ""
                        /\ pc[u] \notin {"write", "wait"} => peer[u] = "none"
        BY <1>3, <1>4, ZenonT(30) DEF InOrder, Mine
    <2>1. pc[u] \in {"connect", "write"} => ~ (c.from = u /\ c.n = calls[u])
        BY <1>0 DEF AnswerInv, InOrder, Mine
    <2>2. pc[u] \in {"connect", "write"} => <<u, calls[u]>> \notin done'
        BY <2>1, <1>5 DEF AnswerInv, InOrder
    <2>3. ASSUME NEW q \in Programs, NEW e \in conns'[q], e.from = u, e.n = calls[u], pc[u] \in {"connect", "write"}
          PROVE  pc[u] = "write" /\ e.cmd = ""
        <3>1. e \in conns[q]
            BY <2>1, <2>3, <1>1, <1>2
        <3> QED
            BY <3>1, <2>3 DEF AnswerInv, InOrder, Mine
    <2> QED
        BY <2>2, <2>3 DEF AnswerInv, InOrder
<1>12. Told'
    BY <1>0, <1>1, <1>3, <1>5, <1>6, UsersAssumption DEF AnswerInv, Told, Users
<1>13. AnswerIsRight'
    BY <1>0, <1>1, <1>3, <1>5, <1>6 DEF AnswerInv, AnswerIsRight, NotYet, Told, Users
<1> QED
    BY <1>7, <1>8, <1>9, <1>10, <1>11, <1>12, <1>13 DEF AnswerInv

\* A step that opens no connection, writes and carries out nothing: a client
\* goes on with what it has, is told that the connection is gone, or ends.
LEMMA Quiet ==
    ASSUME AnswerInv, Types', done' = done, calls' = calls,
           \A q \in Programs : conns'[q] \subseteq conns[q],
           \A u \in Clients :
               /\ pc'[u] \in {"connect", "write"} => pc'[u] = pc[u]
               /\ pc'[u] \notin {"write", "wait"} => peer'[u] = "none"
               /\ \/ /\ peer'[u] = peer[u]
                     /\ \/ answer'[u] = answer[u]
                        \/ peer[u] # "none" /\ answer[u] = "" /\ answer'[u] \in {"closed", "reset"}
                  \/ peer'[u] = "none" /\ answer'[u] = ""
    PROVE  AnswerInv'
<1>1. Made'
    BY DEF AnswerInv, Made
<1>2. OneEach'
    BY DEF AnswerInv, OneEach
<1>3. NotYet'
    BY DEF AnswerInv, NotYet
<1>4. InOrder'
    <2> SUFFICES ASSUME NEW u \in Clients
                 PROVE  /\ pc'[u] \in {"connect", "write"} => <<u, calls[u]>> \notin done
                        /\ pc'[u] = "connect" => \A q \in Programs : \A c \in conns'[q] : ~ Mine(u, c)
                        /\ pc'[u] = "write" => \A q \in Programs : \A c \in conns'[q] : Mine(u, c) => c.cmd = ""
                        /\ pc'[u] \notin {"write", "wait"} => peer'[u] = "none"
        BY DEF InOrder, Mine
    <2> QED
        BY DEF AnswerInv, InOrder
<1>5. Told'
    BY DEF AnswerInv, Told
<1>6. AnswerIsRight'
    BY DEF AnswerInv, AnswerIsRight, Told
<1> QED
    BY <1>1, <1>2, <1>3, <1>4, <1>5, <1>6 DEF AnswerInv

LEMMA incomingConnectionTells ==
    ASSUME AnswerInv, NEW p \in Programs, incomingConnection(p)
    PROVE  AnswerInv'
<1> PICK c \in Waiting(p) :
        conns' = [conns EXCEPT ![p] = (@ \ {c}) \cup {[c EXCEPT !.accepted = TRUE]}]
    BY DEF incomingConnection
<1> DEFINE d == [c EXCEPT !.accepted = TRUE]
<1>0. c \in conns[p] /\ c \in Conns
    BY DEF Waiting, AnswerInv, Types
<1>1. d \in Conns /\ d.from = c.from /\ d.n = c.n /\ d.cmd = c.cmd
    BY <1>0 DEF Conns
<1>2. \A q \in Programs : \A e \in conns'[q] : (e \in conns[q] /\ ~(q = p /\ e = c)) \/ (q = p /\ e = d)
    BY DEF AnswerInv, Types
<1> HIDE DEF d
<1>3. UNCHANGED <<pc, file, peer, answer, cmd, calls, done>>
    BY DEF incomingConnection, pathVars, callVars
<1>4. Types'
    <2>1. conns' \in [Programs -> SUBSET Conns]
        BY <1>0, <1>1 DEF AnswerInv, Types, d
    <2> QED
        BY <2>1, <1>3 DEF AnswerInv, Types
<1>5. Made'
    BY <1>0, <1>1, <1>2, <1>3 DEF AnswerInv, Made
<1>6. OneEach'
    <2> SUFFICES ASSUME NEW q \in Programs, NEW r \in Programs, NEW e \in conns'[q], NEW f \in conns'[r],
                        e.from \in Clients, e.from = f.from, e.n = f.n
                 PROVE  q = r /\ e = f
        BY DEF OneEach
    <2>1. CASE e = d /\ q = p /\ f \in conns[r] /\ ~ (r = p /\ f = c)
        BY <2>1, <1>0, <1>1 DEF AnswerInv, OneEach
    <2>2. CASE f = d /\ r = p /\ e \in conns[q] /\ ~ (q = p /\ e = c)
        BY <2>2, <1>0, <1>1 DEF AnswerInv, OneEach
    <2>3. CASE e \in conns[q] /\ f \in conns[r]
        BY <2>3 DEF AnswerInv, OneEach
    <2> QED
        BY <2>1, <2>2, <2>3, <1>2
<1>7. NotYet'
    BY <1>0, <1>1, <1>2, <1>3 DEF AnswerInv, NotYet
<1>8. InOrder'
    <2>1. ASSUME NEW u \in Clients, NEW q \in Programs, NEW e \in conns'[q],
                 pc[u] \in {"connect", "write"}, Mine(u, e)
          PROVE  pc[u] = "write" /\ e.cmd = ""
        <3>1. PICK b \in conns[q] : b.from = e.from /\ b.n = e.n /\ b.cmd = e.cmd
            <4>1. CASE e \in conns[q]
                BY <4>1
            <4>2. CASE q = p /\ e = d
                BY <4>2, <1>0, <1>1
            <4> QED
                BY <4>1, <4>2, <1>2
        <3>2. Mine(u, b)
            BY <3>1, <2>1 DEF Mine
        <3> QED
            BY <3>1, <3>2, <2>1 DEF AnswerInv, InOrder
    <2> SUFFICES ASSUME NEW u \in Clients
                 PROVE  /\ pc[u] \in {"connect", "write"} => <<u, calls[u]>> \notin done
                        /\ pc[u] = "connect" => \A q \in Programs : \A e \in conns'[q] : ~ Mine(u, e)
                        /\ pc[u] = "write" => \A q \in Programs : \A e \in conns'[q] : Mine(u, e) => e.cmd = ""
                        /\ pc[u] \notin {"write", "wait"} => peer[u] = "none"
        BY <1>3, ZenonT(30) DEF InOrder, Mine
    <2> QED
        BY <2>1 DEF AnswerInv, InOrder
<1>9. Told' /\ AnswerIsRight'
    BY <1>3 DEF AnswerInv, Told, AnswerIsRight
<1> QED
    BY <1>4, <1>5, <1>6, <1>7, <1>8, <1>9 DEF AnswerInv

LEMMA WriteTells ==
    ASSUME AnswerInv, NEW u \in Users, Write(u)
    PROVE  AnswerInv'
<1> DEFINE W(c) == [c EXCEPT !.cmd = IF Mine(u, c) THEN cmd[u] ELSE @]
<1>1. \A q \in Programs : conns'[q] = {W(c) : c \in conns[q]}
    BY DEF Write
<1>2. \A c \in Conns :
        /\ W(c) \in Conns /\ W(c).from = c.from /\ W(c).n = c.n
        /\ ~ Mine(u, c) => W(c) = c
    BY DEF AnswerInv, Types, Conns
<1>3. \A q \in Programs : conns[q] \subseteq Conns
    BY DEF AnswerInv, Types
<1>4. UNCHANGED <<file, peer, answer, cmd, calls, done>> /\ pc[u] = "write" /\ pc' = [pc EXCEPT ![u] = "wait"]
    BY DEF Write, Goes, pathVars, callVars
<1> HIDE DEF W
<1>5. \A q \in Programs : \A e \in conns'[q] : \E c \in conns[q] : e = W(c)
    BY <1>1
<1>6. Types'
    <2>1. conns' \in [Programs -> SUBSET Conns]
        <3>1. conns' = [q \in Programs |-> {W(c) : c \in conns[q]}]
            BY DEF Write, W
        <3> QED
            BY <3>1, <1>2, <1>3
    <2>2. pc' \in [Users -> Pc]
        BY <1>4 DEF AnswerInv, Types, Pc, CallPc
    <2> QED
        BY <2>1, <2>2, <1>4 DEF AnswerInv, Types
<1>7. Made'
    BY <1>2, <1>3, <1>4, <1>5 DEF AnswerInv, Made
<1>8. OneEach'
    BY <1>2, <1>3, <1>5 DEF AnswerInv, OneEach
<1>9. NotYet'
    <2> SUFFICES ASSUME NEW q \in Programs, NEW e \in conns'[q], e.from \in Clients, e.cmd # ""
                 PROVE  <<e.from, e.n>> \notin done
        BY <1>4 DEF NotYet
    <2>1. PICK c \in conns[q] : e = W(c)
        BY <1>5
    <2>2. CASE Mine(u, c)
        <3>1. e.from = u /\ e.n = calls[u]
            BY <2>1, <2>2, <1>2, <1>3 DEF Mine
        <3> QED
            BY <3>1, <1>4 DEF AnswerInv, InOrder
    <2>3. CASE ~ Mine(u, c)
        BY <2>1, <2>3, <1>2, <1>3 DEF AnswerInv, NotYet
    <2> QED
        BY <2>2, <2>3
<1>10. InOrder'
    <2> SUFFICES ASSUME NEW v \in Clients
                 PROVE  /\ pc'[v] \in {"connect", "write"} => <<v, calls[v]>> \notin done
                        /\ pc'[v] = "connect" => \A q \in Programs : \A e \in conns'[q] : ~ (e.from = v /\ e.n = calls[v])
                        /\ pc'[v] = "write" => \A q \in Programs : \A e \in conns'[q] : e.from = v /\ e.n = calls[v] => e.cmd = ""
                        /\ pc'[v] \notin {"write", "wait"} => peer[v] = "none"
        BY <1>4 DEF InOrder, Mine
    <2>1. pc'[v] = IF v = u THEN "wait" ELSE pc[v]
        BY <1>4 DEF AnswerInv, Types, Users
    <2>2. CASE v = u
        BY <2>1, <2>2
    <2>3. CASE v # u
        <3>1. ASSUME NEW q \in Programs, NEW e \in conns'[q], e.from = v
              PROVE  e \in conns[q]
            BY <3>1, <2>3, <1>2, <1>3, <1>5 DEF Mine
        <3> QED
            BY <3>1, <2>1, <2>3, ZenonT(30) DEF AnswerInv, InOrder, Mine
    <2> QED
        BY <2>2, <2>3
<1>11. Told' /\ AnswerIsRight'
    BY <1>4 DEF AnswerInv, Told, AnswerIsRight
<1> QED
    BY <1>6, <1>7, <1>8, <1>9, <1>10, <1>11 DEF AnswerInv

LEMMA ConnectTells ==
    ASSUME AnswerInv, NEW u \in Users, Connect(u)
    PROVE  AnswerInv'
<1> USE DEF pathVars, sockVars, callVars
<1>1. CASE Refused(u) \/ (cmd[u] = "start" /\ Connected(u))
    <2>1. UNCHANGED <<file, conns, peer, answer, cmd, calls, done>>
        BY <1>1 DEF Refused, Connected, Connect
    <2>2. PICK t \in {"spawn", "down"} : pc' = [pc EXCEPT ![u] = t]
        BY <1>1 DEF Refused, Connected
    <2>3. Types'
        BY <2>1, <2>2 DEF AnswerInv, Types, Pc, CallPc
    <2>4. \A v \in Clients : pc'[v] = IF v = u THEN t ELSE pc[v]
        BY <2>2 DEF AnswerInv, Types, Users
    <2>5. u \in Clients => peer[u] = "none"
        BY DEF Connect, AnswerInv, InOrder
    <2>6. ASSUME NEW v \in Clients
          PROVE  /\ pc'[v] \in {"connect", "write"} => pc'[v] = pc[v]
                 /\ pc'[v] \notin {"write", "wait"} => peer'[v] = "none"
        BY <2>1, <2>4, <2>5 DEF AnswerInv, InOrder
    <2> QED
        BY <2>1, <2>3, <2>6, Quiet
<1>2. CASE file # "none" /\ Connected(u) /\ cmd[u] # "start"
    <2> DEFINE r == [from |-> u, n |-> calls[u], cmd |-> "", accepted |-> FALSE]
    <2>0. /\ pc[u] = "connect" /\ pc' = [pc EXCEPT ![u] = "write"]
          /\ peer' = [peer EXCEPT ![u] = file]
          /\ conns' = [conns EXCEPT ![file] = @ \cup {r}]
          /\ UNCHANGED <<file, answer, cmd, calls, done>>
        BY <1>2 DEF Connected, Connect
    <2>1. file \in Programs
        BY <1>2 DEF AnswerInv, Types
    <2>2. r \in Conns /\ r.from = u /\ r.n = calls[u] /\ r.cmd = ""
        BY DEF AnswerInv, Types, Conns
    <2>3. \A q \in Programs : \A e \in conns'[q] : e \in conns[q] \/ (q = file /\ e = r)
        BY <2>0, <2>1 DEF AnswerInv, Types
    <2> HIDE DEF r
    <2>4. u \in Clients => \A q \in Programs : \A e \in conns[q] : ~ (e.from = u /\ e.n = calls[u])
        BY <2>0 DEF AnswerInv, InOrder, Mine
    <2>5. Types'
        <3>1. pc' \in [Users -> Pc]
            BY <2>0 DEF AnswerInv, Types, Pc, CallPc
        <3>2. conns' \in [Programs -> SUBSET Conns]
            BY <2>0, <2>1, <2>2 DEF AnswerInv, Types
        <3> QED
            BY <2>0, <2>1, <3>1, <3>2 DEF AnswerInv, Types
    <2>6. Made'
        <3>1. ASSUME NEW q \in Programs, NEW e \in conns'[q] PROVE e.n <= calls[e.from]
            <4>1. CASE e \in conns[q]
                BY <4>1 DEF AnswerInv, Made
            <4>2. CASE e = r
                <5>1. calls[u] \in 0..MaxCalls
                    BY DEF AnswerInv, Types
                <5>2. calls[u] <= calls[u]
                    BY <5>1, BoundsAssumption
                <5> QED
                    BY <4>2, <5>2, <2>2
            <4> QED
                BY <4>1, <4>2, <2>3
        <3> QED
            BY <3>1, <2>0 DEF AnswerInv, Made
    <2>7. OneEach'
        <3> SUFFICES ASSUME NEW q \in Programs, NEW q2 \in Programs, NEW e \in conns'[q], NEW f \in conns'[q2],
                            e.from \in Clients, e.from = f.from, e.n = f.n
                     PROVE  q = q2 /\ e = f
            BY DEF OneEach
        <3>1. CASE e \in conns[q] /\ f \in conns[q2]
            BY <3>1 DEF AnswerInv, OneEach
        <3>2. CASE e = r /\ f \in conns[q2]
            BY <3>2, <2>2, <2>4
        <3>3. CASE f = r /\ e \in conns[q]
            BY <3>3, <2>2, <2>4
        <3> QED
            BY <3>1, <3>2, <3>3, <2>3
    <2>8. NotYet'
        BY <2>0, <2>2, <2>3 DEF AnswerInv, NotYet
    <2>9. \A v \in Clients : /\ pc'[v] = IF v = u THEN "write" ELSE pc[v]
                             /\ peer'[v] = IF v = u THEN file ELSE peer[v]
        BY <2>0 DEF AnswerInv, Types, Users
    <2>10. InOrder'
        <3> SUFFICES ASSUME NEW v \in Clients
                     PROVE  /\ pc'[v] \in {"connect", "write"} => <<v, calls[v]>> \notin done
                            /\ pc'[v] = "connect" => \A q \in Programs : \A e \in conns'[q] : ~ Mine(v, e)
                            /\ pc'[v] = "write" => \A q \in Programs : \A e \in conns'[q] : Mine(v, e) => e.cmd = ""
                            /\ pc'[v] \notin {"write", "wait"} => peer'[v] = "none"
            BY <2>0, ZenonT(60) DEF InOrder, Mine
        <3>1. CASE v = u
            <4>1. <<v, calls[v]>> \notin done
                BY <3>1, <2>0 DEF AnswerInv, InOrder
            <4> QED
                BY <3>1, <4>1, <2>2, <2>3, <2>4, <2>9 DEF Mine
        <3>2. CASE v # u
            <4>1. \A q \in Programs : \A e \in conns'[q] : Mine(v, e) => e \in conns[q]
                BY <3>2, <2>2, <2>3 DEF Mine
            <4> QED
                BY <3>2, <4>1, <2>9 DEF AnswerInv, InOrder
        <3> QED
            BY <3>1, <3>2
    <2>11. Told' /\ AnswerIsRight'
        <3>1. u \in Clients => <<u, calls[u]>> \notin done
            BY <2>0 DEF AnswerInv, InOrder
        <3> QED
            BY <3>1, <2>0, <2>1, <2>9, UsersAssumption DEF AnswerInv, Told, AnswerIsRight, Users
    <2> QED
        BY <2>5, <2>6, <2>7, <2>8, <2>10, <2>11 DEF AnswerInv
<1> QED
    BY <1>1, <1>2 DEF Connect

LEMMA CallTells ==
    ASSUME AnswerInv, NEW u \in Clients, NEW c \in Asked, Call(u, c)
    PROVE  AnswerInv'
<1>1. /\ pc[u] = "down" /\ calls[u] < MaxCalls /\ calls' = [calls EXCEPT ![u] = @ + 1]
      /\ UNCHANGED <<file, conns, peer, answer, done>>
    BY DEF Call, Goes, pathVars, sockVars
<1>2. PICK t \in {"down", "connect"} : pc' = [pc EXCEPT ![u] = t] /\ cmd' \in {cmd, [cmd EXCEPT ![u] = c]}
    BY <1>1, ZenonT(30) DEF Call, Goes, AnswerInv, Types
<1>3. /\ \A v \in Users : calls[v] \in Nat /\ calls[v] <= MaxCalls
      /\ \A v \in Users : calls'[v] = IF v = u THEN calls[u] + 1 ELSE calls[v]
      /\ \A v \in Clients : pc'[v] = IF v = u THEN t ELSE pc[v]
      /\ u \in Users
    <2>1. \A v \in Users : calls[v] \in 0..MaxCalls
        BY DEF AnswerInv, Types
    <2>2. calls \in [Users -> 0..MaxCalls] /\ pc \in [Users -> Pc] /\ Clients \subseteq Users
        BY DEF AnswerInv, Types, Users
    <2> QED
        BY <1>1, <1>2, <2>1, <2>2, BoundsAssumption
<1>4. \A n \in 0..MaxCalls : <<u, n>> \in done => n <= calls[u]
    BY DEF AnswerInv, Made
<1>5. calls'[u] \in 0..MaxCalls /\ <<u, calls'[u]>> \notin done
    BY <1>1, <1>3, <1>4, BoundsAssumption, calls[u] + 1 > calls[u]
<1>6. Types'
    BY <1>1, <1>2, <1>5 DEF AnswerInv, Types, Pc, CallPc
<1>7. ASSUME NEW q \in Programs, NEW e \in conns[q]
      PROVE  e.from \in Users /\ e.n \in Nat /\ e.n <= calls[e.from] /\ ~ (e.from = u /\ e.n = calls'[u])
    <2>1. e.from \in Users /\ e.n \in Nat /\ e.n <= calls[e.from]
        <3>1. e \in Conns /\ e.n <= calls[e.from]
            BY DEF AnswerInv, Types, Made
        <3>2. e.from \in Users /\ e.n \in 0..MaxCalls
            BY <3>1 DEF Conns
        <3> QED
            BY <3>1, <3>2, BoundsAssumption
    <2> QED
        BY <2>1, <1>3
<1>8. Made'
    <2>1. ASSUME NEW q \in Programs, NEW e \in conns[q] PROVE e.n <= calls'[e.from]
        BY <1>3, <1>7
    <2>2. ASSUME NEW v \in Clients, NEW n \in 0..MaxCalls, <<v, n>> \in done PROVE n <= calls'[v]
        BY <2>2, <1>3 DEF AnswerInv, Made, Users
    <2> QED
        BY <1>1, <2>1, <2>2 DEF Made
<1>9. OneEach' /\ NotYet'
    BY <1>1 DEF AnswerInv, OneEach, NotYet
<1>10. peer[u] = "none" /\ answer[u] = ""
    BY <1>1 DEF AnswerInv, InOrder, Told
<1>11. InOrder'
    <2> SUFFICES ASSUME NEW v \in Clients
                 PROVE  /\ pc'[v] \in {"connect", "write"} => <<v, calls'[v]>> \notin done
                        /\ pc'[v] = "connect" => \A q \in Programs : \A e \in conns[q] : ~ (e.from = v /\ e.n = calls'[v])
                        /\ pc'[v] = "write" => \A q \in Programs : \A e \in conns[q] : e.from = v /\ e.n = calls'[v] => e.cmd = ""
                        /\ pc'[v] \notin {"write", "wait"} => peer[v] = "none"
        BY <1>1 DEF InOrder, Mine
    <2>1. CASE v = u
        BY <2>1, <1>3, <1>5, <1>7, <1>10
    <2>2. CASE v # u
        <3>1. calls'[v] = calls[v] /\ pc'[v] = pc[v]
            BY <2>2, <1>3 DEF Users
        <3> QED
            BY <3>1 DEF AnswerInv, InOrder, Mine
    <2> QED
        BY <2>1, <2>2
<1>12. Told' /\ AnswerIsRight'
    <2>1. \A v \in Clients \ {u} : calls'[v] = calls[v]
        BY <1>3 DEF Users
    <2>2. ASSUME NEW v \in Clients \ {u}
          PROVE  /\ <<v, calls'[v]>> \in done' /\ peer'[v] # "none" => answer'[v] # ""
                 /\ peer'[v] = "none" => answer'[v] = ""
                 /\ answer'[v] = "true" => <<v, calls'[v]>> \in done'
                 /\ answer'[v] \in {"false", "closed"} => <<v, calls'[v]>> \notin done'
        <3>1. calls'[v] = calls[v] /\ v \in Clients
            BY <2>1
        <3>2. /\ <<v, calls[v]>> \in done /\ peer[v] # "none" => answer[v] # ""
              /\ peer[v] = "none" => answer[v] = ""
              /\ answer[v] = "true" => <<v, calls[v]>> \in done
              /\ answer[v] \in {"false", "closed"} => <<v, calls[v]>> \notin done
            BY <3>1 DEF AnswerInv, Told, AnswerIsRight
        <3>3. peer' = peer /\ answer' = answer /\ done' = done
            BY <1>1
        <3> HIDE DEF AnswerInv
        <3> QED
            BY <3>1, <3>2, <3>3
    <2>3. peer'[u] = "none" /\ answer'[u] = ""
        BY <1>1, <1>10
    <2>4. Told'
        BY <2>2, <2>3 DEF Told
    <2>5. ASSUME NEW v \in Clients
          PROVE  /\ answer'[v] = "true" => <<v, calls'[v]>> \in done'
                 /\ answer'[v] \in {"false", "closed"} => <<v, calls'[v]>> \notin done'
        BY <2>2, <2>3
    <2> QED
        BY <2>4, <2>5 DEF AnswerIsRight
<1> QED
    BY <1>6, <1>8, <1>9, <1>11, <1>12 DEF AnswerInv

\* The end of a process, and of a connection.
LEMMA EndsTells ==
    ASSUME AnswerInv, NEW u \in Users, Ends(u)
    PROVE  AnswerInv'
<1>1. UNCHANGED <<file, calls, done>>
    BY DEF Ends
<1>2. \A p \in Programs : conns'[p] \subseteq conns[p]
    BY DEF Ends
<1>3. \A v \in Users : /\ pc'[v] = IF v = u THEN "down" ELSE pc[v]
                       /\ peer'[v] = IF v = u THEN "none" ELSE peer[v]
                       /\ answer'[v] = IF v = u THEN "" ELSE
                             IF peer[v] = u /\ answer[v] = "" THEN "reset" ELSE answer[v]
    BY DEF Ends, AnswerInv, Types
<1>4. Types'
    <2>1. pc' \in [Users -> Pc] /\ cmd' \in [Users -> Asked \cup {"alive", ""}]
        BY DEF Ends, AnswerInv, Types, Pc
    <2>2. conns' \in [Programs -> SUBSET Conns]
        BY DEF Ends, AnswerInv, Types
    <2>3. peer' \in [Users -> Programs \cup {"none"}] /\ answer' \in [Users -> Texts]
        BY DEF Ends, AnswerInv, Types, Texts
    <2> QED
        BY <1>1, <2>1, <2>2, <2>3 DEF AnswerInv, Types
<1>5. ASSUME NEW v \in Clients
      PROVE  /\ pc'[v] \in {"connect", "write"} => pc'[v] = pc[v]
             /\ pc'[v] \notin {"write", "wait"} => peer'[v] = "none"
             /\ \/ /\ peer'[v] = peer[v]
                   /\ \/ answer'[v] = answer[v]
                      \/ peer[v] # "none" /\ answer[v] = "" /\ answer'[v] \in {"closed", "reset"}
                \/ peer'[v] = "none" /\ answer'[v] = ""
    <2>1. CASE v = u
        BY <2>1, <1>3
    <2>2. CASE v # u
        <3>1. pc'[v] = pc[v] /\ peer'[v] = peer[v]
            BY <2>2, <1>3 DEF Users
        <3>2. u # "none"
            BY UsersAssumption
        <3> QED
            BY <2>2, <3>1, <3>2, <1>3 DEF AnswerInv, InOrder, Users
    <2> QED
        BY <2>1, <2>2
<1> QED
    BY <1>1, <1>2, <1>4, <1>5, Quiet

\* A step of a program that leaves the connections alone.
LEMMA ProgramTells ==
    ASSUME AnswerInv, NEW p \in Programs, NEW t \in Pc, pc' = [pc EXCEPT ![p] = t],
           file' \in Programs \cup {"none"}, UNCHANGED <<sockVars, calls>>,
           cmd' \in [Users -> Asked \cup {"alive", ""}]
    PROVE  AnswerInv'
<1>1. Types'
    BY DEF AnswerInv, Types, sockVars
<1>2. \A v \in Clients : pc'[v] = pc[v]
    BY UsersAssumption DEF AnswerInv, Types, Users
<1>3. UNCHANGED <<conns, peer, answer, done, calls>>
    BY DEF sockVars
<1>4. \A v \in Clients : pc[v] \notin {"write", "wait"} => peer[v] = "none"
    BY DEF AnswerInv, InOrder
<1> QED
    BY <1>1, <1>2, <1>3, <1>4, Quiet

\* A server that closes connections of its own.
LEMMA ClosingTells ==
    ASSUME AnswerInv, NEW p \in Programs, NEW t \in Pc, NEW cs \in SUBSET conns[p],
           pc' = [pc EXCEPT ![p] = t], Disconnected(cs, p, "closed"),
           conns' = [conns EXCEPT ![p] = @ \ cs],
           file' \in Programs \cup {"none"}, UNCHANGED <<peer, done, callVars>>
    PROVE  AnswerInv'
<1>1. UNCHANGED <<peer, done, cmd, calls>>
    BY DEF callVars
<1>2. Types'
    BY <1>1 DEF AnswerInv, Types, Disconnected, Texts
<1>3. \A v \in Clients : pc'[v] = pc[v]
    BY UsersAssumption DEF AnswerInv, Types, Users
<1>4. \A v \in Clients : pc[v] \notin {"write", "wait"} => peer[v] = "none"
    BY DEF AnswerInv, InOrder
<1>5. \A v \in Clients :
        answer'[v] = answer[v] \/ (peer[v] # "none" /\ answer[v] = "" /\ answer'[v] = "closed")
    BY UsersAssumption DEF Disconnected, Users
<1>6. \A q \in Programs : conns'[q] \subseteq conns[q]
    BY DEF AnswerInv, Types
<1> QED
    BY <1>1, <1>2, <1>3, <1>4, <1>5, <1>6, Quiet

LEMMA ServiceTells ==
    ASSUME AnswerInv, NEW p \in Programs, Service(p)
    PROVE  AnswerInv'
<1> USE DEF Pc, ServicePc, Goes, pathVars, callVars, lifeVars
<1>0. file \in Programs \cup {"none"} /\ cmd \in [Users -> Asked \cup {"alive", ""}]
    BY DEF AnswerInv, Types
<1>1. CASE Unlink(p)
    BY <1>0, <1>1, ProgramTells DEF Unlink
<1>2. CASE Bind(p)
    BY <1>0, <1>2, ProgramTells DEF Bind
<1>3. CASE executeApplication(p)
    BY <1>0, <1>3, ProgramTells DEF executeApplication
<1>4. CASE LoopEnds(p)
    BY <1>0, <1>4, ProgramTells DEF LoopEnds
<1>5. CASE Close(p)
    <2>1. Waiting(p) \in SUBSET conns[p]
        BY DEF Waiting
    <2> QED
        BY <1>0, <1>5, <2>1, ClosingTells DEF Close
<1>6. CASE sysCleanup(p)
    <2>1. conns' = [conns EXCEPT ![p] = @ \ conns[p]]
        BY <1>6 DEF sysCleanup
    <2>2. file' \in Programs \cup {"none"}
        BY <1>0, <1>6 DEF sysCleanup
    <2> QED
        BY <1>6, <2>1, <2>2, ClosingTells DEF sysCleanup
<1> QED
    BY <1>1, <1>2, <1>3, <1>4, <1>5, <1>6 DEF Service

LEMMA MainTells ==
    ASSUME AnswerInv, NEW p \in Programs, Main(p) \/ Run(p) \/ Quits(p)
    PROVE  AnswerInv'
<1> USE DEF Pc, ServicePc, CallPc, Goes, pathVars, callVars, lifeVars
<1>0. /\ file \in Programs \cup {"none"} /\ cmd \in [Users -> Asked \cup {"alive", ""}]
      /\ p \in Users
    BY DEF AnswerInv, Types, Users
<1>1. CASE Ends(p)
    BY <1>0, <1>1, EndsTells
<1>2. CASE pc' = [pc EXCEPT ![p] = "exec"] /\ UNCHANGED <<pathVars, sockVars, callVars>>
    BY <1>0, <1>2, ProgramTells
<1>3. CASE exec(p)
    <2>1. PICK t \in {"unlink", "connect", "return", "app"} : pc' = [pc EXCEPT ![p] = t]
        BY <1>3 DEF exec
    <2>2. cmd' \in [Users -> Asked \cup {"alive", ""}]
        BY <1>0, <1>3 DEF exec
    <2>3. UNCHANGED <<sockVars, calls>> /\ file' = file
        BY <1>3 DEF exec
    <2> QED
        BY <1>0, <2>1, <2>2, <2>3, ProgramTells
<1>4. CASE Run(p)
    BY <1>0, <1>4, ProgramTells DEF Run
<1>5. CASE Quits(p)
    <2>1. PICK t \in {"quit", "return"} : pc' = [pc EXCEPT ![p] = t]
        BY <1>5 DEF Quits
    <2> QED
        BY <1>0, <1>5, <2>1, ProgramTells DEF Quits
<1> QED
    BY <1>1, <1>2, <1>3, <1>4, <1>5 DEF Main, isRunning, Return

LEMMA CallerTells ==
    ASSUME AnswerInv, NEW u \in Users, Caller(u)
    PROVE  AnswerInv'
<1>1. CASE GotAnswer(u)
    <2>1. PICK t \in {"down", "return", "spawn"} : pc' = [pc EXCEPT ![u] = t]
        BY <1>1 DEF GotAnswer, Goes
    <2>2. /\ peer' = [peer EXCEPT ![u] = "none"] /\ answer' = [answer EXCEPT ![u] = ""]
          /\ conns' = Without(u) /\ UNCHANGED <<file, done, cmd, calls>>
        BY <1>1 DEF GotAnswer, Hangup, pathVars, callVars
    <2>3. Types'
        BY <2>1, <2>2 DEF AnswerInv, Types, Without, Texts, Pc, CallPc
    <2>4. \A q \in Programs : conns'[q] \subseteq conns[q]
        BY <2>2 DEF Without
    <2>5. \A v \in Clients : /\ pc'[v] = IF v = u THEN t ELSE pc[v]
                             /\ peer'[v] = IF v = u THEN "none" ELSE peer[v]
                             /\ answer'[v] = IF v = u THEN "" ELSE answer[v]
        BY <2>1, <2>2 DEF AnswerInv, Types, Users
    <2>6. \A v \in Clients : pc[v] \notin {"write", "wait"} => peer[v] = "none"
        BY DEF AnswerInv, InOrder
    <2> QED
        BY <2>2, <2>3, <2>4, <2>5, <2>6, Quiet
<1>2. CASE Spawn(u)
    <2>1. UNCHANGED <<file, conns, peer, answer, done, cmd, calls>>
        BY <1>2 DEF Spawn, pathVars, sockVars, callVars
    <2>2. pc[u] = "spawn"
        BY <1>2 DEF Spawn, Goes
    <2>3. PICK t \in {"return", "down"} :
              \/ pc' = [pc EXCEPT ![u] = t]
              \/ \E q \in Programs : pc' = [pc EXCEPT ![u] = t, ![q] = "isRunning"]
        BY <1>2 DEF Spawn, Goes
    <2>4. pc' \in [Users -> Pc]
        BY <2>3 DEF AnswerInv, Types, Pc, Users
    <2>5. \A v \in Clients : pc'[v] = IF v = u THEN t ELSE pc[v]
        BY <2>3, UsersAssumption DEF AnswerInv, Types, Users
    <2>6. Types'
        BY <2>1, <2>4 DEF AnswerInv, Types
    <2>7. \A v \in Clients : pc[v] \notin {"write", "wait"} => peer[v] = "none"
        BY DEF AnswerInv, InOrder
    <2> QED
        BY <2>1, <2>2, <2>5, <2>6, <2>7, Quiet
<1> QED
    BY <1>1, <1>2, WriteTells DEF Caller

LEMMA AnswerNext == AnswerInv /\ [Next]_vars => AnswerInv'
<1> SUFFICES ASSUME AnswerInv, [Next]_vars PROVE AnswerInv'
    OBVIOUS
<1>1. CASE UNCHANGED vars
    <2>1. UNCHANGED <<pc, file, conns, peer, answer, cmd, calls, done>>
        BY <1>1 DEF vars, lifeVars, pathVars, sockVars, callVars
    <2> QED
        BY <2>1, ZenonT(60) DEF AnswerInv, Types, Made, OneEach, NotYet, InOrder, Told, AnswerIsRight, Mine
<1>2. ASSUME NEW p \in Programs, Run(p) \/ Main(p) \/ Service(p) \/ Quits(p) PROVE AnswerInv'
    BY <1>2, MainTells, ServiceTells
<1>3. ASSUME NEW p \in Programs, incomingConnection(p) \/ slotReady(p) PROVE AnswerInv'
    BY <1>3, incomingConnectionTells, SlotReadyTells
<1>4. ASSUME NEW u \in Users, Connect(u) \/ Caller(u) \/ Crash(u) PROVE AnswerInv'
    BY <1>4, ConnectTells, CallerTells, EndsTells DEF Crash
<1>5. ASSUME NEW u \in Clients, NEW c \in Asked, Call(u, c) PROVE AnswerInv'
    BY <1>5, CallTells
<1> QED
    BY <1>1, <1>2, <1>3, <1>4, <1>5 DEF Next

LEMMA AnswerInit == Init => AnswerInv
<1> SUFFICES ASSUME Init PROVE AnswerInv
    OBVIOUS
<1>1. Types
    <2>1. pc \in [Users -> Pc]
        BY DEF Init, Pc
    <2>2. calls \in [Users -> 0..MaxCalls]
        <3>1. 0 \in 0..MaxCalls
            BY BoundsAssumption
        <3> QED
            BY <3>1 DEF Init
    <2>3. conns \in [Programs -> SUBSET Conns]
        BY DEF Init
    <2>4. answer \in [Users -> Texts] /\ done \in SUBSET (Clients \X (0..MaxCalls))
        BY DEF Init, Texts
    <2> QED
        BY <2>1, <2>2, <2>3, <2>4 DEF Init, Types
<1> QED
    BY <1>1 DEF Init, AnswerInv, Made, OneEach, NotYet, InOrder, Told, AnswerIsRight, Users

(***************************************************************************)
(* What sendCmd() reads is true of the command, through the end and the    *)
(* death of the service and of the client itself.                          *)
(***************************************************************************)
THEOREM ClientsAreToldTheTruth == Spec => []AnswerIsRight
<1>1. AnswerInv => AnswerIsRight
    BY DEF AnswerInv
<1> QED
    BY <1>1, AnswerInit, AnswerNext, PTL DEF Spec

-----------------------------------------------------------------------------
(* Types, and the length of the kernel's queue *)

Rest ==
    /\ child \in SUBSET Programs /\ installed \in BOOLEAN
    /\ bound \in SUBSET Programs /\ failed \in SUBSET Failing

Queue ==
    \A p \in Programs : IsFiniteSet(Waiting(p)) /\ Cardinality(Waiting(p)) <= Backlog + 1

TypeInv == PathInv /\ AnswerInv /\ Rest /\ Queue

LEMMA RestNext == TypeInv /\ [Next]_vars => Rest'
<1> SUFFICES ASSUME TypeInv, [Next]_vars PROVE Rest'
    OBVIOUS
<1> USE DEF TypeInv, Rest, lifeVars, pathVars
<1>1. CASE UNCHANGED vars
    BY <1>1 DEF vars
<1>2. ASSUME NEW u \in Users, Ends(u) PROVE Rest'
    BY <1>2 DEF Ends
<1>3. ASSUME NEW p \in Programs, Run(p) \/ Main(p) \/ Quits(p) PROVE Rest'
    BY <1>2, <1>3 DEF Run, Main, isRunning, exec, Sets, Return, Quits, Users
<1>4. ASSUME NEW p \in Programs, Service(p) PROVE Rest'
    BY <1>4 DEF Service, Unlink, Bind, Fails, executeApplication, LoopEnds, Close, sysCleanup
<1>5. ASSUME NEW p \in Programs, incomingConnection(p) \/ slotReady(p) PROVE Rest'
    BY <1>5 DEF incomingConnection, slotReady
<1>6. ASSUME NEW u \in Users, Connect(u) \/ Caller(u) PROVE Rest'
    BY <1>6 DEF Connect, Caller, Write, GotAnswer, Spawn
<1>7. ASSUME NEW u \in Clients, NEW c \in Asked, Call(u, c) PROVE Rest'
    BY <1>7 DEF Call, Sets
<1> QED
    BY <1>1, <1>2, <1>3, <1>4, <1>5, <1>6, <1>7 DEF Next, Crash

\* A queue to which nobody comes.
LEMMA QueueShrinks ==
    ASSUME Queue, \A p \in Programs : Waiting(p)' \subseteq Waiting(p)
    PROVE  Queue'
<1> SUFFICES ASSUME NEW p \in Programs
             PROVE  IsFiniteSet(Waiting(p)') /\ Cardinality(Waiting(p)') <= Backlog + 1
    BY DEF Queue
<1>1. IsFiniteSet(Waiting(p)) /\ Cardinality(Waiting(p)) <= Backlog + 1
    BY DEF Queue
<1>2. IsFiniteSet(Waiting(p)') /\ Cardinality(Waiting(p)') <= Cardinality(Waiting(p))
    BY <1>1, FS_Subset
<1> QED
    BY <1>1, <1>2, FS_CardinalityType, BoundsAssumption

LEMMA ConnectQueues ==
    ASSUME Queue, Types, NEW u \in Users, Connect(u)
    PROVE  Queue'
<1>1. CASE conns' = conns
    BY <1>1, QueueShrinks DEF Waiting
<1>2. CASE conns' # conns
    <2> DEFINE r == [from |-> u, n |-> calls[u], cmd |-> "", accepted |-> FALSE]
    <2>1. /\ Cardinality(Waiting(file)) <= Backlog
          /\ conns' = [conns EXCEPT ![file] = @ \cup {r}]
          /\ file \in Programs
        BY <1>2 DEF Connect, Connected, Refused, sockVars, Types
    <2>2. ~ r.accepted
        OBVIOUS
    <2> HIDE DEF r
    <2> SUFFICES ASSUME NEW p \in Programs
                 PROVE  IsFiniteSet(Waiting(p)') /\ Cardinality(Waiting(p)') <= Backlog + 1
        BY DEF Queue
    <2>3. IsFiniteSet(Waiting(p)) /\ Cardinality(Waiting(p)) <= Backlog + 1
        BY DEF Queue
    <2>4. CASE p = file
        <3>1. Waiting(p)' = Waiting(p) \cup {r}
            BY <2>1, <2>2, <2>4 DEF Waiting, Types
        <3>2. /\ IsFiniteSet(Waiting(p) \cup {r})
              /\ Cardinality(Waiting(p) \cup {r}) \in {Cardinality(Waiting(p)), Cardinality(Waiting(p)) + 1}
            BY <2>3, FS_AddElement
        <3>3. Cardinality(Waiting(p)) \in Nat /\ Cardinality(Waiting(p)) <= Backlog
            BY <2>1, <2>3, <2>4, FS_CardinalityType
        <3> QED
            BY <3>1, <3>2, <3>3, BoundsAssumption
    <2>5. CASE p # file
        <3>1. Waiting(p)' = Waiting(p)
            BY <2>1, <2>5 DEF Waiting, Types
        <3> QED
            BY <2>3, <3>1
    <2> QED
        BY <2>4, <2>5
<1> QED
    BY <1>1, <1>2

\* A written line changes no place in the queue.
LEMMA WriteQueues ==
    ASSUME Queue, Types, NEW u \in Users, Write(u)
    PROVE  Queue'
<1> SUFFICES ASSUME NEW p \in Programs
             PROVE  IsFiniteSet(Waiting(p)') /\ Cardinality(Waiting(p)') <= Backlog + 1
    BY DEF Queue
<1> DEFINE W(c) == [c EXCEPT !.cmd = IF Mine(u, c) THEN cmd[u] ELSE @]
           f == [c \in Waiting(p) |-> W(c)]
<1>1. IsFiniteSet(Waiting(p)) /\ Cardinality(Waiting(p)) <= Backlog + 1
    BY DEF Queue
<1>2. conns'[p] = {W(c) : c \in conns[p]} /\ conns[p] \subseteq Conns
    BY DEF Write, Types
<1>3. \A c \in Conns : W(c).accepted = c.accepted
    BY DEF Conns
<1> HIDE DEF W
<1>4. \A e \in Waiting(p)' : \E c \in Waiting(p) : e = W(c)
    BY <1>2, <1>3 DEF Waiting
<1>5. \A c \in Waiting(p) : W(c) \in Waiting(p)'
    BY <1>2, <1>3 DEF Waiting
<1>6. f \in Surjection(Waiting(p), Waiting(p)')
    BY <1>4, <1>5 DEF Surjection
<1> HIDE DEF f
<1>7. IsFiniteSet(Waiting(p)') /\ Cardinality(Waiting(p)') <= Cardinality(Waiting(p))
    BY <1>1, <1>6, FS_Surjection
<1> QED
    BY <1>1, <1>7, FS_CardinalityType, BoundsAssumption

LEMMA QueueNext == TypeInv /\ [Next]_vars => Queue'
<1> SUFFICES ASSUME TypeInv, [Next]_vars PROVE Queue'
    OBVIOUS
<1>0. Queue /\ Types
    BY DEF TypeInv, AnswerInv
<1>1. ASSUME \A p \in Programs : conns'[p] \subseteq conns[p] PROVE Queue'
    BY <1>0, <1>1, QueueShrinks DEF Waiting
<1>2. CASE UNCHANGED vars
    BY <1>1, <1>2 DEF vars, sockVars
<1>3. ASSUME NEW u \in Users, Ends(u) PROVE Queue'
    BY <1>1, <1>3 DEF Ends
<1>4. ASSUME NEW p \in Programs, Run(p) \/ Main(p) \/ Quits(p) PROVE Queue'
    BY <1>1, <1>3, <1>4 DEF Run, Main, isRunning, exec, Return, Quits, Users, sockVars
<1>5. ASSUME NEW p \in Programs, Service(p) PROVE Queue'
    BY <1>0, <1>1, <1>5
    DEF Service, Unlink, Bind, executeApplication, LoopEnds, Close, sysCleanup, sockVars, Types
<1>6. ASSUME NEW p \in Programs, incomingConnection(p) PROVE Queue'
    <2>1. PICK c \in Waiting(p) :
              conns' = [conns EXCEPT ![p] = (@ \ {c}) \cup {[c EXCEPT !.accepted = TRUE]}]
        BY <1>6 DEF incomingConnection
    <2>2. [c EXCEPT !.accepted = TRUE].accepted
        <3>1. c \in Conns
            BY <1>0, <2>1 DEF Waiting, Types
        <3>2. [c EXCEPT !.accepted = TRUE].accepted = TRUE
            BY <3>1 DEF Conns
        <3> QED
            BY <3>2
    <2>3. \A q \in Programs : Waiting(q)' \subseteq Waiting(q)
        BY <1>0, <2>1, <2>2 DEF Waiting, Types
    <2> QED
        BY <1>0, <2>3, QueueShrinks
<1>7. ASSUME NEW p \in Programs, slotReady(p) PROVE Queue'
    <2>1. PICK c \in Ready(p) :
              conns' = [conns EXCEPT ![p] = (@ \ {c}) \cup {[c EXCEPT !.cmd = ""]}]
        BY <1>7 DEF slotReady
    <2>2. [c EXCEPT !.cmd = ""].accepted
        <3>1. c \in Conns /\ c.accepted
            BY <1>0, <2>1 DEF Ready, Types
        <3>2. [c EXCEPT !.cmd = ""].accepted = c.accepted
            BY <3>1 DEF Conns
        <3> QED
            BY <3>1, <3>2
    <2>3. \A q \in Programs : Waiting(q)' \subseteq Waiting(q)
        BY <1>0, <2>1, <2>2 DEF Waiting, Types
    <2> QED
        BY <1>0, <2>3, QueueShrinks
<1>8. ASSUME NEW u \in Users, GotAnswer(u) \/ Spawn(u) PROVE Queue'
    BY <1>1, <1>8 DEF GotAnswer, Hangup, Without, Spawn, sockVars
<1>9. ASSUME NEW u \in Clients, NEW c \in Asked, Call(u, c) PROVE Queue'
    BY <1>1, <1>9 DEF Call, sockVars
<1> QED
    BY <1>0, <1>2, <1>3, <1>4, <1>5, <1>6, <1>7, <1>8, <1>9, ConnectQueues, WriteQueues
    DEF Next, Crash, Caller

(***************************************************************************)
(* The types; above all, no more connections wait to be accepted than      *)
(* listen() has provided for.                                              *)
(***************************************************************************)
THEOREM TypeCorrect == Spec => []TypeOK
<1>1. Init => TypeInv
    <2> SUFFICES ASSUME Init PROVE TypeInv
        OBVIOUS
    <2>1. Rest
        BY DEF Init, Rest
    <2>2. Queue
        <3>1. \A p \in Programs : Waiting(p) = {}
            BY DEF Init, Waiting
        <3> QED
            BY <3>1, FS_EmptySet, BoundsAssumption DEF Queue
    <2> QED
        BY <2>1, <2>2, PathInit, AnswerInit DEF TypeInv
<1>2. TypeInv /\ [Next]_vars => TypeInv'
    BY PathNext, AnswerNext, RestNext, QueueNext DEF TypeInv
<1>3. TypeInv => TypeOK
    BY DEF TypeInv, PathInv, AnswerInv, Types, Rest, Queue, TypeOK, Conns, Texts
<1> QED
    BY <1>1, <1>2, <1>3, PTL DEF Spec
-----------------------------------------------------------------------------
(***************************************************************************)
(* The lock of main() is used the way QtLockedFile allows: no program      *)
(* takes it from another, and one that ends, by a crash too, gives back    *)
(* its own.                                                                *)
(***************************************************************************)
THEOREM UsesTheLock == Spec => Lock!Spec
<1>1. Init => Lock!Init
    BY DEF Init
<1>2. [Next]_vars => [Lock!Next]_held
    <2>1. ASSUME NEW u \in Users, Ends(u) PROVE [Lock!Next]_held
        BY <2>1 DEF Ends, Lock!Next
    <2>2. ASSUME NEW p \in Programs, Main(p) PROVE [Lock!Next]_held
        BY <2>1, <2>2 DEF Main, isRunning, exec, Return, Users, Lock!Next
    <2>3. ASSUME NEW p \in Programs,
                 Run(p) \/ Service(p) \/ Quits(p) \/ incomingConnection(p) \/ slotReady(p)
          PROVE  held' = held
        BY <2>3 DEF Run, Service, Unlink, Bind, executeApplication, LoopEnds, Close, sysCleanup,
                    Quits, incomingConnection, slotReady, lifeVars
    <2>4. ASSUME NEW u \in Users, Connect(u) \/ Caller(u) PROVE held' = held
        BY <2>4 DEF Connect, Caller, Write, GotAnswer, Spawn, lifeVars
    <2>5. ASSUME NEW u \in Clients, NEW c \in Asked, Call(u, c) PROVE held' = held
        BY <2>5 DEF Call
    <2>6. CASE UNCHANGED vars
        BY <2>6 DEF vars, lifeVars
    <2> QED
        BY <2>1, <2>2, <2>3, <2>4, <2>5, <2>6 DEF Next, Crash
<1> QED
    BY <1>1, <1>2, PTL DEF Spec, Lock!Spec
-----------------------------------------------------------------------------
(* Who waits for an answer *)

\* It reads its connections, or closes them and tells who is at the other end.
Attends(p) == pc[p] \in {"listens", "serving", "quit", "close", "cleanup"}

Asking(u) == pc[u] \in {"write", "wait"} /\ answer[u] = ""

\* A line that was sent is there to be read.
Answerable(u) ==
    /\ peer[u] \in Programs /\ Attends(peer[u])
    /\ \E c \in conns[peer[u]] : Mine(u, c) /\ (pc[u] = "wait" => c.cmd # "")

Heard == \A u \in Users : Asking(u) => Answerable(u)

HasCommand == \A u \in Users : pc[u] \in {"connect", "write"} => cmd[u] # ""

HeardInv == Types /\ Heard /\ HasCommand

LEMMA HasCommandNext == HeardInv /\ [Next]_vars => HasCommand'
<1> SUFFICES ASSUME HeardInv, [Next]_vars PROVE HasCommand'
    OBVIOUS
<1> USE DEF HeardInv, Types, HasCommand, Goes, callVars, Users
<1>1. CASE UNCHANGED vars
    BY <1>1 DEF vars
<1>2. ASSUME NEW u \in Users, Ends(u) PROVE HasCommand'
    BY <1>2 DEF Ends
<1>3. ASSUME NEW p \in Programs, Run(p) \/ Quits(p) \/ Main(p) PROVE HasCommand'
    BY <1>2, <1>3 DEF Run, Quits, Main, isRunning, exec, Return
<1>4. ASSUME NEW p \in Programs, Service(p) PROVE HasCommand'
    BY <1>4 DEF Service, Unlink, Bind, executeApplication, LoopEnds, Close, sysCleanup
<1>5. ASSUME NEW p \in Programs, incomingConnection(p) \/ slotReady(p) PROVE HasCommand'
    BY <1>5 DEF incomingConnection, slotReady, AfterCommand
<1>6. ASSUME NEW u \in Users, Connect(u) PROVE HasCommand'
    BY <1>6 DEF Connect, Connected, Refused
<1>7. ASSUME NEW u \in Users, Caller(u) PROVE HasCommand'
    BY <1>7 DEF Caller, Write, GotAnswer, Spawn
<1>8. ASSUME NEW u \in Clients, NEW c \in Asked, Call(u, c) PROVE HasCommand'
    BY <1>8, FlagsAssumption DEF Call
<1> QED
    BY <1>1, <1>2, <1>3, <1>4, <1>5, <1>6, <1>7, <1>8 DEF Next, Crash

\* The end of a process: who was connected to it is told.
LEMMA EndsHears ==
    ASSUME HeardInv, NEW u \in Users, Ends(u)
    PROVE  Heard'
<1> SUFFICES ASSUME NEW v \in Users, Asking(v)'
             PROVE  Answerable(v)'
    BY DEF Heard
<1>1. v # u /\ pc'[v] = pc[v] /\ answer[v] = "" /\ peer[v] # u /\ peer'[v] = peer[v]
    BY DEF Ends, Asking, HeardInv, Types
<1>2. /\ peer[v] \in Programs /\ Attends(peer[v])
      /\ \E c \in conns[peer[v]] : Mine(v, c) /\ (pc[v] = "wait" => c.cmd # "")
    BY <1>1 DEF Asking, HeardInv, Heard, Answerable
<1>3. \A c \in conns[peer[v]] : Mine(v, c) => c \in conns'[peer[v]] /\ Mine(v, c)'
    BY <1>1, <1>2 DEF Ends, Mine
<1>4. Attends(peer[v])'
    BY <1>1, <1>2 DEF Ends, Attends, HeardInv, Types, Users
<1> QED
    BY <1>1, <1>2, <1>3, <1>4 DEF Answerable

\* A step of p that leaves the connections alone.
LEMMA MovesHears ==
    ASSUME HeardInv, NEW p \in Users, NEW t \in Pc, pc' = [pc EXCEPT ![p] = t],
           t \notin {"write", "wait"}, p \in Programs /\ Attends(p) => Attends(p)',
           UNCHANGED <<conns, peer, answer>>, \A v \in Users \ {p} : calls'[v] = calls[v]
    PROVE  Heard'
<1> SUFFICES ASSUME NEW v \in Users, Asking(v)'
             PROVE  Answerable(v)'
    BY DEF Heard
<1>1. v # p /\ pc'[v] = pc[v] /\ Asking(v)
    BY DEF Asking, HeardInv, Types
<1>2. /\ peer[v] \in Programs /\ Attends(peer[v])
      /\ \E c \in conns[peer[v]] : Mine(v, c) /\ (pc[v] = "wait" => c.cmd # "")
    BY <1>1 DEF HeardInv, Heard, Answerable
<1>3. Attends(peer[v])'
    BY <1>2 DEF Attends, HeardInv, Types, Users
<1> QED
    BY <1>1, <1>2, <1>3 DEF Mine, Answerable

\* The line that is read gets its answer; another one stays.
LEMMA slotReadyHears ==
    ASSUME HeardInv, NEW p \in Programs, slotReady(p)
    PROVE  Heard'
<1> PICK c \in Ready(p) :
        /\ AfterCommand(p, c)
        /\ Answered(c, IF Obeys(c.cmd) THEN "true" ELSE "false")
        /\ conns' = [conns EXCEPT ![p] = (@ \ {c}) \cup {[c EXCEPT !.cmd = ""]}]
    BY DEF slotReady
<1> SUFFICES ASSUME NEW v \in Users, Asking(v)'
             PROVE  Answerable(v)'
    BY DEF Heard
<1>1. peer' = peer /\ calls' = calls
    BY DEF slotReady, callVars
<1>2. /\ \A q \in Programs : Attends(q) => Attends(q)'
      /\ pc'[v] \in {"write", "wait"} => pc'[v] = pc[v]
    BY DEF AfterCommand, Attends, HeardInv, Types, Users
<1>3. answer'[v] = "" => answer[v] = "" /\ (Mine(v, c) => peer[v] = "none")
    BY DEF Answered
<1>4. PICK e \in conns[peer[v]] : Mine(v, e) /\ (pc[v] = "wait" => e.cmd # "")
    BY <1>2, <1>3 DEF Asking, HeardInv, Heard, Answerable
<1>5. peer[v] \in Programs /\ Attends(peer[v])
    BY <1>2, <1>3 DEF Asking, HeardInv, Heard, Answerable
<1>6. e # c
    BY <1>3, <1>4, <1>5, UsersAssumption DEF Asking, Users
<1>7. e \in conns'[peer[v]]
    BY <1>4, <1>5, <1>6 DEF HeardInv, Types
<1> QED
    BY <1>1, <1>2, <1>4, <1>5, <1>7 DEF Mine, Asking, Answerable

LEMMA incomingConnectionHears ==
    ASSUME HeardInv, NEW p \in Programs, incomingConnection(p)
    PROVE  Heard'
<1> PICK c \in Waiting(p) :
        conns' = [conns EXCEPT ![p] = (@ \ {c}) \cup {[c EXCEPT !.accepted = TRUE]}]
    BY DEF incomingConnection
<1> DEFINE d == [c EXCEPT !.accepted = TRUE]
<1> SUFFICES ASSUME NEW v \in Users, Asking(v)'
             PROVE  Answerable(v)'
    BY DEF Heard
<1>1. UNCHANGED <<pc, peer, answer, calls>>
    BY DEF incomingConnection, callVars
<1>2. PICK e \in conns[peer[v]] : Mine(v, e) /\ (pc[v] = "wait" => e.cmd # "")
    BY <1>1 DEF Asking, HeardInv, Heard, Answerable
<1>3. peer[v] \in Programs /\ Attends(peer[v])
    BY <1>1 DEF Asking, HeardInv, Heard, Answerable
<1>4. c \in Conns
    BY DEF Waiting, HeardInv, Types
<1>5. d.from = c.from /\ d.n = c.n /\ d.cmd = c.cmd
    BY <1>4 DEF Conns
<1> HIDE DEF d
<1>6. e \in conns'[peer[v]] \/ (e = c /\ d \in conns'[peer[v]])
    BY <1>2, <1>3 DEF HeardInv, Types, d
<1> QED
    BY <1>1, <1>2, <1>3, <1>5, <1>6 DEF Mine, Attends, Answerable

\* Connections of p are closed: who has one of them is told.
LEMMA ClosingHears ==
    ASSUME HeardInv, NEW p \in Programs, NEW t \in Pc, NEW cs \in SUBSET conns[p],
           pc' = [pc EXCEPT ![p] = t], t \notin {"write", "wait"},
           t = "cleanup" \/ cs = conns[p],
           Disconnected(cs, p, "closed"), conns' = [conns EXCEPT ![p] = @ \ cs],
           UNCHANGED <<peer, calls>>
    PROVE  Heard'
<1> SUFFICES ASSUME NEW v \in Users, Asking(v)'
             PROVE  Answerable(v)'
    BY DEF Heard
<1>1. v # p /\ pc'[v] = pc[v]
    BY DEF Asking, HeardInv, Types
<1>2. answer[v] = "" /\ ~ (peer[v] = p /\ \E c \in cs : Mine(v, c))
    BY DEF Asking, Disconnected
<1>3. PICK e \in conns[peer[v]] : Mine(v, e) /\ (pc[v] = "wait" => e.cmd # "")
    BY <1>1, <1>2 DEF Asking, HeardInv, Heard, Answerable
<1>4. peer[v] \in Programs /\ Attends(peer[v])
    BY <1>1, <1>2 DEF Asking, HeardInv, Heard, Answerable
<1>5. e \in conns'[peer[v]]
    BY <1>2, <1>3, <1>4 DEF HeardInv, Types
<1>6. Attends(peer[v])'
    BY <1>2, <1>3, <1>4 DEF Attends, HeardInv, Types, Users
<1> QED
    BY <1>1, <1>3, <1>4, <1>5, <1>6 DEF Mine, Answerable

LEMMA ServiceHears ==
    ASSUME HeardInv, NEW p \in Programs, Service(p)
    PROVE  Heard'
<1> USE DEF Pc, ServicePc, Goes, sockVars, callVars, Users, Attends
<1>0. pc \in [Users -> Pc]
    BY DEF HeardInv, Types
<1>1. CASE Unlink(p) \/ Bind(p) \/ executeApplication(p) \/ LoopEnds(p)
    <2>1. PICK t \in {"bind", "listens", "serving", "close"} :
              pc' = [pc EXCEPT ![p] = t] /\ (pc[p] \in {"listens", "quit"} => t \in {"serving", "close"})
        BY <1>1 DEF Unlink, Bind, executeApplication, LoopEnds
    <2>2. UNCHANGED <<conns, peer, answer, calls>> /\ pc[p] \in {"unlink", "bind", "listens", "quit"}
        BY <1>1 DEF Unlink, Bind, executeApplication, LoopEnds
    <2>3. t \in Pc /\ (Attends(p) => Attends(p)')
        BY <1>0, <2>1, <2>2
    <2> QED
        BY <2>1, <2>2, <2>3, MovesHears
<1>2. CASE Close(p)
    <2>1. Waiting(p) \in SUBSET conns[p]
        BY DEF Waiting
    <2>2. /\ pc' = [pc EXCEPT ![p] = "cleanup"] /\ "cleanup" \in Pc
          /\ Disconnected(Waiting(p), p, "closed") /\ conns' = [conns EXCEPT ![p] = @ \ Waiting(p)]
          /\ UNCHANGED <<peer, calls>>
        BY <1>2 DEF Close
    <2> QED
        BY <2>1, <2>2, ClosingHears
<1>3. CASE sysCleanup(p)
    <2>1. /\ pc' = [pc EXCEPT ![p] = "return"] /\ "return" \in Pc
          /\ Disconnected(conns[p], p, "closed") /\ conns' = [conns EXCEPT ![p] = @ \ conns[p]]
          /\ UNCHANGED <<peer, calls>>
        BY <1>3 DEF sysCleanup
    <2> QED
        BY <2>1, ClosingHears
<1> QED
    BY <1>1, <1>2, <1>3 DEF Service

LEMMA MainHears ==
    ASSUME HeardInv, NEW p \in Programs, Run(p) \/ Main(p) \/ Quits(p)
    PROVE  Heard'
<1> USE DEF Pc, ServicePc, CallPc, Goes, sockVars, callVars, Users, Attends
<1>0. pc \in [Users -> Pc]
    BY DEF HeardInv, Types
<1>1. CASE Ends(p)
    BY <1>1, EndsHears
<1>2. CASE Run(p) \/ (Goes(p, "isRunning", "exec") /\ UNCHANGED <<sockVars, callVars>>)
    <2>1. PICK t \in {"isRunning", "exec"} : pc' = [pc EXCEPT ![p] = t]
        BY <1>2 DEF Run
    <2>2. UNCHANGED <<conns, peer, answer, calls>> /\ pc[p] \in {"down", "isRunning"}
        BY <1>2 DEF Run
    <2> QED
        BY <2>1, <2>2, MovesHears
<1>3. CASE exec(p)
    <2>1. PICK t \in {"unlink", "connect", "return", "app"} : Goes(p, "exec", t)
        BY <1>3 DEF exec
    <2>2. UNCHANGED <<conns, peer, answer, calls>>
        BY <1>3 DEF exec
    <2> QED
        BY <2>1, <2>2, MovesHears
<1>4. CASE Quits(p)
    <2>1. CASE Goes(p, "serving", "quit")
        BY <1>0, <1>4, <2>1, MovesHears DEF Quits
    <2>2. CASE Goes(p, "app", "return")
        BY <1>0, <1>4, <2>2, MovesHears DEF Quits
    <2> QED
        BY <1>4, <2>1, <2>2 DEF Quits
<1> QED
    BY <1>1, <1>2, <1>3, <1>4 DEF Main, isRunning, Return

\* The connection that is made is to a service that listens.
LEMMA ConnectHears ==
    ASSUME HeardInv, NEW u \in Users, Connect(u)
    PROVE  Heard'
<1>1. CASE Refused(u) \/ (cmd[u] = "start" /\ Connected(u))
    <2>1. UNCHANGED sockVars /\ \E t \in {"spawn", "down"} : pc' = [pc EXCEPT ![u] = t]
        BY <1>1 DEF Connect, Connected, Refused, sockVars, HeardInv, Types
    <2>2. pc[u] = "connect"
        BY DEF Connect
    <2> QED
        BY <2>1, <2>2, MovesHears DEF Connect, Pc, CallPc, Attends, sockVars, callVars
<1>2. CASE cmd[u] # "start" /\ file \in Programs /\ Listening(file) /\ Connected(u)
    <2> DEFINE r == [from |-> u, n |-> calls[u], cmd |-> "", accepted |-> FALSE]
    <2>1. /\ pc' = [pc EXCEPT ![u] = "write"] /\ peer' = [peer EXCEPT ![u] = file]
          /\ conns' = [conns EXCEPT ![file] = @ \cup {r}] /\ answer' = answer
        BY <1>2 DEF Connected
    <2>2. pc[u] = "connect" /\ calls' = calls /\ file' = file
        BY DEF Connect, callVars, pathVars
    <2>3. Mine(u, r)
        BY DEF Mine
    <2> HIDE DEF r
    <2> SUFFICES ASSUME NEW v \in Users, Asking(v)'
                 PROVE  Answerable(v)'
        BY DEF Heard
    <2>4. CASE v = u
        <3>1. Attends(file)'
            BY <1>2, <2>1, <2>2 DEF Listening, Looping, Attends, HeardInv, Types, Users
        <3>2. peer'[v] = file /\ pc'[v] = "write" /\ r \in conns'[file]
            BY <1>2, <2>1, <2>4 DEF HeardInv, Types
        <3> QED
            BY <1>2, <2>2, <2>3, <2>4, <3>1, <3>2 DEF Mine, Answerable
    <2>5. CASE v # u
        <3>1. pc'[v] = pc[v] /\ peer'[v] = peer[v] /\ Answerable(v)
            BY <2>1, <2>5 DEF Asking, HeardInv, Types, Heard
        <3>2. Attends(peer[v])' /\ conns[peer[v]] \subseteq conns'[peer[v]]
            BY <2>1, <2>2, <3>1 DEF Answerable, Attends, HeardInv, Types, Users
        <3> QED
            BY <2>2, <3>1, <3>2 DEF Answerable, Mine
    <2> QED
        BY <2>4, <2>5
<1> QED
    BY <1>1, <1>2 DEF Connect, Connected, Refused, HeardInv, Types, sockVars

\* The line is on the connection, if that is still there.
LEMMA WriteHears ==
    ASSUME HeardInv, NEW u \in Users, Write(u)
    PROVE  Heard'
<1> DEFINE W(c) == [c EXCEPT !.cmd = IF Mine(u, c) THEN cmd[u] ELSE @]
<1> SUFFICES ASSUME NEW v \in Users, Asking(v)'
             PROVE  Answerable(v)'
    BY DEF Heard
<1>1. /\ pc[u] = "write" /\ pc' = [pc EXCEPT ![u] = "wait"] /\ cmd[u] # ""
      /\ conns' = [q \in Programs |-> {W(c) : c \in conns[q]}]
      /\ UNCHANGED <<peer, answer, calls>>
    BY DEF Write, Goes, callVars, HeardInv, HasCommand
<1>2. Answerable(v) /\ pc'[v] = IF v = u THEN "wait" ELSE pc[v]
    BY <1>1 DEF Asking, HeardInv, Heard, Types
<1>3. PICK c \in conns[peer[v]] : Mine(v, c) /\ (pc[v] = "wait" => c.cmd # "")
    BY <1>2 DEF Answerable
<1>4. c \in Conns /\ peer[v] \in Programs
    BY <1>2, <1>3 DEF Answerable, HeardInv, Types
<1>5. W(c).from = c.from /\ W(c).n = c.n /\ W(c).cmd = IF Mine(u, c) THEN cmd[u] ELSE c.cmd
    BY <1>4 DEF Conns
<1> HIDE DEF W
<1>6. W(c) \in conns'[peer[v]]
    BY <1>1, <1>3, <1>4
<1>7. Attends(peer[v])'
    BY <1>1, <1>2 DEF Answerable, Attends, HeardInv, Types, Users
<1> QED
    BY <1>1, <1>2, <1>3, <1>4, <1>5, <1>6, <1>7 DEF Answerable, Mine

LEMMA CallerHears ==
    ASSUME HeardInv, NEW u \in Users, GotAnswer(u) \/ Spawn(u)
    PROVE  Heard'
<1> SUFFICES ASSUME NEW v \in Users, Asking(v)'
             PROVE  Answerable(v)'
    BY DEF Heard
<1>1. CASE GotAnswer(u)
    <2>1. PICK t \in {"down", "return", "spawn"} : Goes(u, "wait", t)
        BY <1>1 DEF GotAnswer
    <2>2. v # u /\ pc'[v] = pc[v] /\ peer'[v] = peer[v] /\ answer'[v] = answer[v]
        BY <1>1, <2>1 DEF GotAnswer, Hangup, Goes, Asking, HeardInv, Types
    <2>3. PICK c \in conns[peer[v]] : Mine(v, c) /\ (pc[v] = "wait" => c.cmd # "")
        BY <2>2 DEF Asking, HeardInv, Heard, Answerable
    <2>4. peer[v] \in Programs /\ Attends(peer[v])
        BY <2>2 DEF Asking, HeardInv, Heard, Answerable
    <2>5. c \in conns'[peer[v]]
        BY <1>1, <2>2, <2>3, <2>4 DEF GotAnswer, Hangup, Without, Mine
    <2>6. Attends(peer[v])' /\ calls' = calls
        BY <1>1, <2>1, <2>2, <2>4 DEF GotAnswer, Goes, Attends, HeardInv, Types, Users, callVars
    <2> QED
        BY <2>2, <2>3, <2>4, <2>5, <2>6 DEF Answerable, Mine
<1>2. CASE Spawn(u)
    <2>1. PICK t \in {"return", "down"} :
              /\ pc[u] = "spawn"
              /\ \/ pc' = [pc EXCEPT ![u] = t]
                 \/ \E q \in Programs : pc[q] = "down" /\ pc' = [pc EXCEPT ![u] = t, ![q] = "isRunning"]
        BY <1>2 DEF Spawn, Goes
    <2>2. UNCHANGED <<conns, peer, answer, calls>>
        BY <1>2 DEF Spawn, sockVars, callVars
    <2>3. pc'[v] = pc[v] /\ Answerable(v)
        BY <2>1, <2>2 DEF Asking, HeardInv, Types, Heard, Users
    <2>4. Attends(peer[v])'
        BY <2>1, <2>2, <2>3 DEF Answerable, Attends, HeardInv, Types, Users
    <2> QED
        BY <2>2, <2>3, <2>4 DEF Answerable, Mine
<1> QED
    BY <1>1, <1>2

LEMMA HeardNext == HeardInv /\ [Next]_vars => Heard'
<1> SUFFICES ASSUME HeardInv, [Next]_vars PROVE Heard'
    OBVIOUS
<1>1. CASE UNCHANGED vars
    <2>1. UNCHANGED <<pc, conns, peer, answer, calls>>
        BY <1>1 DEF vars, sockVars, callVars
    <2> QED
        BY <2>1 DEF HeardInv, Heard, Asking, Answerable, Attends, Mine
<1>2. ASSUME NEW u \in Clients, NEW c \in Asked, Call(u, c) PROVE Heard'
    <2>1. PICK t \in {"down", "connect"} : pc[u] = "down" /\ pc' = [pc EXCEPT ![u] = t]
        BY <1>2 DEF Call, Goes, HeardInv, Types, Users
    <2>2. \A v \in Users \ {u} : calls'[v] = calls[v]
        BY <1>2 DEF Call, HeardInv, Types
    <2> QED
        BY <1>2, <2>1, <2>2, MovesHears DEF Call, Pc, CallPc, Attends, sockVars, Users
<1> QED
    BY <1>1, <1>2, MainHears, ServiceHears, incomingConnectionHears, slotReadyHears,
       ConnectHears, WriteHears, CallerHears, EndsHears
    DEF Next, Caller, Crash

(***************************************************************************)
(* Nobody waits in vain: the process at the other end of a connection is   *)
(* up, has the line that was sent, unread, and has still to read it or to  *)
(* close the connection.  Without it sendCmd(), which has no time limit,   *)
(* could hang whatever the scheduling.                                     *)
(***************************************************************************)
THEOREM NobodyWaitsInVain == Spec => []Heard
<1> DEFINE Inv == AnswerInv /\ HeardInv
<1>1. Init => Inv
    BY AnswerInit DEF Init, AnswerInv, HeardInv, Heard, HasCommand, Asking
<1>2. Inv /\ [Next]_vars => Inv'
    BY AnswerNext, HeardNext, HasCommandNext DEF AnswerInv, HeardInv
<1>3. Inv => Heard
    BY DEF HeardInv
<1> QED
    BY <1>1, <1>2, <1>3, PTL DEF Spec
=============================================================================
