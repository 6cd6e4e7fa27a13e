---------------------------- MODULE UnixService -----------------------------
(***************************************************************************)
(* A service of the Unix build: no service manager, but a socket at a path *)
(* that everybody derives from the name of the service.  The service       *)
(* process binds it and answers one line of text, a command, with "true"   *)
(* or "false"; a QtServiceController connects, sends a line and waits for  *)
(* the answer without a time limit (sendCmd()).                            *)
(*                                                                         *)
(* Programs are processes of main(): QtSingleApplication, with the lock of *)
(* the user, lets one in at a time.  Without arguments a program asks      *)
(* whether the service is alive and, if not, starts itself again, detached *)
(* and with QTSERVICE_RUN set; that child is the service.  Clients are     *)
(* other programs that use a QtServiceController.  The settings say        *)
(* whether the service is installed: only start() of a client asks.        *)
(*                                                                         *)
(* Data: a line is sent and read whole, as it is short; commands with the  *)
(* same handling are one (the numbers of "num:", resume next to pause).    *)
(* A program with an argument such as -t is let in only when no service    *)
(* runs, and finds nobody at the path: it is left out.  isInstalled() and  *)
(* the write that depends on it are one step, as the write only sets what  *)
(* the test has found missing.  The argument of a program is chosen when   *)
(* exec() looks at it.                                                     *)
(***************************************************************************)
EXTENDS Naturals, FiniteSets

CONSTANTS
    Programs,     \* processes of main()
    Clients,      \* processes with a controller
    Arguments,    \* what programs are started with
    Flags,        \* the service's flags
    Asked,        \* the calls that clients make
    Backlog,      \* connections that wait to be accepted: 5, and one (listen())
    MaxCalls,     \* bound: calls of one client
    Mortals,      \* processes that may die anywhere
    Failing       \* programs whose socket(), bind() or listen() may fail for no
                  \* reason the model knows (a limit, permissions, a full disk)

Users == Programs \cup Clients

ASSUME UsersAssumption == Programs \cap Clients = {} /\ "none" \notin Users
ASSUME FlagsAssumption ==
    /\ Flags \subseteq {"CannotBeStopped", "CanBeSuspended"}
    /\ Asked \subseteq {"terminate", "pause", "num", "start", "uninstall"}
    /\ Arguments \subseteq {"", "-i", "-u", "-e"}
ASSUME BoundsAssumption ==
    Backlog \in Nat /\ MaxCalls \in Nat /\ Mortals \subseteq Users
ASSUME FailingAssumption == Failing \subseteq Programs

VARIABLES
    pc,        \* where process u is
    held,      \* the lock of QtSingleApplication
    child,     \* programs with QTSERVICE_RUN in their environment
    installed, \* the settings have a group for the service
    file,      \* who bound the socket file, or "none"
    bound,     \* programs whose path_ is not empty
    failed,    \* auxiliary: programs whose setPath() met such a failure
    conns,     \* conns[p]: connections to program p that it has not read
    peer,      \* peer[u]: the program u is connected to, or "none"
    answer,    \* what came back on the connection of u
    cmd,       \* the command of u
    calls,     \* calls of u so far
    done       \* commands carried out: <<client, number of its call>>

lifeVars == <<held, child, installed>>
pathVars == <<file, bound, failed>>
sockVars == <<conns, peer, answer, done>>
callVars == <<cmd, calls>>
vars == <<pc, lifeVars, pathVars, sockVars, callVars>>

Lock == INSTANCE RWLock WITH Procs <- Programs, Session <- [p \in Programs |-> 0]

\* The slots of the socket object run in the event loop and, for a last
\* round, after quit().
Looping(p)   == pc[p] \in {"serving", "quit"}
Listening(p) == p \in bound /\ (Looping(p) \/ pc[p] \in {"listens", "close"})
Waiting(p)   == {c \in conns[p] : ~ c.accepted}

CallPc    == {"connect", "write", "wait", "spawn"}
ServicePc == {"unlink", "bind", "listens", "serving", "quit", "close", "cleanup"}
Pc == CallPc \cup ServicePc \cup {"down", "isRunning", "exec", "app", "return"}

TypeOK ==
    /\ pc \in [Users -> Pc]
    /\ held \in [Programs -> Lock!Modes]
    /\ child \in SUBSET Programs
    /\ installed \in BOOLEAN
    /\ file \in Programs \cup {"none"}
    /\ bound \in SUBSET Programs /\ failed \in SUBSET Failing
    /\ conns \in [Programs -> SUBSET [from : Users, n : 0..MaxCalls, cmd : Asked \cup {"alive", ""}, accepted : BOOLEAN]]
    /\ \A p \in Programs : Cardinality(Waiting(p)) <= Backlog + 1
    /\ peer \in [Users -> Programs \cup {"none"}]
    /\ answer \in [Users -> {"", "true", "false", "closed", "reset"}]
    /\ cmd \in [Users -> Asked \cup {"alive", ""}]
    /\ calls \in [Users -> 0..MaxCalls]
    /\ done \in SUBSET (Clients \X (0..MaxCalls))

Init ==
    /\ pc = [u \in Users |-> "down"]
    /\ Lock!Init /\ child = {} /\ installed \in BOOLEAN
    /\ file = "none" /\ bound = {} /\ failed = {}
    /\ conns = [p \in Programs |-> {}]
    /\ peer = [u \in Users |-> "none"] /\ answer = [u \in Users |-> ""]
    /\ done = {}
    /\ cmd = [u \in Users |-> ""] /\ calls = [u \in Users |-> 0]

Goes(u, from, to) == pc[u] = from /\ pc' = [pc EXCEPT ![u] = to]

-----------------------------------------------------------------------------
(* Connections *)

Mine(u, c)   == c.from = u /\ c.n = calls[u]
Without(u)   == [p \in Programs |-> {c \in conns[p] : ~ Mine(u, c)}]

\* Those of program p are closed; their clients find what is in how.
Disconnected(cs, p, how) ==
    answer' = [u \in Users |->
        IF answer[u] = "" /\ peer[u] = p /\ \E c \in cs : Mine(u, c) THEN how ELSE answer[u]]

\* The client has closed its socket; slotClosed() drops the server's.
Hangup(u) ==
    /\ peer' = [peer EXCEPT ![u] = "none"] /\ answer' = [answer EXCEPT ![u] = ""]
    /\ conns' = Without(u)

-----------------------------------------------------------------------------
(* Calls: sendCmd(), isRunning(), start() *)

\* ECONNREFUSED: the service does not run.
Refused(u) ==
    /\ pc' = [pc EXCEPT ![u] = IF cmd[u] \in {"alive", "start"} THEN "spawn" ELSE "down"]
    /\ UNCHANGED sockVars

\* Who only wanted to know closes the connection at once.
Connected(u) ==
    /\ IF cmd[u] = "start"
       THEN pc' = [pc EXCEPT ![u] = "down"] /\ UNCHANGED <<peer, conns>>
       ELSE /\ pc' = [pc EXCEPT ![u] = "write"]
            /\ peer' = [peer EXCEPT ![u] = file]
            /\ conns' = [conns EXCEPT ![file] = @ \cup
                    {[from |-> u, n |-> calls[u], cmd |-> "", accepted |-> FALSE]}]
    /\ UNCHANGED <<answer, done>>

\* Mutant: nobody looks at the backlog.
Connect_floods(u) ==
    /\ pc[u] = "connect"
    /\ IF file # "none" /\ Listening(file) THEN Connected(u) ELSE Refused(u)
    /\ UNCHANGED <<lifeVars, pathVars, callVars>>

\* connectTo(): it blocks while the backlog is full.
Connect(u) ==
    /\ pc[u] = "connect"
    /\ IF file # "none" /\ Listening(file)
       THEN Cardinality(Waiting(file)) <= Backlog /\ Connected(u)
       ELSE Refused(u)
    /\ UNCHANGED <<lifeVars, pathVars, callVars>>

\* sock.write(), flush(): lost if the connection is gone
Write(u) ==
    /\ Goes(u, "write", "wait")
    /\ conns' = [p \in Programs |-> {[c EXCEPT !.cmd = IF Mine(u, c) THEN cmd[u] ELSE @] : c \in conns[p]}]
    /\ UNCHANGED <<lifeVars, pathVars, peer, answer, done, callVars>>

\* waitForReadyRead(-1): an answer, or the end of the connection
GotAnswer(u) ==
    /\ answer[u] # ""
    /\ Goes(u, "wait", IF u \in Clients THEN "down"
                       ELSE IF answer[u] = "true" THEN "return" ELSE "spawn")
    /\ Hangup(u)
    /\ UNCHANGED <<lifeVars, pathVars, done, callVars>>

\* startDetached(): a program of the same file, or nothing.  A program's
\* child finds QTSERVICE_RUN, a client's does not; a client reads the path
\* of the file from the settings.
Spawn(u) ==
    LET back == IF u \in Programs THEN "return" ELSE "down" IN
    /\ \/ \E q \in Programs :
            /\ pc[u] = "spawn" /\ pc[q] = "down" /\ (u \in Programs \/ installed)
            /\ pc' = [pc EXCEPT ![u] = back, ![q] = "isRunning"]
            /\ child' = IF u \in Programs THEN child \cup {q} ELSE child
       \/ Goes(u, "spawn", back) /\ UNCHANGED child
    /\ UNCHANGED <<held, installed, pathVars, sockVars, callVars>>

\* settings.sync() may fail, and leave the settings as they were.
Sets(value) == installed' \in {installed, value}

\* A call of a client.  uninstall() looks at no service.
Call(u, c) ==
    /\ calls[u] < MaxCalls /\ calls' = [calls EXCEPT ![u] = @ + 1]
    /\ \/ /\ c # "uninstall" /\ (c = "start" => installed)
          /\ Goes(u, "down", "connect")
          /\ cmd' = [cmd EXCEPT ![u] = c] /\ UNCHANGED installed
       \/ /\ c = "uninstall" /\ pc[u] = "down"
          /\ Sets(FALSE) /\ UNCHANGED <<pc, cmd>>
    /\ UNCHANGED <<held, child, pathVars, sockVars>>

Caller(u) == Write(u) \/ GotAnswer(u) \/ Spawn(u)

-----------------------------------------------------------------------------
(* main() and exec() *)

Run(p) ==
    /\ Goes(p, "down", "isRunning")
    /\ UNCHANGED <<lifeVars, pathVars, sockVars, callVars>>

(***************************************************************************)
(* The end of a process: sockets and lock go, the socket file stays.  A    *)
(* line that a client has sent is still there to be read.                  *)
(***************************************************************************)
Ends(u) ==
    LET left == [p \in Programs |-> {c \in conns[p] : ~ Mine(u, c) \/ (u \in Clients /\ c.cmd # "")}] IN
    /\ pc' = [pc EXCEPT ![u] = "down"]
    /\ IF u \in Programs /\ held[u] # "NoLock" THEN Lock!Release(u) ELSE UNCHANGED held
    /\ child' = child \ {u} /\ bound' = bound \ {u} /\ failed' = failed \ {u}
    /\ conns' = [p \in Programs |-> IF p = u THEN {} ELSE left[p]]
    /\ peer' = [v \in Users |-> IF v = u THEN "none" ELSE peer[v]]
    /\ answer' = [v \in Users |-> IF v = u THEN "" ELSE IF peer[v] = u /\ answer[v] = "" THEN "reset" ELSE answer[v]]
    /\ cmd' = [cmd EXCEPT ![u] = ""]
    /\ UNCHANGED <<installed, file, calls, done>>

Crash(u) == u \in Mortals /\ pc[u] # "down" /\ Ends(u)

Return(p) == pc[p] = "return" /\ Ends(p)

\* Mutant: main() looks at nobody.
isRunning_not(p) ==
    /\ Goes(p, "isRunning", "exec")
    /\ UNCHANGED <<lifeVars, pathVars, sockVars, callVars>>

\* if (s.isRunning()) return 1;
isRunning(p) ==
    \/ /\ Goes(p, "isRunning", "exec") /\ Lock!AcquireWrite(p)
       /\ UNCHANGED <<child, installed, pathVars, sockVars, callVars>>
    \/ /\ pc[p] = "isRunning" /\ \E q \in Lock!Peers(p) : held[q] # "NoLock"
       /\ Ends(p)

\* A child, which has no argument that exec() knows, runs the service.
\* Anybody else installs it or the opposite, runs as a program, or asks for
\* the service: start().
exec(p) ==
    /\ \/ p \in child /\ Goes(p, "exec", "unlink") /\ UNCHANGED <<cmd, installed>>
       \/ /\ p \notin child /\ "" \in Arguments
          /\ Goes(p, "exec", "connect")
          /\ cmd' = [cmd EXCEPT ![p] = "alive"] /\ UNCHANGED installed
       \/ /\ p \notin child /\ \E a \in Arguments \cap {"-i", "-u"} : Sets(a = "-i")
          /\ Goes(p, "exec", "return") /\ UNCHANGED cmd
       \/ /\ p \notin child /\ "-e" \in Arguments
          /\ Goes(p, "exec", "app") /\ UNCHANGED <<cmd, installed>>
    /\ UNCHANGED <<held, child, pathVars, sockVars, calls>>

-----------------------------------------------------------------------------
(* The service: run(true) *)

(***************************************************************************)
(* setPath(): socket(), unlink() of what is in the way, bind() and         *)
(* listen().  If one of them fails the service runs on without a path, and *)
(* a socket that was bound already leaves its file.                        *)
(***************************************************************************)
Fails(p) == p \in Failing /\ failed' = failed \cup {p}

Unlink(p) ==
    /\ \/ Goes(p, "unlink", "bind") /\ file' = "none" /\ UNCHANGED failed
       \/ Goes(p, "unlink", "listens") /\ Fails(p) /\ UNCHANGED file
    /\ UNCHANGED <<lifeVars, bound, sockVars, callVars>>

Bind(p) ==
    /\ Goes(p, "bind", "listens")
    /\ \/ file = "none" /\ file' = p /\ bound' = bound \cup {p} /\ UNCHANGED failed
       \/ file # "none" /\ UNCHANGED pathVars
       \/ Fails(p) /\ file' \in {file, IF file = "none" THEN p ELSE file} /\ UNCHANGED bound
    /\ UNCHANGED <<lifeVars, sockVars, callVars>>

executeApplication(p) ==
    /\ Goes(p, "listens", "serving")
    /\ UNCHANGED <<lifeVars, pathVars, sockVars, callVars>>

incomingConnection(p) ==
    /\ Looping(p) /\ UNCHANGED pc
    /\ \E c \in Waiting(p) :
        conns' = [conns EXCEPT ![p] = (@ \ {c}) \cup {[c EXCEPT !.accepted = TRUE]}]
    /\ UNCHANGED <<lifeVars, pathVars, peer, answer, done, callVars>>

\* The answer to a command; yes: the callback of the service was called.
Obeys(c) ==
    CASE c = "terminate" -> "CannotBeStopped" \notin Flags
      [] c = "pause"     -> "CanBeSuspended" \in Flags
      [] OTHER           -> TRUE

Ready(p) == {c \in conns[p] : c.accepted /\ c.cmd # ""}
Carried(c) == IF Obeys(c.cmd) /\ c.from \in Clients THEN done \cup {<<c.from, c.n>>} ELSE done
Answered(c, text) ==
    answer' = [u \in Users |-> IF Mine(u, c) /\ peer[u] # "none" THEN text ELSE answer[u]]
AfterCommand(p, c) ==
    pc' = [pc EXCEPT ![p] = IF c.cmd = "terminate" /\ Obeys(c.cmd) THEN "quit" ELSE @]

\* Mutant: a command that is refused gets no answer.
slotReady_mute(p) ==
    /\ Looping(p)
    /\ \E c \in Ready(p) :
        /\ done' = Carried(c) /\ AfterCommand(p, c)
        /\ IF Obeys(c.cmd) THEN Answered(c, "true") ELSE UNCHANGED answer
        /\ conns' = [conns EXCEPT ![p] = (@ \ {c}) \cup {[c EXCEPT !.cmd = ""]}]
    /\ UNCHANGED <<lifeVars, pathVars, peer, callVars>>

\* Mutant: the loop ends with the command that quits, before the answer.
slotReady_quits(p) ==
    /\ Looping(p)
    /\ \E c \in Ready(p) :
        /\ done' = Carried(c) /\ AfterCommand(p, c)
        /\ IF c.cmd = "terminate" THEN UNCHANGED answer
           ELSE Answered(c, IF Obeys(c.cmd) THEN "true" ELSE "false")
        /\ conns' = [conns EXCEPT ![p] = (@ \ {c}) \cup {[c EXCEPT !.cmd = ""]}]
    /\ UNCHANGED <<lifeVars, pathVars, peer, callVars>>

\* A line is read, carried out and answered.
slotReady(p) ==
    /\ Looping(p)
    /\ \E c \in Ready(p) :
        /\ done' = Carried(c) /\ AfterCommand(p, c)
        /\ Answered(c, IF Obeys(c.cmd) THEN "true" ELSE "false")
        /\ conns' = [conns EXCEPT ![p] = (@ \ {c}) \cup {[c EXCEPT !.cmd = ""]}]
    /\ UNCHANGED <<lifeVars, pathVars, peer, callVars>>

\* The application ends by itself.
Quits(p) ==
    /\ Goes(p, "serving", "quit") \/ Goes(p, "app", "return")
    /\ UNCHANGED <<lifeVars, pathVars, sockVars, callVars>>

LoopEnds(p) ==
    /\ Goes(p, "quit", "close")
    /\ UNCHANGED <<lifeVars, pathVars, sockVars, callVars>>

\* QTcpServer::close(): nobody listens, and who waits to be accepted is sent away.
Close(p) ==
    /\ Goes(p, "close", "cleanup")
    /\ Disconnected(Waiting(p), p, "closed")
    /\ conns' = [conns EXCEPT ![p] = @ \ Waiting(p)]
    /\ UNCHANGED <<lifeVars, pathVars, peer, done, callVars>>

\* The file is removed, whoever's it is by now; the sockets are deleted.
sysCleanup(p) ==
    /\ Goes(p, "cleanup", "return")
    /\ file' = IF p \in bound THEN "none" ELSE file
    /\ bound' = bound \ {p} /\ UNCHANGED failed
    /\ Disconnected(conns[p], p, "closed")
    /\ conns' = [conns EXCEPT ![p] = {}]
    /\ UNCHANGED <<lifeVars, peer, done, callVars>>

Main(p) == isRunning(p) \/ exec(p) \/ Return(p)

Service(p) ==
    \/ Unlink(p) \/ Bind(p) \/ executeApplication(p)
    \/ LoopEnds(p) \/ Close(p) \/ sysCleanup(p)

-----------------------------------------------------------------------------
Next ==
    \/ \E p \in Programs : Run(p) \/ Main(p) \/ Service(p) \/ Quits(p)
    \/ \E p \in Programs : incomingConnection(p) \/ slotReady(p)
    \/ \E u \in Users : Connect(u) \/ Caller(u) \/ Crash(u)
    \/ \E u \in Clients, c \in Asked : Call(u, c)

Spec == Init /\ [][Next]_vars

(***************************************************************************)
(* Each process, a single thread, takes steps as long as it can: callbacks *)
(* return.  The kernel takes every client that waits to connect in turn;   *)
(* programs find nobody at the path, or do not wait.                       *)
(***************************************************************************)
Steps(p) ==
    /\ pc[p] # "down"
    /\ Main(p) \/ Service(p) \/ incomingConnection(p) \/ slotReady(p) \/ Connect(p) \/ Caller(p)

FairSpec ==
    /\ Spec
    /\ \A p \in Programs : WF_vars(Steps(p))
    /\ \A c \in Clients : WF_vars(Caller(c)) /\ SF_vars(Connect(c))

-----------------------------------------------------------------------------
(* Properties *)

(***************************************************************************)
(* A service is at the path as long as it takes commands: no other process *)
(* removes or takes over its file, neither one that starts at the same     *)
(* time nor a predecessor that is about to end, and the file of one that   *)
(* died is not in its way.  setPath() and close() do not see to that: the  *)
(* lock of main() does.  Only a service whose own socket(), bind() or      *)
(* listen() failed, with nothing in the way, runs without a path.          *)
(***************************************************************************)
ServedAtPath == \A p \in Programs : Looping(p) /\ p \notin failed => file = p /\ p \in bound

(***************************************************************************)
(* A client is told the truth, through the end of the service: "true" if   *)
(* its command was carried out, "false" or the end of the connection if    *)
(* not.  Only who loses the service to a crash cannot know.                *)
(***************************************************************************)
AnswerIsRight ==
    \A u \in Clients :
        /\ answer[u] = "true" => <<u, calls[u]>> \in done
        /\ answer[u] \in {"false", "closed"} => <<u, calls[u]>> \notin done

(***************************************************************************)
(* sendCmd() waits without a time limit.  It returns all the same, and so  *)
(* does whatever program asks for the service, whether that answers,       *)
(* refuses, ends or dies.                                                  *)
(***************************************************************************)
InCall(u) == pc[u] \in CallPc
CallsReturn == \A u \in Users : InCall(u) ~> ~ InCall(u)
=============================================================================
