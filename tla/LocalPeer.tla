----------------------------- MODULE LocalPeer ------------------------------
(***************************************************************************)
(* QtSingleApplication and QtLocalPeer: of the processes started for one   *)
(* program in one session, the one that gets the write lock of the lock    *)
(* file is the running instance; it listens on a local socket, and the     *)
(* others may send it messages before they exit.                           *)
(*                                                                         *)
(* The lock is RWLock, which LockedFile implements.  A connection is a     *)
(* record in the inbox of the server it reached.  A client that waits may  *)
(* time out at any time; its message stays in the inbox.                   *)
(*                                                                         *)
(* The destructor of QtLocalPeer releases the lock (a member) before it    *)
(* closes the server (a child object): "unlocked".                         *)
(*                                                                         *)
(* On Unix the local socket has a file in the directory for temporary      *)
(* files.  Binding fails if there is one, closing a server removes what is *)
(* there, and a process that dies leaves it.                               *)
(***************************************************************************)
EXTENDS Naturals, Sequences, FiniteSets

CONSTANTS
    Procs,      \* the processes
    MaxSends,   \* bound: messages of each process, over all its lives
    Mortals,    \* processes that may die anywhere
    Adversity   \* what may go wrong or be done besides

Adversities ==
    { "stall",      \* a client stops for 2 s in the middle of its message
      "openFails",  \* the lock file cannot be opened
      "reinit" }    \* the running instance calls ReInit()

ASSUME SendsAssumption == MaxSends \in [Procs -> Nat]
ASSUME ProcsAssumption == "none" \notin Procs
ASSUME AdversityAssumption == Adversity \subseteq Adversities /\ Mortals \subseteq Procs

VARIABLES
    pc,         \* where the main thread of each process is
    opened,     \* the lock file is open
    held,       \* the lock each process has
    unix,       \* the build; chosen at the beginning
    path,       \* whose socket the file leads to
    listening,  \* the processes with a listening server
    inbox,      \* inbox[q]: the connections to q, the one q serves first
    sent,       \* sendMessage() calls so far
    acks,       \* the messages a server acknowledged
    returned,   \* the messages whose sendMessage() returned true
    emitted     \* the messages of messageReceived(), in order

lockVars == <<opened, held>>
fileVars == <<unix, path>>
msgVars  == <<sent, acks, returned, emitted>>
vars == <<pc, lockVars, fileVars, listening, inbox, msgVars>>

Lock == INSTANCE RWLock WITH Session <- [p \in Procs |-> 0]

Messages == UNION {[from : {p}, n : 1..MaxSends[p]] : p \in Procs}
Data     == {"none", "part", "all"}
Connections == [msg : Messages, data : Data, open : BOOLEAN]

\* Of the running instance.
Serving == {"header", "body", "answer", "emit"}
RunningPc == {"listen", "listenAgain", "running", "reinit", "reLock"} \cup Serving
\* Of an instance that found another one.
Sending == {"connect", "write", "rest", "await"}
Pc == {"down", "isClient", "unlocked", "client", "sendLock"} \cup RunningPc \cup Sending

\* isRunning() returned false and the process has not left main().
Running(p) == pc[p] \in RunningPc

\* p takes messages.
Serves(p) == p \in listening /\ pc[p] \in {"running"} \cup Serving

\* The message p sends.
Msg(p) == [from |-> p, n |-> sent[p]]

TypeOK ==
    /\ pc \in [Procs -> Pc]
    /\ opened \in [Procs -> BOOLEAN]
    /\ held \in [Procs -> Lock!Modes]
    /\ unix \in BOOLEAN /\ path \in Procs \cup {"none"}
    /\ listening \in SUBSET Procs
    /\ inbox \in [Procs -> Seq(Connections)]
    /\ sent \in [Procs -> Nat] /\ \A p \in Procs : sent[p] <= MaxSends[p]
    /\ acks \in SUBSET Messages /\ returned \in SUBSET Messages
    /\ emitted \in Seq([msg : Messages, whole : BOOLEAN])

Init ==
    /\ pc = [p \in Procs |-> "down"]
    /\ opened = [p \in Procs |-> FALSE]
    /\ Lock!Init
    /\ unix \in BOOLEAN /\ path = "none"
    /\ listening = {}
    /\ inbox = [p \in Procs |-> << >>]
    /\ sent = [p \in Procs |-> 0]
    /\ acks = {} /\ returned = {} /\ emitted = << >>

Goes(p, from, to) == pc[p] = from /\ pc' = [pc EXCEPT ![p] = to]

\* p's connection, wherever it is, holds data d, or is closed by p.
Wrote(p, d) ==
    inbox' = [q \in Procs |-> [i \in DOMAIN inbox[q] |->
                IF inbox[q][i].msg = Msg(p) THEN [inbox[q][i] EXCEPT !.data = d]
                                            ELSE inbox[q][i]]]

Closed(p, from) ==
    inbox' = [q \in Procs |-> [i \in DOMAIN from[q] |->
                IF from[q][i].msg.from = p THEN [from[q][i] EXCEPT !.open = FALSE]
                                           ELSE from[q][i]]]

-----------------------------------------------------------------------------
(* Start, isClient() and end of an instance *)

\* QtSingleApplication(): sysInit() opens the lock file and ignores a failure.
Start(p) ==
    /\ Goes(p, "down", "isClient")
    /\ \E ok \in {TRUE} \cup (IF "openFails" \in Adversity THEN {FALSE} ELSE {}) :
          opened' = [opened EXCEPT ![p] = ok]
    /\ UNCHANGED <<held, fileVars, listening, inbox, msgVars>>

\* Mutant: isClient() goes by the socket and not by the lock.
isClient_socket(p, from, client) ==
    \/ /\ listening = {} /\ Goes(p, from, "listen")
       /\ UNCHANGED <<lockVars, fileVars, listening, inbox, msgVars>>
    \/ /\ listening # {} /\ Goes(p, from, client)
       /\ UNCHANGED <<lockVars, fileVars, listening, inbox, msgVars>>

(***************************************************************************)
(* isClient() of an object without the lock: lock(WriteLock, false).       *)
(***************************************************************************)
isClient(p, from, client) ==
    \/ /\ opened[p] /\ Lock!AcquireWrite(p)
       /\ Goes(p, from, "listen")
       /\ UNCHANGED <<opened, fileVars, listening, inbox, msgVars>>
    \/ /\ ~ opened[p] \/ \E q \in Procs \ {p} : held[q] # "NoLock"
       /\ Goes(p, from, client)
       /\ UNCHANGED <<lockVars, fileVars, listening, inbox, msgVars>>

\* isRunning(): true makes a client of the process.
isRunning(p) == isClient(p, "isClient", "client")

\* server->listen(socketName) of p: it may fail, and does if the file is there.
Bind(p) ==
    \/ /\ path = "none"
       /\ path' = IF unix THEN p ELSE path
       /\ listening' = listening \cup {p}
    \/ UNCHANGED <<path, listening>>

(***************************************************************************)
(* isClient() goes on to listen; on Unix it removes a file that is in the  *)
(* way and tries again.  A failure is only logged.                         *)
(***************************************************************************)
Listen(p) ==
    /\ \/ Goes(p, "listen", "running") /\ Bind(p)
       \/ Goes(p, "listen", "listenAgain") /\ path # "none"
          /\ path' = "none" /\ UNCHANGED listening
       \/ Goes(p, "listenAgain", "running") /\ Bind(p)
    /\ UNCHANGED <<lockVars, unix, inbox, msgVars>>

\* A client leaves main(), the running instance leaves its event loop.
ExitClient(p) ==
    /\ Goes(p, "client", "down")
    /\ opened' = [opened EXCEPT ![p] = FALSE]
    /\ UNCHANGED <<held, fileVars, listening, inbox, msgVars>>

ReleaseLock(p) == IF held[p] # "NoLock" THEN Lock!Release(p) ELSE UNCHANGED held

\* Mutant: the server is forgotten.
CloseServer_forgets(p) ==
    /\ UNCHANGED <<listening, path>>
    /\ inbox' = [inbox EXCEPT ![p] = << >>]

\* The file is removed, whoever bound it.
CloseServer(p) ==
    /\ path' = IF p \in listening THEN "none" ELSE path
    /\ listening' = listening \ {p}
    /\ inbox' = [inbox EXCEPT ![p] = << >>]

Exit(p) ==
    /\ Goes(p, "running", "unlocked")
    /\ ReleaseLock(p)
    /\ opened' = [opened EXCEPT ![p] = FALSE]
    /\ UNCHANGED <<fileVars, listening, inbox, msgVars>>

Exited(p) ==
    /\ Goes(p, "unlocked", "down")
    /\ CloseServer(p)
    /\ UNCHANGED <<lockVars, unix, msgVars>>

\* ReInit(): delete peer; sysInit(); isRunning(), whose result is not used.
ReInit(p) ==
    /\ "reinit" \in Adversity
    /\ Goes(p, "running", "reinit")
    /\ ReleaseLock(p)
    /\ UNCHANGED <<opened, fileVars, listening, inbox, msgVars>>

ReInitPeer(p) ==
    /\ Goes(p, "reinit", "reLock")
    /\ CloseServer(p)
    /\ UNCHANGED <<lockVars, unix, msgVars>>

ReInitLock(p) == isClient(p, "reLock", "running")

Crash(p) ==
    /\ p \in Mortals /\ pc[p] # "down"
    /\ pc' = [pc EXCEPT ![p] = "down"]
    /\ opened' = [opened EXCEPT ![p] = FALSE]
    /\ ReleaseLock(p)
    /\ listening' = listening \ {p}
    /\ Closed(p, [inbox EXCEPT ![p] = << >>])
    /\ UNCHANGED <<fileVars, msgVars>>

-----------------------------------------------------------------------------
(* sendMessage() of a client *)

\* Mutant: two messages of a process look the same.
SendMessage_same(p) ==
    /\ sent[p] < MaxSends[p]
    /\ Goes(p, "client", "sendLock")
    /\ UNCHANGED <<lockVars, fileVars, listening, inbox, msgVars>>

SendMessage(p) ==
    /\ sent[p] < MaxSends[p]
    /\ Goes(p, "client", "sendLock")
    /\ sent' = [sent EXCEPT ![p] = @ + 1]
    /\ UNCHANGED <<lockVars, fileVars, listening, inbox, acks, returned, emitted>>

\* isClient() again: if the running instance is gone, this is the next one.
SendLock(p) == isClient(p, "sendLock", "connect")

Connect(p) ==
    /\ Goes(p, "connect", "write")
    /\ \E q \in listening :
          /\ unix => path = q
          /\ inbox' = [inbox EXCEPT ![q] = Append(@, [msg |-> Msg(p), data |-> "none", open |-> TRUE])]
    /\ UNCHANGED <<lockVars, fileVars, listening, msgVars>>

\* A long message goes in several parts.
Write(p) ==
    /\ \E d \in {"part", "all"} :
          /\ Goes(p, "write", IF d = "all" THEN "await" ELSE "rest")
          /\ Wrote(p, d)
    /\ UNCHANGED <<lockVars, fileVars, listening, msgVars>>

WriteRest(p) ==
    /\ Goes(p, "rest", "await")
    /\ Wrote(p, "all")
    /\ UNCHANGED <<lockVars, fileVars, listening, msgVars>>

\* The ack is there in time.
GotAck(p) ==
    /\ Msg(p) \in acks
    /\ Goes(p, "await", "client")
    /\ returned' = returned \cup {Msg(p)}
    /\ Closed(p, inbox)
    /\ UNCHANGED <<lockVars, fileVars, listening, sent, acks, emitted>>

\* Mutant: the socket is given up before anything was written.
TimedOut_early(p) ==
    /\ \E s \in {"connect", "write", "rest", "await"} : Goes(p, s, "client")
    /\ Closed(p, inbox)
    /\ UNCHANGED <<lockVars, fileVars, listening, msgVars>>

\* waitForConnected, waitForBytesWritten or waitForReadyRead returns false.
TimedOut(p) ==
    /\ \E s \in {"connect", "rest", "await"} : Goes(p, s, "client")
    /\ Closed(p, inbox)
    /\ UNCHANGED <<lockVars, fileVars, listening, msgVars>>

-----------------------------------------------------------------------------
(* receiveConnection() of the running instance *)

\* Mutant: the last connection first.
NextConnection_last(q) ==
    /\ inbox[q] # << >>
    /\ Goes(q, "running", "header")
    /\ inbox' = [inbox EXCEPT ![q] = <<@[Len(@)]>> \o SubSeq(@, 1, Len(@) - 1)]
    /\ UNCHANGED <<lockVars, fileVars, listening, msgVars>>

NextConnection(q) ==
    /\ inbox[q] # << >>
    /\ Goes(q, "running", "header")
    /\ UNCHANGED <<lockVars, fileVars, listening, inbox, msgVars>>

\* The loop for the four bytes of the length has no way out but these bytes.
ReadHeader(q) ==
    /\ Goes(q, "header", "body")
    /\ Head(inbox[q]).data # "none"
    /\ UNCHANGED <<lockVars, fileVars, listening, inbox, msgVars>>

\* Mutant: what has arrived is read once.
ReadBody_once(q) ==
    /\ Goes(q, "body", "answer")
    /\ UNCHANGED <<lockVars, fileVars, listening, inbox, msgVars>>

\* The message is read until it is complete, or nothing has come for 2 s, or
\* the client has gone.
ReadBody(q) ==
    /\ Goes(q, "body", "answer")
    /\ \/ Head(inbox[q]).data = "all"
       \/ ~ Head(inbox[q]).open
       \/ "stall" \in Adversity
    /\ UNCHANGED <<lockVars, fileVars, listening, inbox, msgVars>>

\* got < 0: a read finds the client gone and nothing left to read.  What came
\* of the message is discarded, without an ack.
Discard(q) ==
    /\ Goes(q, "body", "running")
    /\ Head(inbox[q]).data # "all" /\ ~ Head(inbox[q]).open
    /\ inbox' = [inbox EXCEPT ![q] = Tail(@)]
    /\ UNCHANGED <<lockVars, fileVars, listening, msgVars>>

Answer(q) ==
    LET c == Head(inbox[q]) IN
    /\ Goes(q, "answer", "emit")
    /\ acks' = IF c.open THEN acks \cup {c.msg} ELSE acks
    /\ UNCHANGED <<lockVars, fileVars, listening, inbox, sent, returned, emitted>>

\* emit messageReceived(), after delete socket
Emit(q) ==
    LET c == Head(inbox[q]) IN
    /\ Goes(q, "emit", "running")
    /\ emitted' = Append(emitted, [msg |-> c.msg, whole |-> c.data = "all"])
    /\ inbox' = [inbox EXCEPT ![q] = Tail(@)]
    /\ UNCHANGED <<lockVars, fileVars, listening, sent, acks, returned>>

-----------------------------------------------------------------------------
Receive(q) ==
    NextConnection(q) \/ ReadHeader(q) \/ ReadBody(q) \/ Discard(q) \/ Answer(q) \/ Emit(q)

Send(p) == SendLock(p) \/ Connect(p) \/ Write(p) \/ WriteRest(p) \/ GotAck(p) \/ TimedOut(p)

Instance(p) ==
    isRunning(p) \/ Listen(p) \/ Exited(p) \/ ReInitPeer(p) \/ ReInitLock(p)

Next == \E p \in Procs :
    \/ Instance(p) \/ Send(p) \/ Receive(p)
    \/ Start(p) \/ SendMessage(p) \/ ExitClient(p) \/ Exit(p) \/ ReInit(p) \/ Crash(p)

Spec == Init /\ [][Next]_vars

\* Processes run on; nobody need start one, send a message or exit.
FairSpec ==
    Spec /\ \A p \in Procs : WF_vars(Instance(p)) /\ WF_vars(Send(p)) /\ WF_vars(Receive(p))

-----------------------------------------------------------------------------
(* Properties *)

(***************************************************************************)
(* "only one instance should be running at a time"                         *)
(* (qtsingleapplication.cpp:52), through simultaneous starts, exits and    *)
(* crashes, and when a client finds the running instance gone.             *)
(***************************************************************************)
AtMostOneRunning == \A p, q \in Procs : Running(p) /\ Running(q) => p = q

(***************************************************************************)
(* A message for which sendMessage() returns true is emitted whole, when   *)
(* it is emitted, although a server takes what it has when a client gives  *)
(* up.  (A client that stalls for 2 s in the middle is excluded.)          *)
(***************************************************************************)
TrueMeansWhole ==
    \A i \in DOMAIN emitted : emitted[i].msg \in returned => emitted[i].whole

(***************************************************************************)
(* No message is emitted twice, and those of one client are emitted in the *)
(* order in which it sent them, also when it gave up on the earlier ones.  *)
(***************************************************************************)
InOrder ==
    \A i, j \in DOMAIN emitted :
        i < j /\ emitted[i].msg.from = emitted[j].msg.from
            => emitted[i].msg.n < emitted[j].msg.n

(***************************************************************************)
(* Seen from outside, the processes, their sockets and their lock are the  *)
(* message delivery of QtSingleApplication.  (As for TrueMeansWhole, no    *)
(* client stalls for 2 s in the middle of a message.)                      *)
(***************************************************************************)
Delivery == INSTANCE MessageDelivery WITH Senders <- Procs
DeliverySpec == Delivery!Spec

(***************************************************************************)
(* Nobody hangs in a call of another: receiveConnection() returns,         *)
(* whatever its clients give up on, and sendMessage() returns, also when   *)
(* the running instance does not serve.                                    *)
(***************************************************************************)
InSend == Sending \cup {"sendLock"}
PeersReturn ==
    \A p \in Procs :
        /\ (pc[p] \in Serving) ~> (pc[p] \notin Serving)
        /\ (pc[p] \in InSend) ~> (pc[p] \notin InSend)

(***************************************************************************)
(* Messages go to one instance: also when ReInit() gave the lock away and  *)
(* does not look whether it got it back, an instance that lost it listens  *)
(* no more.                                                                *)
(***************************************************************************)
OneServes == \A p, q \in Procs : Serves(p) /\ Serves(q) => p = q

(***************************************************************************)
(* On Unix, the workaround that removes a stale socket file never takes    *)
(* the file of an instance that serves.  Only a predecessor does that,     *)
(* which has released the lock and closes its server late.                 *)
(***************************************************************************)
SocketFileKept ==
    [][\A p \in Procs :
          path = p /\ Serves(p) /\ p \in listening' /\ path' # p
              => \E q \in Procs \ {p} : pc[q] \in {"unlocked", "reinit"} /\ pc'[q] # pc[q]]_vars

-----------------------------------------------------------------------------
(***************************************************************************)
(* What messageReceived() emits is what a client sent.                     *)
(***************************************************************************)
WholeMessages == \A i \in DOMAIN emitted : emitted[i].whole
=============================================================================
