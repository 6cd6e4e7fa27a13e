------------------------- MODULE LocalPeerMsgProofs --------------------------
(***************************************************************************)
(* The messages of LocalPeer, for every number of processes and messages:  *)
(* they are emitted in the order in which their clients sent them, none    *)
(* twice, and those reported as sent are whole.                            *)
(***************************************************************************)
EXTENDS LocalPeerProofs, SequenceTheorems

\* TypeOK but for the messages; a client in sendMessage() has a message.
PlainTypes ==
    /\ pc \in [Procs -> Pc]
    /\ opened \in [Procs -> BOOLEAN]
    /\ held \in [Procs -> Lock!Modes]
    /\ unix \in BOOLEAN /\ path \in Procs \cup {"none"}
    /\ listening \in SUBSET Procs
    /\ sent \in [Procs -> Nat] /\ \A p \in Procs : sent[p] <= MaxSends[p]
    /\ \A p \in Procs : pc[p] \in InSend => sent[p] # 0

MsgTypes ==
    /\ inbox \in [Procs -> Seq(Connections)]
    /\ acks \in SUBSET Messages /\ returned \in SUBSET Messages
    /\ emitted \in Seq([msg : Messages, whole : BOOLEAN])

\* Only a server that has not been closed has connections, and it has the one it serves.
Placed ==
    \A q \in Procs :
        /\ inbox[q] # << >> => q \in listening
        /\ q \in listening => pc[q] \in Bound \cup {"unlocked", "reinit"}
        /\ pc[q] \in Serving => inbox[q] # << >>

-----------------------------------------------------------------------------
(* Types *)

LEMMA MessageFields ==
    ASSUME NEW m \in Messages
    PROVE  m.from \in Procs /\ m.n \in Nat /\ m = [from |-> m.from, n |-> m.n]
BY SendsAssumption DEF Messages

LEMMA MsgFields ==
    ASSUME PlainTypes, NEW p \in Procs
    PROVE  /\ Msg(p).from = p /\ Msg(p).n = sent[p] /\ sent[p] \in Nat
           /\ pc[p] \in InSend => Msg(p) \in Messages
<1>1. sent[p] \in Nat /\ MaxSends[p] \in Nat /\ sent[p] <= MaxSends[p]
    BY SendsAssumption DEF PlainTypes
<1>2. ASSUME pc[p] \in InSend  PROVE Msg(p) \in Messages
    <2>1. sent[p] \in 1..MaxSends[p]
        BY <1>1, <1>2 DEF PlainTypes
    <2>2. Msg(p) \in [from : {p}, n : 1..MaxSends[p]]
        BY <2>1 DEF Msg
    <2> QED
        BY <2>2 DEF Messages
<1> QED
    BY <1>1, <1>2 DEF Msg

LEMMA LockTypes ==
    ASSUME PlainTypes, NEW p \in Procs,
           ReleaseLock(p) \/ Lock!AcquireWrite(p) \/ held' = held
    PROVE  held' \in [Procs -> Lock!Modes]
BY DEF PlainTypes, ReleaseLock, Lock!Release, Lock!AcquireWrite, Lock!Modes

\* A process moves, and what else changes keeps its type.
LEMMA PlainMove ==
    ASSUME PlainTypes, NEW p \in Procs, NEW t \in Pc, pc' = [pc EXCEPT ![p] = t],
           opened' \in [Procs -> BOOLEAN], held' \in [Procs -> Lock!Modes],
           unix' = unix, path' \in Procs \cup {"none"}, listening' \in SUBSET Procs,
           sent' = sent, t \in InSend => pc[p] \in InSend
    PROVE  PlainTypes'
BY DEF PlainTypes

LEMMA PlainNext ==
    ASSUME PlainTypes, Next
    PROVE  PlainTypes'
<1> PICK p \in Procs : \/ Instance(p) \/ Send(p) \/ Receive(p)
                       \/ Start(p) \/ SendMessage(p) \/ ExitClient(p) \/ Exit(p) \/ ReInit(p)
                       \/ Crash(p)
    BY DEF Next
<1>1. CASE isRunning(p) \/ SendLock(p) \/ ReInitLock(p)
    <2>1. PICK t \in {"listen", "client", "connect", "running"} :
             pc' = [pc EXCEPT ![p] = t] /\ (t = "connect" => pc[p] = "sendLock")
        BY <1>1 DEF isRunning, SendLock, ReInitLock, isClient, Goes
    <2>2. UNCHANGED <<opened, unix, path, listening, sent>>
        BY <1>1 DEF isRunning, SendLock, ReInitLock, isClient, lockVars, fileVars, msgVars
    <2>3. held' \in [Procs -> Lock!Modes]
        BY <1>1, LockTypes DEF isRunning, SendLock, ReInitLock, isClient, lockVars
    <2> QED
        BY <2>1, <2>2, <2>3, PlainMove DEF PlainTypes, InSend, Sending, Pc, RunningPc
<1>2. CASE Listen(p)
    <2>1. PICK t \in {"running", "listenAgain"} : pc' = [pc EXCEPT ![p] = t]
        BY <1>2 DEF Listen, Goes
    <2>2. /\ UNCHANGED <<opened, held, unix, sent>>
          /\ listening' \in SUBSET Procs /\ path' \in Procs \cup {"none"}
        BY <1>2 DEF Listen, Bind, lockVars, msgVars, PlainTypes
    <2> QED
        BY <2>1, <2>2, PlainMove DEF PlainTypes, InSend, Sending, Pc, RunningPc
<1>3. CASE Exited(p) \/ ReInitPeer(p)
    <2>1. PICK t \in {"down", "reLock"} : pc' = [pc EXCEPT ![p] = t]
        BY <1>3 DEF Exited, ReInitPeer, Goes
    <2>2. /\ UNCHANGED <<opened, held, unix, sent>>
          /\ listening' \in SUBSET Procs /\ path' \in Procs \cup {"none"}
        BY <1>3 DEF Exited, ReInitPeer, CloseServer, lockVars, msgVars, PlainTypes
    <2> QED
        BY <2>1, <2>2, PlainMove DEF PlainTypes, InSend, Sending, Pc, RunningPc
<1>4. CASE Connect(p) \/ Write(p) \/ WriteRest(p) \/ GotAck(p) \/ TimedOut(p)
    <2>1. PICK t \in {"write", "await", "rest", "client"} :
             pc' = [pc EXCEPT ![p] = t] /\ pc[p] \in InSend
        BY <1>4 DEF Connect, Write, WriteRest, GotAck, TimedOut, Goes, InSend, Sending
    <2>2. UNCHANGED <<opened, held, unix, path, listening, sent>>
        BY <1>4 DEF Connect, Write, WriteRest, GotAck, TimedOut, lockVars, fileVars, msgVars
    <2> QED
        BY <2>1, <2>2, PlainMove DEF PlainTypes, InSend, Sending, Pc
<1>5. CASE Receive(p)
    <2>1. PICK t \in Bound : pc' = [pc EXCEPT ![p] = t]
        BY <1>5 DEF Receive, NextConnection, ReadHeader, ReadBody, Discard, Answer, Emit, Goes, Bound, Serving
    <2>2. UNCHANGED <<opened, held, unix, path, listening, sent>>
        BY <1>5 DEF Receive, NextConnection, ReadHeader, ReadBody, Discard, Answer, Emit, lockVars,
                    fileVars, msgVars
    <2> QED
        BY <2>1, <2>2, PlainMove DEF PlainTypes, InSend, Sending, Pc, RunningPc, Bound, Serving
<1>6. CASE SendMessage(p)
    <2>1. pc' = [pc EXCEPT ![p] = "sendLock"] /\ "sendLock" \in Pc
        BY <1>6 DEF SendMessage, Goes, Pc
    <2>2. /\ UNCHANGED <<opened, held, unix, path, listening>>
          /\ sent' = [sent EXCEPT ![p] = @ + 1] /\ sent[p] < MaxSends[p]
        BY <1>6 DEF SendMessage, lockVars, fileVars
    <2>3. sent[p] \in Nat /\ MaxSends[p] \in Nat /\ sent' \in [Procs -> Nat]
        <3>1. sent \in [Procs -> Nat] /\ MaxSends \in [Procs -> Nat]
            BY SendsAssumption DEF PlainTypes
        <3>2. sent[p] \in Nat /\ MaxSends[p] \in Nat /\ sent[p] + 1 \in Nat
            BY <3>1
        <3> QED
            BY <2>2, <3>1, <3>2
    <2>4. ASSUME NEW q \in Procs
          PROVE  sent'[q] <= MaxSends[q] /\ (pc'[q] \in InSend => sent'[q] # 0)
        BY <2>1, <2>2, <2>3 DEF PlainTypes
    <2> QED
        BY <2>1, <2>2, <2>3, <2>4 DEF PlainTypes
<1>7. CASE Start(p) \/ ExitClient(p) \/ Exit(p) \/ ReInit(p) \/ Crash(p)
    <2>1. PICK t \in {"isClient", "down", "unlocked", "reinit"} : pc' = [pc EXCEPT ![p] = t]
        BY <1>7 DEF Start, ExitClient, Exit, ReInit, Crash, Goes
    <2>2. /\ UNCHANGED <<unix, path, sent>> /\ listening' \in SUBSET Procs
          /\ opened' \in [Procs -> BOOLEAN]
        BY <1>7 DEF Start, ExitClient, Exit, ReInit, Crash, fileVars, msgVars, PlainTypes
    <2>3. held' \in [Procs -> Lock!Modes]
        BY <1>7, LockTypes DEF Start, ExitClient, Exit, ReInit, Crash
    <2> QED
        BY <2>1, <2>2, <2>3, PlainMove DEF PlainTypes, InSend, Sending, Pc, RunningPc
<1> QED
    BY <1>1, <1>2, <1>3, <1>4, <1>5, <1>6, <1>7 DEF Instance, Send

\* What a connection's peer sees of a write, or of the end of a process.
LEMMA WroteKeeps ==
    ASSUME inbox \in [Procs -> Seq(Connections)], NEW p \in Procs, NEW d \in Data, Wrote(p, d),
           NEW q \in Procs
    PROVE  /\ inbox'[q] \in Seq(Connections) /\ Len(inbox'[q]) = Len(inbox[q])
           /\ \A i \in 1..Len(inbox[q]) :
                 inbox'[q][i] = IF inbox[q][i].msg = Msg(p) THEN [inbox[q][i] EXCEPT !.data = d]
                                                           ELSE inbox[q][i]
<1>1. inbox[q] \in Seq(Connections) /\ DOMAIN inbox[q] = 1..Len(inbox[q])
    OBVIOUS
<1>2. inbox'[q] = [i \in 1..Len(inbox[q]) |->
                     IF inbox[q][i].msg = Msg(p) THEN [inbox[q][i] EXCEPT !.data = d]
                                                 ELSE inbox[q][i]]
    BY <1>1 DEF Wrote
<1>3. ASSUME NEW i \in 1..Len(inbox[q])
      PROVE  inbox'[q][i] \in Connections
    <2>1. inbox[q][i] \in Connections
        BY <1>1
    <2> QED
        BY <1>2, <2>1 DEF Connections
<1> QED
    BY <1>1, <1>2, <1>3

LEMMA ClosedKeeps ==
    ASSUME NEW from \in [Procs -> Seq(Connections)], NEW p \in Procs, Closed(p, from), NEW q \in Procs
    PROVE  /\ inbox'[q] \in Seq(Connections) /\ Len(inbox'[q]) = Len(from[q])
           /\ \A i \in 1..Len(from[q]) :
                 inbox'[q][i] = IF from[q][i].msg.from = p THEN [from[q][i] EXCEPT !.open = FALSE]
                                                          ELSE from[q][i]
<1>1. from[q] \in Seq(Connections) /\ DOMAIN from[q] = 1..Len(from[q])
    OBVIOUS
<1>2. inbox'[q] = [i \in 1..Len(from[q]) |->
                     IF from[q][i].msg.from = p THEN [from[q][i] EXCEPT !.open = FALSE]
                                                ELSE from[q][i]]
    BY <1>1 DEF Closed
<1>3. ASSUME NEW i \in 1..Len(from[q])
      PROVE  inbox'[q][i] \in Connections
    <2>1. from[q][i] \in Connections
        BY <1>1
    <2> QED
        BY <1>2, <2>1 DEF Connections
<1> QED
    BY <1>1, <1>2, <1>3

\* A server is closed, or its connections stay but for what their clients write.
Kept(q) ==
    \/ inbox'[q] = << >> /\ q \notin listening' /\ pc'[q] \notin Serving
    \/ /\ q \in listening => q \in listening'
       /\ Len(inbox'[q]) = Len(inbox[q])
       /\ \A i \in 1..Len(inbox[q]) :
             /\ inbox'[q][i].msg = inbox[q][i].msg
             /\ inbox'[q][i].open => inbox[q][i].open
             /\ inbox'[q][i].data # inbox[q][i].data =>
                   \E p \in Procs :
                      /\ inbox[q][i].msg = Msg(p) /\ pc'[p] # "write"
                      /\ pc[p] = "write" \/ inbox'[q][i].data = "all"

Quiet(p) ==
    \/ isRunning(p) \/ Listen(p) \/ Exited(p) \/ ReInitPeer(p) \/ ReInitLock(p)
    \/ SendLock(p) \/ Write(p) \/ WriteRest(p) \/ GotAck(p) \/ TimedOut(p)
    \/ NextConnection(p) \/ ReadHeader(p) \/ ReadBody(p)
    \/ Start(p) \/ ExitClient(p) \/ Exit(p) \/ ReInit(p) \/ Crash(p)

LEMMA QuietKeeps ==
    ASSUME PlainTypes, MsgTypes, NEW p \in Procs, Quiet(p)
    PROVE  /\ inbox' \in [Procs -> Seq(Connections)] /\ \A q \in Procs : Kept(q)
           /\ UNCHANGED <<sent, acks, emitted>>
<1>1. inbox \in [Procs -> Seq(Connections)]
    BY DEF MsgTypes
<1>2. CASE UNCHANGED inbox /\ ~ (Exited(p) \/ ReInitPeer(p) \/ Crash(p))
    <2>1. UNCHANGED <<sent, acks, emitted>>
        BY DEF Quiet, isRunning, isClient, Listen, Exited, ReInitPeer, ReInitLock, SendLock, Write,
               WriteRest, GotAck, TimedOut, NextConnection, ReadHeader, ReadBody, Start, ExitClient,
               Exit, ReInit, Crash, msgVars
    <2>2. listening \subseteq listening'
        BY <1>2 DEF Quiet, isRunning, isClient, Listen, Bind, ReInitLock, SendLock, Write,
               WriteRest, GotAck, TimedOut, NextConnection, ReadHeader, ReadBody, Start, ExitClient,
               Exit, ReInit
    <2> QED
        BY <1>1, <1>2, <2>1, <2>2 DEF Kept
<1>3. CASE Exited(p) \/ ReInitPeer(p)
    <2>1. inbox' = [inbox EXCEPT ![p] = << >>] /\ << >> \in Seq(Connections)
        BY <1>3 DEF Exited, ReInitPeer, CloseServer
    <2>2. inbox' \in [Procs -> Seq(Connections)]
        BY <1>1, <2>1
    <2>3. \A q \in Procs \ {p} : inbox'[q] = inbox[q] /\ (q \in listening => q \in listening')
        BY <1>1, <1>3, <2>1 DEF Exited, ReInitPeer, CloseServer
    <2>4. inbox'[p] = << >> /\ p \notin listening' /\ pc'[p] \notin Serving
        BY <1>1, <1>3, <2>1 DEF Exited, ReInitPeer, CloseServer, Goes, PlainTypes, Serving
    <2> QED
        BY <1>3, <2>2, <2>3, <2>4 DEF Exited, ReInitPeer, msgVars, Kept
<1>4. CASE Write(p) \/ WriteRest(p)
    <2>1. PICK d \in {"part", "all"} :
             Wrote(p, d) /\ (d = "all" \/ pc[p] = "write") /\ pc'[p] # "write" /\ listening' = listening
        BY <1>4 DEF Write, WriteRest, Goes, PlainTypes
    <2>2. d \in Data
        BY DEF Data
    <2>3. inbox' \in [Procs -> Seq(Connections)]
        <3>1. inbox' = [q \in Procs |-> inbox'[q]]
            BY <2>1 DEF Wrote
        <3> QED
            BY <1>1, <2>1, <2>2, <3>1, WroteKeeps
    <2>4. ASSUME NEW q \in Procs  PROVE Kept(q)
        <3>1. ASSUME NEW i \in 1..Len(inbox[q])
              PROVE  /\ inbox'[q][i].msg = inbox[q][i].msg
                     /\ inbox'[q][i].open => inbox[q][i].open
                     /\ inbox'[q][i].data # inbox[q][i].data =>
                           inbox'[q][i].data = d /\ inbox[q][i].msg = Msg(p)
            <4>1. inbox[q][i] \in Connections
                BY <1>1
            <4>2. inbox'[q][i] = IF inbox[q][i].msg = Msg(p) THEN [inbox[q][i] EXCEPT !.data = d]
                                                             ELSE inbox[q][i]
                BY <1>1, <2>1, <2>2, WroteKeeps
            <4> QED
                BY <4>1, <4>2 DEF Connections
        <3>2. Len(inbox'[q]) = Len(inbox[q])
            BY <1>1, <2>1, <2>2, WroteKeeps
        <3> QED
            BY <2>1, <3>1, <3>2 DEF Kept
    <2> QED
        BY <1>4, <2>3, <2>4 DEF Write, WriteRest, msgVars
<1>5. CASE GotAck(p) \/ TimedOut(p) \/ Crash(p)
    <2>1. PICK from \in [Procs -> Seq(Connections)] :
             /\ Closed(p, from)
             /\ \A q \in Procs :
                   \/ from[q] = inbox[q] /\ (q \in listening => q \in listening')
                   \/ from[q] = << >> /\ q \notin listening' /\ pc'[q] \notin Serving
        <3>1. [inbox EXCEPT ![p] = << >>] \in [Procs -> Seq(Connections)]
            BY <1>1
        <3>2. CASE GotAck(p) \/ TimedOut(p)
            BY <1>1, <3>2 DEF GotAck, TimedOut
        <3>3. CASE Crash(p)
            BY <1>1, <3>1, <3>3 DEF Crash, PlainTypes, Serving
        <3> QED
            BY <1>5, <3>2, <3>3
    <2>2. inbox' \in [Procs -> Seq(Connections)]
        <3>1. inbox' = [q \in Procs |-> inbox'[q]]
            BY <2>1 DEF Closed
        <3> QED
            BY <2>1, <3>1, ClosedKeeps
    <2>3. ASSUME NEW q \in Procs  PROVE Kept(q)
        <3>1. /\ Len(inbox'[q]) = Len(from[q]) /\ inbox'[q] \in Seq(Connections)
              /\ \A i \in 1..Len(from[q]) :
                    inbox'[q][i] = IF from[q][i].msg.from = p
                                   THEN [from[q][i] EXCEPT !.open = FALSE] ELSE from[q][i]
            BY <2>1, ClosedKeeps
        <3>2. CASE from[q] = << >> /\ q \notin listening' /\ pc'[q] \notin Serving
            BY <3>1, <3>2 DEF Kept
        <3>3. CASE from[q] = inbox[q] /\ (q \in listening => q \in listening')
            <4>1. ASSUME NEW i \in 1..Len(inbox[q])
                  PROVE  /\ inbox'[q][i].msg = inbox[q][i].msg
                         /\ inbox'[q][i].open => inbox[q][i].open
                         /\ inbox'[q][i].data = inbox[q][i].data
                <5>1. inbox[q][i] \in Connections
                    BY <1>1
                <5>2. inbox'[q][i] = IF inbox[q][i].msg.from = p
                                     THEN [inbox[q][i] EXCEPT !.open = FALSE] ELSE inbox[q][i]
                    <6>1. i \in 1..Len(from[q])
                        BY <3>3
                    <6>2. inbox'[q][i] = IF from[q][i].msg.from = p
                                         THEN [from[q][i] EXCEPT !.open = FALSE] ELSE from[q][i]
                        BY <3>1, <6>1
                    <6> QED
                        BY <3>3, <6>2
                <5> QED
                    BY <5>1, <5>2 DEF Connections
            <4> QED
                BY <3>1, <3>3, <4>1 DEF Kept
        <3> QED
            BY <2>1, <3>2, <3>3
    <2> QED
        BY <1>5, <2>2, <2>3 DEF GotAck, TimedOut, Crash, msgVars
<1> QED
    BY <1>2, <1>3, <1>4, <1>5 DEF Quiet, isRunning, isClient, Listen, ReInitLock, SendLock,
        NextConnection, ReadHeader, ReadBody, Start, ExitClient, Exit, ReInit

LEMMA TypesNext ==
    ASSUME PlainTypes, MsgTypes, Placed, Next
    PROVE  MsgTypes'
<1> PICK p \in Procs : \/ Quiet(p) \/ SendMessage(p) \/ Connect(p) \/ Answer(p) \/ Emit(p) \/ Discard(p)
    BY DEF Next, Instance, Send, Receive, Quiet
<1> DEFINE Emissions == [msg : Messages, whole : BOOLEAN]
<1>0. /\ inbox \in [Procs -> Seq(Connections)] /\ acks \in SUBSET Messages
      /\ returned \in SUBSET Messages /\ emitted \in Seq(Emissions)
    BY DEF MsgTypes
<1>1. CASE Quiet(p)
    <2>1. /\ inbox' \in [Procs -> Seq(Connections)]
          /\ acks' = acks /\ emitted' = emitted
        BY <1>1, QuietKeeps
    <2>2. returned' = returned \/ (returned' = returned \cup {Msg(p)} /\ Msg(p) \in acks)
        BY <1>1 DEF Quiet, isRunning, isClient, Listen, Exited, ReInitPeer, ReInitLock, SendLock, Write,
               WriteRest, GotAck, TimedOut, NextConnection, ReadHeader, ReadBody, Start, ExitClient,
               Exit, ReInit, Crash, msgVars
    <2> QED
        BY <1>0, <2>1, <2>2 DEF MsgTypes
<1>2. CASE SendMessage(p)
    BY <1>0, <1>2 DEF SendMessage, MsgTypes
<1>3. CASE Connect(p)
    <2>1. PICK q \in listening :
             inbox' = [inbox EXCEPT ![q] = Append(@, [msg |-> Msg(p), data |-> "none", open |-> TRUE])]
        BY <1>3 DEF Connect
    <2>2. [msg |-> Msg(p), data |-> "none", open |-> TRUE] \in Connections
        BY <1>3, MsgFields DEF Connect, Goes, InSend, Sending, Connections, Data
    <2>3. q \in Procs /\ inbox[q] \in Seq(Connections)
        BY <1>0 DEF PlainTypes
    <2>4. Append(inbox[q], [msg |-> Msg(p), data |-> "none", open |-> TRUE]) \in Seq(Connections)
        BY <2>2, <2>3, AppendProperties
    <2>5. inbox' \in [Procs -> Seq(Connections)]
        BY <1>0, <2>1, <2>4
    <2> QED
        BY <1>0, <1>3, <2>5 DEF Connect, msgVars, MsgTypes
<1>4. CASE Answer(p) /\ inbox[p] # << >>
    <2>1. Head(inbox[p]) \in Connections
        BY <1>0, <1>4, HeadTailProperties
    <2>2. Head(inbox[p]).msg \in Messages
        BY <2>1 DEF Connections
    <2> QED
        BY <1>0, <1>4, <2>2 DEF Answer, MsgTypes
<1>5. CASE Emit(p) /\ inbox[p] # << >>
    <2>1. Head(inbox[p]) \in Connections /\ Tail(inbox[p]) \in Seq(Connections)
        BY <1>0, <1>5, HeadTailProperties
    <2> DEFINE e == [msg |-> Head(inbox[p]).msg, whole |-> Head(inbox[p]).data = "all"]
    <2>2. e \in Emissions
        BY <2>1 DEF Connections
    <2>3. emitted' = Append(emitted, e) /\ inbox' = [inbox EXCEPT ![p] = Tail(inbox[p])]
        BY <1>5 DEF Emit
    <2>4. emitted' \in Seq(Emissions)
        <3> HIDE DEF e, Emissions
        <3> QED
            BY <1>0, <2>2, <2>3, AppendProperties
    <2>5. inbox' \in [Procs -> Seq(Connections)]
        BY <1>0, <2>1, <2>3
    <2> QED
        BY <1>0, <1>5, <2>4, <2>5 DEF Emit, MsgTypes
<1>6. CASE Discard(p) /\ inbox[p] # << >>
    <2>1. Tail(inbox[p]) \in Seq(Connections)
        BY <1>0, <1>6, HeadTailProperties
    <2>2. inbox' = [inbox EXCEPT ![p] = Tail(inbox[p])] /\ UNCHANGED <<acks, returned, emitted>>
        BY <1>6 DEF Discard, msgVars
    <2>3. inbox' \in [Procs -> Seq(Connections)]
        BY <1>0, <2>1, <2>2
    <2> QED
        BY <1>0, <2>2, <2>3 DEF MsgTypes
<1> QED
    BY <1>1, <1>2, <1>3, <1>4, <1>5, <1>6 DEF Placed, Answer, Emit, Discard, Goes, Serving

-----------------------------------------------------------------------------
(* Where connections are *)

\* What the steps of Quiet do to the place of their process and to the servers.
LEMMA QuietMoves ==
    ASSUME PlainTypes, NEW p \in Procs, Quiet(p)
    PROVE  \E t \in Pc :
             /\ pc' = [pc EXCEPT ![p] = t]
             /\ t \in Serving => pc[p] \in Serving \/ inbox[p] # << >>
             /\ t \in Bound => pc[p] \notin {"unlocked", "reinit"}
             /\ t = "connect" => pc[p] = "sendLock"
             /\ t \notin {"sendLock", "write"}
             /\ p \in listening' /\ (p \in listening => pc[p] \in Bound \cup {"unlocked", "reinit"})
                   => t \in Bound \cup {"unlocked", "reinit"}
             /\ \A q \in Procs \ {p} : q \in listening' <=> q \in listening
<1> USE DEF PlainTypes, Pc, RunningPc, Serving, Sending, Bound, Goes
<1>1. CASE isRunning(p) \/ SendLock(p) \/ ReInitLock(p)
    BY <1>1 DEF isRunning, SendLock, ReInitLock, isClient
<1>2. CASE Listen(p)
    BY <1>2 DEF Listen, Bind
<1>3. CASE Exited(p) \/ ReInitPeer(p)
    BY <1>3 DEF Exited, ReInitPeer, CloseServer
<1>4. CASE Write(p) \/ WriteRest(p) \/ GotAck(p) \/ TimedOut(p)
    BY <1>4 DEF Write, WriteRest, GotAck, TimedOut
<1>5. CASE NextConnection(p) \/ ReadHeader(p) \/ ReadBody(p)
    BY <1>5 DEF NextConnection, ReadHeader, ReadBody
<1>6. CASE Start(p) \/ ExitClient(p) \/ Exit(p) \/ ReInit(p)
    <2>1. listening' = listening
        BY <1>6 DEF Start, ExitClient, Exit, ReInit
    <2>2. CASE Start(p) \/ ExitClient(p)
        <3>1. PICK t \in {"isClient", "down"} :
                 pc' = [pc EXCEPT ![p] = t] /\ pc[p] \in {"down", "client"}
            BY <2>2 DEF Start, ExitClient
        <3> QED
            BY <2>1, <3>1
    <2>3. CASE Exit(p) \/ ReInit(p)
        <3>1. PICK t \in {"unlocked", "reinit"} : pc' = [pc EXCEPT ![p] = t]
            BY <2>3 DEF Exit, ReInit
        <3> QED
            BY <2>1, <3>1
    <2> QED
        BY <1>6, <2>2, <2>3
<1>7. CASE Crash(p)
    <2>1. pc' = [pc EXCEPT ![p] = "down"] /\ listening' = listening \ {p}
        BY <1>7 DEF Crash
    <2> QED
        BY <2>1
<1> QED
    BY <1>1, <1>2, <1>3, <1>4, <1>5, <1>6, <1>7 DEF Quiet

LEMMA PlacedNext ==
    ASSUME PlainTypes, MsgTypes, Placed, Next
    PROVE  Placed'
<1> PICK p \in Procs : \/ Quiet(p) \/ SendMessage(p) \/ Connect(p) \/ Answer(p) \/ Emit(p) \/ Discard(p)
    BY DEF Next, Instance, Send, Receive, Quiet
<1>0. inbox \in [Procs -> Seq(Connections)] /\ pc \in [Procs -> Pc]
    BY DEF MsgTypes, PlainTypes
<1>1. CASE Quiet(p)
    <2>1. inbox' \in [Procs -> Seq(Connections)] /\ \A q \in Procs : Kept(q)
        BY <1>1, QuietKeeps
    <2>2. PICK t \in Pc :
             /\ pc' = [pc EXCEPT ![p] = t]
             /\ t \in Serving => pc[p] \in Serving \/ inbox[p] # << >>
             /\ p \in listening' /\ (p \in listening => pc[p] \in Bound \cup {"unlocked", "reinit"})
                   => t \in Bound \cup {"unlocked", "reinit"}
             /\ \A q \in Procs \ {p} : q \in listening' <=> q \in listening
        BY <1>1, QuietMoves
    <2>3. ASSUME NEW q \in Procs
          PROVE  /\ inbox'[q] # << >> => inbox[q] # << >> /\ q \in listening'
                 /\ inbox'[q] = << >> => inbox[q] = << >> \/ pc'[q] \notin Serving
        BY <1>0, <2>1 DEF Kept, Placed
    <2> QED
        BY <1>0, <2>2, <2>3 DEF Placed
<1>2. CASE SendMessage(p)
    BY <1>0, <1>2 DEF SendMessage, Goes, Placed, Serving, Bound
<1>3. CASE Connect(p)
    <2>1. PICK q \in listening :
             inbox' = [inbox EXCEPT ![q] = Append(@, [msg |-> Msg(p), data |-> "none", open |-> TRUE])]
        BY <1>3 DEF Connect
    <2>2. [msg |-> Msg(p), data |-> "none", open |-> TRUE] \in Connections
        BY <1>3, MsgFields DEF Connect, Goes, InSend, Sending, Connections, Data
    <2>3. q \in Procs /\ inbox[q] \in Seq(Connections)
        BY <1>0 DEF PlainTypes
    <2>4. inbox'[q] # << >> /\ \A r \in Procs \ {q} : inbox'[r] = inbox[r]
        <3> DEFINE c == [msg |-> Msg(p), data |-> "none", open |-> TRUE]
        <3>1. Append(inbox[q], c) # << >>
            BY <2>2, <2>3, AppendProperties
        <3>2. inbox' = [inbox EXCEPT ![q] = Append(inbox[q], c)]
            BY <2>1
        <3> HIDE DEF c
        <3> QED
            BY <1>0, <2>3, <3>1, <3>2
    <2>5. listening' = listening /\ pc' = [pc EXCEPT ![p] = "write"] /\ pc[p] = "connect"
        BY <1>3 DEF Connect, Goes
    <2> QED
        BY <1>0, <2>4, <2>5 DEF Placed, Serving, Bound
<1>4. CASE Answer(p)
    BY <1>0, <1>4 DEF Answer, Goes, Placed, Serving, Bound
<1>5. CASE Emit(p) \/ Discard(p)
    <2>1. inbox[p] # << >> /\ pc' = [pc EXCEPT ![p] = "running"] /\ p \in listening
        BY <1>5 DEF Emit, Discard, Goes, Placed, Serving
    <2>2. inbox' = [inbox EXCEPT ![p] = Tail(inbox[p])] /\ listening' = listening
        BY <1>5 DEF Emit, Discard
    <2> QED
        BY <1>0, <2>1, <2>2 DEF Placed, Serving, Bound
<1> QED
    BY <1>1, <1>2, <1>3, <1>4, <1>5

-----------------------------------------------------------------------------
(* Order *)

\* p has a message that it has not handed to anybody.
Fresh(p) == pc[p] \in {"sendLock", "connect"}

Known(m) == m.n <= sent[m.from] /\ (Fresh(m.from) => m.n # sent[m.from])

Before(m, n) == m.from = n.from => m.n < n.n

OrderInv ==
    /\ \A q \in Procs : \A i \in 1..Len(inbox[q]) : Known(inbox[q][i].msg)
    /\ \A i \in 1..Len(emitted) : Known(emitted[i].msg)
    /\ \A m \in acks : Known(m)
    /\ \A q \in Procs : \A i, j \in 1..Len(inbox[q]) : i < j => Before(inbox[q][i].msg, inbox[q][j].msg)
    /\ \A q, r \in Procs : \A i \in 1..Len(inbox[q]), j \in 1..Len(inbox[r]) :
          inbox[q][i].msg = inbox[r][j].msg => q = r
    /\ \A q \in Procs : Serves(q) =>
          \A i \in 1..Len(emitted), j \in 1..Len(inbox[q]) : Before(emitted[i].msg, inbox[q][j].msg)
    /\ \A i, j \in 1..Len(emitted) : i < j => Before(emitted[i].msg, emitted[j].msg)

LEMMA EmittedDomain ==
    ASSUME MsgTypes
    PROVE  DOMAIN emitted = 1..Len(emitted)
<1> DEFINE Emissions == [msg : Messages, whole : BOOLEAN]
<1>1. emitted \in Seq(Emissions)
    BY DEF MsgTypes
<1> HIDE DEF Emissions
<1> QED
    BY <1>1

LEMMA EmittedMessages ==
    ASSUME MsgTypes, NEW i \in 1..Len(emitted)
    PROVE  emitted[i].msg \in Messages
<1> DEFINE Emissions == [msg : Messages, whole : BOOLEAN]
<1>1. emitted \in Seq(Emissions)
    BY DEF MsgTypes
<1>2. emitted[i] \in Emissions
    <2> HIDE DEF Emissions
    <2> QED
        BY <1>1
<1> QED
    BY <1>2

LEMMA QueuedMessages ==
    ASSUME MsgTypes, NEW q \in Procs, NEW i \in 1..Len(inbox[q])
    PROVE  inbox[q][i] \in Connections /\ inbox[q][i].msg \in Messages
<1>1. inbox[q][i] \in Connections
    BY DEF MsgTypes
<1> QED
    BY <1>1 DEF Connections

\* What is in an inbox after a step of Quiet was there before.
LEMMA QuietInbox ==
    ASSUME PlainTypes, MsgTypes, NEW p \in Procs, Quiet(p), NEW q \in Procs
    PROVE  /\ inbox'[q] \in Seq(Connections) /\ Len(inbox'[q]) \in Nat
           /\ \A i \in 1..Len(inbox'[q]) :
                 i \in 1..Len(inbox[q]) /\ inbox'[q][i].msg = inbox[q][i].msg
<1>1. inbox' \in [Procs -> Seq(Connections)] /\ Kept(q)
    BY QuietKeeps
<1>2. CASE inbox'[q] = << >>
    BY <1>1, <1>2
<1>3. CASE inbox'[q] # << >>
    BY <1>1, <1>3 DEF Kept
<1> QED
    BY <1>2, <1>3

\* A server that begins to serve has no connections yet.
LEMMA QuietServes ==
    ASSUME PlainTypes, MsgTypes, Placed, NEW p \in Procs, Quiet(p), NEW q \in Procs, Serves(q)'
    PROVE  Serves(q) \/ Len(inbox'[q]) = 0
<1>1. inbox'[q] \in Seq(Connections) /\ Kept(q)
    BY QuietKeeps
<1>2. PICK t \in Pc :
         /\ pc' = [pc EXCEPT ![p] = t]
         /\ t \in Bound => pc[p] \notin {"unlocked", "reinit"}
         /\ \A r \in Procs \ {p} : r \in listening' <=> r \in listening
    BY QuietMoves
<1>3. inbox[q] = << >> \/ Serves(q) \/ pc[q] \in {"unlocked", "reinit"}
    BY DEF Placed, Serves, Bound
<1>4. pc[q] \notin {"unlocked", "reinit"}
    BY <1>2 DEF Serves, Bound, PlainTypes, Serving
<1>5. inbox[q] = << >> => Len(inbox'[q]) = 0
    BY <1>1 DEF Kept
<1> QED
    BY <1>3, <1>4, <1>5

LEMMA OrderQuiet ==
    ASSUME PlainTypes, MsgTypes, Placed, OrderInv, NEW p \in Procs, Quiet(p)
    PROVE  OrderInv'
<1>1. UNCHANGED <<sent, acks, emitted>>
    BY QuietKeeps
<1>2. PICK t \in Pc :
         /\ pc' = [pc EXCEPT ![p] = t]
         /\ t = "connect" => pc[p] = "sendLock"
         /\ t \notin {"sendLock", "write"}
    BY QuietMoves
<1>3. ASSUME NEW r \in Procs  PROVE Fresh(r)' => Fresh(r)
    BY <1>2 DEF Fresh, PlainTypes
<1>4. ASSUME NEW m \in Messages, Known(m)  PROVE Known(m)'
    BY <1>1, <1>3, <1>4, MessageFields DEF Known
<1>5. ASSUME NEW q \in Procs
      PROVE  /\ \A i \in 1..Len(inbox'[q]) :
                   i \in 1..Len(inbox[q]) /\ inbox'[q][i].msg = inbox[q][i].msg
             /\ \A i \in 1..Len(inbox[q]) : inbox[q][i].msg \in Messages
    <2>1. \A i \in 1..Len(inbox[q]) : inbox[q][i] \in Connections
        BY DEF MsgTypes
    <2> QED
        BY <2>1, QuietInbox DEF Connections
<1>6. \A i \in 1..Len(emitted) : emitted[i].msg \in Messages
    BY EmittedMessages
<1>7. (\A q \in Procs : \A i \in 1..Len(inbox[q]) : Known(inbox[q][i].msg))'
    <2>1. ASSUME NEW q \in Procs, NEW i \in 1..Len(inbox'[q])  PROVE Known(inbox[q][i].msg)'
        <3>1. /\ i \in 1..Len(inbox[q]) /\ inbox'[q][i].msg = inbox[q][i].msg
              /\ inbox[q][i].msg \in Messages
            BY <1>5, <2>1
        <3>2. Known(inbox[q][i].msg)
            BY <3>1 DEF OrderInv
        <3> QED
            BY <1>4, <3>1, <3>2 DEF Known
    <2> QED
        BY <2>1
<1>8. (\A i \in 1..Len(emitted) : Known(emitted[i].msg))'
    <2>1. ASSUME NEW i \in 1..Len(emitted)  PROVE Known(emitted[i].msg)'
        <3>1. emitted[i].msg \in Messages /\ Known(emitted[i].msg) /\ emitted' = emitted
            BY <1>1, <1>6, <2>1 DEF OrderInv
        <3> QED
            BY <1>4, <3>1 DEF Known
    <2> QED
        BY <1>1, <2>1
<1>9. (\A m \in acks : Known(m))'
    BY <1>1, <1>4 DEF OrderInv, MsgTypes
<1>10. \A q \in Procs : \A i, j \in 1..Len(inbox'[q]) :
           i < j => Before(inbox'[q][i].msg, inbox'[q][j].msg)
    BY <1>5 DEF OrderInv
<1>11. \A q, r \in Procs : \A i \in 1..Len(inbox'[q]), j \in 1..Len(inbox'[r]) :
           inbox'[q][i].msg = inbox'[r][j].msg => q = r
    BY <1>5 DEF OrderInv
<1>12. ASSUME NEW q \in Procs, Serves(q)'
       PROVE  \A i \in 1..Len(emitted'), j \in 1..Len(inbox'[q]) :
                 Before(emitted'[i].msg, inbox'[q][j].msg)
    <2>1. CASE Serves(q)
        BY <1>1, <1>5, <2>1 DEF OrderInv
    <2>2. CASE Len(inbox'[q]) = 0
        BY <2>2
    <2> QED
        BY <1>12, <2>1, <2>2, QuietServes
<1> QED
    BY <1>1, <1>7, <1>8, <1>9, <1>10, <1>11, <1>12 DEF OrderInv, Before

LEMMA OrderSendMessage ==
    ASSUME PlainTypes, MsgTypes, OrderInv, NEW p \in Procs, SendMessage(p)
    PROVE  OrderInv'
<1>1. /\ UNCHANGED <<inbox, emitted, acks, listening>>
      /\ sent' = [sent EXCEPT ![p] = @ + 1] /\ pc' = [pc EXCEPT ![p] = "sendLock"]
    BY DEF SendMessage, Goes
<1>2. ASSUME NEW m \in Messages, Known(m)  PROVE Known(m)'
    <2>1. /\ m.from \in Procs /\ m.n \in Nat /\ sent[m.from] \in Nat
          /\ sent'[m.from] = IF m.from = p THEN sent[p] + 1 ELSE sent[m.from]
          /\ pc'[m.from] = IF m.from = p THEN "sendLock" ELSE pc[m.from]
        BY <1>1, MessageFields DEF PlainTypes
    <2> QED
        BY <1>2, <2>1 DEF Known, Fresh
<1>3. \A q \in Procs : Serves(q)' => Serves(q)
    BY <1>1 DEF PlainTypes, Serves, Serving
<1>4. (\A q \in Procs : \A i \in 1..Len(inbox[q]) : Known(inbox[q][i].msg))'
    BY <1>1, <1>2, QueuedMessages DEF OrderInv, Known
<1>5. (\A i \in 1..Len(emitted) : Known(emitted[i].msg))'
    BY <1>1, <1>2, EmittedMessages DEF OrderInv, Known
<1>6. (\A m \in acks : Known(m))'
    BY <1>1, <1>2 DEF OrderInv, MsgTypes
<1>7. ASSUME NEW q \in Procs, Serves(q)'
      PROVE  \A i \in 1..Len(emitted), j \in 1..Len(inbox[q]) :
                Before(emitted[i].msg, inbox[q][j].msg)
    BY <1>3, <1>7 DEF OrderInv
<1> QED
    BY <1>1, <1>4, <1>5, <1>6, <1>7, SMTT(30) DEF OrderInv, Before

\* What p connects to q with is a new message at the end of q's connections.
Appended(p, q) ==
    /\ inbox'[q] \in Seq(Connections) /\ Len(inbox'[q]) = Len(inbox[q]) + 1
    /\ Len(inbox[q]) \in Nat
    /\ \A i \in 1..Len(inbox[q]) : inbox'[q][i] = inbox[q][i]
    /\ inbox'[q][Len(inbox[q]) + 1] = [msg |-> Msg(p), data |-> "none", open |-> TRUE]
    /\ \A r \in Procs \ {q} : inbox'[r] = inbox[r]

LEMMA ConnectAppends ==
    ASSUME PlainTypes, MsgTypes, NEW p \in Procs, Connect(p)
    PROVE  \E q \in listening : Appended(p, q)
<1>1. PICK q \in listening :
         inbox' = [inbox EXCEPT ![q] = Append(@, [msg |-> Msg(p), data |-> "none", open |-> TRUE])]
    BY DEF Connect
<1> DEFINE c == [msg |-> Msg(p), data |-> "none", open |-> TRUE]
<1>2. c \in Connections
    BY MsgFields DEF Connect, Goes, InSend, Sending, Connections, Data
<1>3. q \in Procs /\ inbox[q] \in Seq(Connections) /\ inbox \in [Procs -> Seq(Connections)]
    BY DEF PlainTypes, MsgTypes
<1>4. inbox' = [inbox EXCEPT ![q] = Append(inbox[q], c)]
    BY <1>1
<1>5. Appended(p, q)
    <2>1. /\ Append(inbox[q], c) \in Seq(Connections)
          /\ Len(Append(inbox[q], c)) = Len(inbox[q]) + 1
          /\ \A i \in 1..Len(inbox[q]) : Append(inbox[q], c)[i] = inbox[q][i]
          /\ Append(inbox[q], c)[Len(inbox[q]) + 1] = c
        <3> HIDE DEF c
        <3> QED
            BY <1>2, <1>3, AppendProperties
    <2>2. inbox'[q] = Append(inbox[q], c) /\ \A r \in Procs \ {q} : inbox'[r] = inbox[r]
        BY <1>3, <1>4
    <2> QED
        BY <1>3, <2>1, <2>2 DEF Appended
<1> QED
    BY <1>5

LEMMA OrderConnect ==
    ASSUME PlainTypes, MsgTypes, OrderInv, NEW p \in Procs, Connect(p)
    PROVE  OrderInv'
<1>1. PICK q \in listening : Appended(p, q)
    BY ConnectAppends
<1>2. /\ UNCHANGED <<emitted, acks, listening, sent>>
      /\ pc' = [pc EXCEPT ![p] = "write"] /\ pc[p] = "connect" /\ q \in Procs
    BY DEF Connect, Goes, msgVars, PlainTypes
<1>3. ASSUME NEW m \in Messages, Known(m)
      PROVE  Known(m)' /\ (m.from = p => m.n < sent[p])
    <2>1. /\ m.from \in Procs /\ m.n \in Nat /\ sent[m.from] \in Nat
          /\ pc'[m.from] = IF m.from = p THEN "write" ELSE pc[m.from]
        BY <1>2, MessageFields DEF PlainTypes
    <2> QED
        BY <1>2, <1>3, <2>1 DEF Known, Fresh
<1>4. Msg(p).from = p /\ Msg(p).n = sent[p] /\ sent[p] \in Nat
    BY MsgFields
<1>5. ASSUME NEW r \in Procs, NEW i \in 1..Len(inbox[r])
      PROVE  Before(inbox[r][i].msg, Msg(p))
    BY <1>3, <1>4, QueuedMessages DEF OrderInv, Before
<1>6. ASSUME NEW i \in 1..Len(emitted)
      PROVE  Before(emitted[i].msg, Msg(p))
    BY <1>3, <1>4, EmittedMessages DEF OrderInv, Before
<1>7. Msg(p).n <= sent'[p] /\ pc'[p] = "write"
    BY <1>2, <1>4 DEF PlainTypes
\* The connections after the step: the old ones and the new one.
<1>8. ASSUME NEW r \in Procs, NEW i \in 1..Len(inbox'[r])
      PROVE  \/ i \in 1..Len(inbox[r]) /\ inbox'[r][i] = inbox[r][i]
             \/ r = q /\ i = Len(inbox[q]) + 1 /\ inbox'[r][i].msg = Msg(p)
    BY <1>1 DEF Appended
<1>9. (\A r \in Procs : \A i \in 1..Len(inbox[r]) : Known(inbox[r][i].msg))'
    <2>1. ASSUME NEW r \in Procs, NEW i \in 1..Len(inbox'[r])  PROVE Known(inbox[r][i].msg)'
        <3>1. CASE i \in 1..Len(inbox[r]) /\ inbox'[r][i] = inbox[r][i]
            <4>1. Known(inbox[r][i].msg) /\ inbox[r][i].msg \in Messages
                BY <3>1, QueuedMessages DEF OrderInv
            <4> QED
                BY <1>3, <3>1, <4>1 DEF Known
        <3>2. CASE inbox'[r][i].msg = Msg(p)
            BY <1>4, <1>7, <3>2 DEF Known, Fresh
        <3> QED
            BY <1>8, <3>1, <3>2
    <2> QED
        BY <2>1
<1>10. (\A i \in 1..Len(emitted) : Known(emitted[i].msg))'
    BY <1>2, <1>3, EmittedMessages DEF OrderInv, Known
<1>11. (\A m \in acks : Known(m))'
    BY <1>2, <1>3 DEF OrderInv, MsgTypes
<1>12. ASSUME NEW r \in Procs, NEW i \in 1..Len(inbox'[r]), NEW j \in 1..Len(inbox'[r]), i < j
       PROVE  Before(inbox'[r][i].msg, inbox'[r][j].msg)
    <2>1. Len(inbox[r]) \in Nat /\ Len(inbox'[r]) \in Nat
        BY <1>1, <1>2 DEF MsgTypes, Appended
    <2>2. i \in 1..Len(inbox[r]) /\ inbox'[r][i] = inbox[r][i]
        BY <1>1, <1>12, <2>1, <1>8 DEF Appended
    <2>3. CASE j \in 1..Len(inbox[r]) /\ inbox'[r][j] = inbox[r][j]
        BY <1>12, <2>2, <2>3 DEF OrderInv
    <2>4. CASE inbox'[r][j].msg = Msg(p)
        BY <1>5, <2>2, <2>4
    <2> QED
        BY <1>8, <2>3, <2>4
<1>13. ASSUME NEW r \in Procs, NEW s \in Procs, NEW i \in 1..Len(inbox'[r]), NEW j \in 1..Len(inbox'[s]),
              inbox'[r][i].msg = inbox'[s][j].msg
       PROVE  r = s
    <2>1. \A t \in Procs : \A k \in 1..Len(inbox[t]) : inbox[t][k].msg # Msg(p)
        BY <1>4, <1>5 DEF Before
    <2> QED
        <3>1. CASE inbox'[r][i].msg = Msg(p)
            BY <1>8, <1>13, <2>1, <3>1
        <3>2. CASE inbox'[r][i].msg # Msg(p)
            <4>1. i \in 1..Len(inbox[r]) /\ inbox'[r][i] = inbox[r][i]
                BY <1>8, <3>2
            <4>2. j \in 1..Len(inbox[s]) /\ inbox'[s][j] = inbox[s][j]
                BY <1>8, <1>13, <3>2
            <4> QED
                BY <1>13, <4>1, <4>2 DEF OrderInv
        <3> QED
            BY <3>1, <3>2
<1>14. ASSUME NEW r \in Procs, Serves(r)', NEW i \in 1..Len(emitted), NEW j \in 1..Len(inbox'[r])
       PROVE  Before(emitted[i].msg, inbox'[r][j].msg)
    <2>1. Serves(r)
        BY <1>2, <1>14 DEF Serves, Serving, PlainTypes
    <2>2. CASE j \in 1..Len(inbox[r]) /\ inbox'[r][j] = inbox[r][j]
        BY <2>1, <2>2 DEF OrderInv
    <2>3. CASE inbox'[r][j].msg = Msg(p)
        BY <1>6, <2>3
    <2> QED
        BY <1>8, <2>2, <2>3
<1> QED
    BY <1>2, <1>9, <1>10, <1>11, <1>12, <1>13, <1>14 DEF OrderInv, Before

LEMMA OrderAnswer ==
    ASSUME PlainTypes, MsgTypes, Placed, OrderInv, NEW q \in Procs, Answer(q)
    PROVE  OrderInv'
<1>1. /\ UNCHANGED <<inbox, emitted, listening, sent>>
      /\ pc' = [pc EXCEPT ![q] = "emit"] /\ pc[q] = "answer"
      /\ acks' \in {acks, acks \cup {Head(inbox[q]).msg}}
    BY DEF Answer, Goes
<1>2. ASSUME NEW m \in Messages, Known(m)  PROVE Known(m)'
    BY <1>1, <1>2, MessageFields DEF Known, Fresh, PlainTypes
<1>3. Head(inbox[q]).msg \in Messages /\ Known(Head(inbox[q]).msg)
    <2>1. inbox[q] \in Seq(Connections) /\ inbox[q] # << >>
        BY <1>1 DEF MsgTypes, Placed, Serving
    <2>2. 1 \in 1..Len(inbox[q]) /\ Head(inbox[q]) = inbox[q][1]
        BY <2>1
    <2> QED
        BY <2>2, QueuedMessages DEF OrderInv
<1>4. \A r \in Procs : Serves(r)' => Serves(r)
    BY <1>1 DEF PlainTypes, Serves, Serving
<1>5. (\A r \in Procs : \A i \in 1..Len(inbox[r]) : Known(inbox[r][i].msg))'
    BY <1>1, <1>2, QueuedMessages DEF OrderInv, Known
<1>6. (\A i \in 1..Len(emitted) : Known(emitted[i].msg))'
    BY <1>1, <1>2, EmittedMessages DEF OrderInv, Known
<1>7. \A m \in acks' : m \in Messages /\ Known(m)
    BY <1>1, <1>3 DEF OrderInv, MsgTypes
<1>8. (\A m \in acks : Known(m))'
    BY <1>2, <1>7
<1> QED
    BY <1>1, <1>4, <1>5, <1>6, <1>8 DEF OrderInv, Before

\* The connection served leaves its inbox, and its message is emitted or not.
Taken(q) ==
    /\ inbox[q] \in Seq(Connections) /\ inbox'[q] \in Seq(Connections) /\ 1 \in 1..Len(inbox[q])
    /\ \A i \in 1..Len(inbox'[q]) : i + 1 \in 1..Len(inbox[q]) /\ inbox'[q][i] = inbox[q][i + 1]
    /\ \A r \in Procs \ {q} : inbox'[r] = inbox[r]
    /\ Len(emitted) \in Nat
    /\ \/ emitted' = emitted
       \/ /\ Len(emitted') = Len(emitted) + 1
          /\ \A i \in 1..Len(emitted) : emitted'[i] = emitted[i]
          /\ emitted'[Len(emitted) + 1] = [msg |-> inbox[q][1].msg, whole |-> inbox[q][1].data = "all"]

LEMMA TakeMoves ==
    ASSUME PlainTypes, MsgTypes, Placed, NEW q \in Procs, Emit(q) \/ Discard(q)
    PROVE  Taken(q) /\ Serves(q)
<1> DEFINE Emissions == [msg : Messages, whole : BOOLEAN]
           e == [msg |-> Head(inbox[q]).msg, whole |-> Head(inbox[q]).data = "all"]
<1>1. inbox[q] \in Seq(Connections) /\ inbox[q] # << >> /\ Serves(q)
    BY DEF MsgTypes, Placed, Serving, Emit, Discard, Goes, Serves
<1>2. 1 \in 1..Len(inbox[q]) /\ Head(inbox[q]) = inbox[q][1] /\ Head(inbox[q]) \in Connections
    BY <1>1
<1>3. /\ inbox' = [inbox EXCEPT ![q] = Tail(inbox[q])]
      /\ inbox \in [Procs -> Seq(Connections)]
    BY DEF Emit, Discard, MsgTypes
<1>4. /\ emitted' = Append(emitted, e) \/ emitted' = emitted
      /\ e \in Emissions /\ emitted \in Seq(Emissions)
    BY <1>2 DEF Connections, MsgTypes, Emit, Discard, msgVars
<1>5. /\ Tail(inbox[q]) \in Seq(Connections) /\ Len(Tail(inbox[q])) = Len(inbox[q]) - 1
      /\ \A i \in 1..Len(Tail(inbox[q])) : Tail(inbox[q])[i] = inbox[q][i + 1]
    BY <1>1, HeadTailProperties
<1>6. /\ inbox'[q] \in Seq(Connections)
      /\ \A i \in 1..Len(inbox'[q]) : i + 1 \in 1..Len(inbox[q]) /\ inbox'[q][i] = inbox[q][i + 1]
      /\ \A r \in Procs \ {q} : inbox'[r] = inbox[r]
    BY <1>1, <1>3, <1>5
<1>7. /\ Len(emitted) \in Nat
      /\ \/ emitted' = emitted
         \/ /\ Len(emitted') = Len(emitted) + 1
            /\ \A i \in 1..Len(emitted) : emitted'[i] = emitted[i]
            /\ emitted'[Len(emitted) + 1] = e
    <2> HIDE DEF e, Emissions
    <2> QED
        BY <1>4, AppendProperties
<1> QED
    BY <1>1, <1>2, <1>6, <1>7 DEF Taken

LEMMA OrderTake ==
    ASSUME PlainTypes, MsgTypes, Placed, OneServes, OrderInv, NEW q \in Procs, Emit(q) \/ Discard(q)
    PROVE  OrderInv'
<1>1. Taken(q) /\ Serves(q)
    BY TakeMoves
<1>2. /\ UNCHANGED <<acks, listening, sent>>
      /\ pc' = [pc EXCEPT ![q] = "running"] /\ pc[q] \in {"emit", "body"}
    BY DEF Emit, Discard, Goes, msgVars
<1>3. ASSUME NEW m \in Messages, Known(m)  PROVE Known(m)'
    BY <1>2, <1>3, MessageFields DEF Known, Fresh, PlainTypes
\* Where the connections and messages after the step come from.
<1>4. ASSUME NEW r \in Procs, NEW i \in 1..Len(inbox'[r])
      PROVE  \/ r # q /\ i \in 1..Len(inbox[r]) /\ inbox'[r][i] = inbox[r][i]
             \/ r = q /\ i + 1 \in 1..Len(inbox[r]) /\ inbox'[r][i] = inbox[r][i + 1]
    BY <1>1 DEF Taken
<1>5. ASSUME NEW i \in 1..Len(emitted')
      PROVE  \/ i \in 1..Len(emitted) /\ emitted'[i] = emitted[i]
             \/ i = Len(emitted) + 1 /\ emitted'[i].msg = inbox[q][1].msg
    BY <1>1 DEF Taken
<1>6. (\A r \in Procs : \A i \in 1..Len(inbox[r]) : Known(inbox[r][i].msg))'
    <2>1. ASSUME NEW r \in Procs, NEW i \in 1..Len(inbox'[r])  PROVE Known(inbox[r][i].msg)'
        <3>1. PICK j \in 1..Len(inbox[r]) : inbox'[r][i] = inbox[r][j]
            BY <1>4
        <3>2. Known(inbox[r][j].msg) /\ inbox[r][j].msg \in Messages
            BY QueuedMessages DEF OrderInv
        <3> QED
            BY <1>3, <3>1, <3>2 DEF Known
    <2> QED
        BY <2>1
<1>7. (\A i \in 1..Len(emitted) : Known(emitted[i].msg))'
    <2>1. ASSUME NEW i \in 1..Len(emitted')  PROVE Known(emitted[i].msg)'
        <3>1. PICK m \in Messages : emitted'[i].msg = m /\ Known(m)
            <4>1. 1 \in 1..Len(inbox[q])
                BY <1>1 DEF Taken
            <4> QED
                BY <1>5, <4>1, EmittedMessages, QueuedMessages DEF OrderInv
        <3> QED
            BY <1>3, <3>1 DEF Known
    <2> QED
        BY <2>1
<1>8. (\A m \in acks : Known(m))'
    BY <1>2, <1>3 DEF OrderInv, MsgTypes
<1>9. ASSUME NEW r \in Procs, NEW i \in 1..Len(inbox'[r]), NEW j \in 1..Len(inbox'[r]), i < j
      PROVE  Before(inbox'[r][i].msg, inbox'[r][j].msg)
    <2>1. CASE r # q
        BY <1>4, <1>9, <2>1 DEF OrderInv
    <2>2. CASE r = q
        <3>1. i + 1 \in 1..Len(inbox[r]) /\ inbox'[r][i] = inbox[r][i + 1]
            BY <1>4, <2>2
        <3>2. j + 1 \in 1..Len(inbox[r]) /\ inbox'[r][j] = inbox[r][j + 1]
            BY <1>4, <2>2
        <3>3. i + 1 < j + 1
            BY <1>9, i \in Int, j \in Int
        <3> QED
            BY <3>1, <3>2, <3>3 DEF OrderInv
    <2> QED
        BY <2>1, <2>2
<1>10. ASSUME NEW r \in Procs, NEW s \in Procs, NEW i \in 1..Len(inbox'[r]), NEW j \in 1..Len(inbox'[s]),
              inbox'[r][i].msg = inbox'[s][j].msg
       PROVE  r = s
    <2>1. PICK k \in 1..Len(inbox[r]) : inbox'[r][i] = inbox[r][k]
        BY <1>4
    <2>2. PICK l \in 1..Len(inbox[s]) : inbox'[s][j] = inbox[s][l]
        BY <1>4
    <2> QED
        BY <1>10, <2>1, <2>2 DEF OrderInv
<1>11. ASSUME NEW r \in Procs, Serves(r)', NEW i \in 1..Len(emitted'), NEW j \in 1..Len(inbox'[r])
       PROVE  Before(emitted'[i].msg, inbox'[r][j].msg)
    <2>1. r = q
        BY <1>1, <1>2, <1>11 DEF OneServes, Serves, PlainTypes
    <2>2. j + 1 \in 1..Len(inbox[q]) /\ inbox'[r][j] = inbox[q][j + 1] /\ 1 \in 1..Len(inbox[q]) /\ 1 < j + 1
        BY <1>1, <1>4, <2>1 DEF Taken
    <2>3. CASE i \in 1..Len(emitted) /\ emitted'[i] = emitted[i]
        BY <1>1, <2>2, <2>3 DEF OrderInv
    <2>4. CASE emitted'[i].msg = inbox[q][1].msg
        BY <2>2, <2>4 DEF OrderInv
    <2> QED
        BY <1>5, <2>3, <2>4
<1>12. ASSUME NEW i \in 1..Len(emitted'), NEW j \in 1..Len(emitted'), i < j
       PROVE  Before(emitted'[i].msg, emitted'[j].msg)
    <2>1. i \in 1..Len(emitted) /\ emitted'[i] = emitted[i] /\ 1 \in 1..Len(inbox[q])
        BY <1>1, <1>12 DEF Taken
    <2>2. CASE j \in 1..Len(emitted) /\ emitted'[j] = emitted[j]
        BY <1>12, <2>1, <2>2 DEF OrderInv
    <2>3. CASE emitted'[j].msg = inbox[q][1].msg
        BY <1>1, <2>1, <2>3 DEF OrderInv
    <2> QED
        BY <1>5, <2>2, <2>3
<1> QED
    BY <1>6, <1>7, <1>8, <1>9, <1>10, <1>11, <1>12 DEF OrderInv, Before

LEMMA OrderNext ==
    ASSUME PlainTypes, MsgTypes, Placed, OneServes, OrderInv, Next
    PROVE  OrderInv'
<1> PICK p \in Procs : \/ Quiet(p) \/ SendMessage(p) \/ Connect(p) \/ Answer(p) \/ Emit(p) \/ Discard(p)
    BY DEF Next, Instance, Send, Receive, Quiet
<1> QED
    BY OrderQuiet, OrderSendMessage, OrderConnect, OrderAnswer, OrderTake

-----------------------------------------------------------------------------
(* What true of sendMessage() means *)

WholeInv ==
    /\ returned \subseteq acks
    /\ \A q \in Procs : \A i \in 1..Len(inbox[q]) :
          inbox[q][i].msg \in acks => inbox[q][i].data = "all"
    /\ \A i \in 1..Len(emitted) : emitted[i].msg \in acks => emitted[i].whole
    /\ \A q \in Procs : pc[q] = "answer" => inbox[q][1].data = "all" \/ ~ inbox[q][1].open
    /\ \A p \in Procs : pc[p] = "write" =>
          /\ Msg(p) \notin acks
          /\ \A q \in Procs : \A i \in 1..Len(inbox[q]) :
                inbox[q][i].msg = Msg(p) => inbox[q][i].data = "none"

LEMMA WholeQuiet ==
    ASSUME "stall" \notin Adversity, PlainTypes, MsgTypes, Placed, WholeInv, NEW p \in Procs, Quiet(p)
    PROVE  WholeInv'
<1>1. UNCHANGED <<sent, acks, emitted>> /\ \A q \in Procs : Kept(q)
    BY QuietKeeps
<1>2. PICK t \in Pc : pc' = [pc EXCEPT ![p] = t] /\ t \notin {"sendLock", "write"}
    BY QuietMoves
<1>3. returned' \subseteq acks'
    <2>1. returned' = returned \/ (returned' = returned \cup {Msg(p)} /\ Msg(p) \in acks)
        BY DEF Quiet, isRunning, isClient, Listen, Exited, ReInitPeer, ReInitLock, SendLock, Write,
               WriteRest, GotAck, TimedOut, NextConnection, ReadHeader, ReadBody, Start, ExitClient,
               Exit, ReInit, Crash, msgVars
    <2> QED
        BY <1>1, <2>1 DEF WholeInv
\* A connection after the step is one from before, with more data or closed.
<1>4. ASSUME NEW q \in Procs, NEW i \in 1..Len(inbox'[q])
      PROVE  /\ i \in 1..Len(inbox[q]) /\ inbox'[q][i].msg = inbox[q][i].msg
             /\ inbox'[q][i].open => inbox[q][i].open
             /\ inbox'[q][i].data # inbox[q][i].data =>
                   \E r \in Procs :
                      /\ inbox[q][i].msg = Msg(r) /\ pc'[r] # "write"
                      /\ pc[r] = "write" \/ inbox'[q][i].data = "all"
    <2>1. inbox'[q] # << >>
        BY <1>4
    <2> QED
        BY <1>1, <2>1 DEF Kept
<1>5. ASSUME NEW q \in Procs, NEW i \in 1..Len(inbox'[q]), inbox'[q][i].msg \in acks
      PROVE  inbox'[q][i].data = "all"
    BY <1>4, <1>5 DEF WholeInv
<1>6. ASSUME NEW q \in Procs, pc'[q] = "answer"
      PROVE  inbox'[q][1].data = "all" \/ ~ inbox'[q][1].open
    <2>1. inbox[q] # << >> /\ inbox[q] \in Seq(Connections) /\ inbox'[q] \in Seq(Connections) /\ Kept(q)
        <3>1. pc[q] \in Serving
            BY <1>6, <1>2 DEF Quiet, isRunning, isClient, Listen, Exited, ReInitPeer, ReInitLock,
               SendLock, Write, WriteRest, GotAck, TimedOut, NextConnection, ReadHeader, ReadBody,
               Start, ExitClient, Exit, ReInit, Crash, Goes, PlainTypes, Serving
        <3> QED
            BY <3>1, QuietKeeps DEF Placed, MsgTypes
    <2>2. 1 \in 1..Len(inbox'[q])
        BY <1>6, <2>1 DEF Kept, Serving
    <2>3. inbox[q][1].data = "all" \/ ~ inbox[q][1].open
        <3>1. CASE pc[q] = "answer"
            BY <3>1 DEF WholeInv
        <3>2. CASE ReadBody(q)
            BY <2>1, <3>2 DEF ReadBody
        <3>3. pc[q] = "answer" \/ ReadBody(q)
            BY <1>6, <1>2 DEF Quiet, isRunning, isClient, Listen, Exited, ReInitPeer, ReInitLock,
               SendLock, Write, WriteRest, GotAck, TimedOut, NextConnection, ReadHeader, ReadBody,
               Start, ExitClient, Exit, ReInit, Crash, Goes, PlainTypes
        <3> QED
            BY <3>1, <3>2, <3>3
    <2>4. inbox[q][1].data = "all" => inbox'[q][1].data = "all"
        BY <1>4, <2>2 DEF WholeInv
    <2>5. ~ inbox[q][1].open => ~ inbox'[q][1].open
        BY <1>4, <2>2
    <2> QED
        BY <2>3, <2>4, <2>5
<1>7. ASSUME NEW r \in Procs, pc'[r] = "write"
      PROVE  /\ Msg(r)' \notin acks
             /\ \A q \in Procs : \A i \in 1..Len(inbox'[q]) :
                   inbox'[q][i].msg = Msg(r)' => inbox'[q][i].data = "none"
    <2>1. pc[r] = "write" /\ Msg(r)' = Msg(r)
        BY <1>1, <1>2, <1>7 DEF PlainTypes, Msg
    <2>2. Msg(r) \notin acks
        BY <2>1 DEF WholeInv
    <2>3. ASSUME NEW q \in Procs, NEW i \in 1..Len(inbox'[q]), inbox'[q][i].msg = Msg(r)
          PROVE  inbox'[q][i].data = "none"
        <3>1. inbox[q][i].msg = Msg(r) /\ inbox[q][i].data = "none"
            BY <1>4, <2>1, <2>3 DEF WholeInv
        <3>2. \A s \in Procs : Msg(s) = Msg(r) => s = r
            BY MsgFields
        <3> QED
            BY <1>4, <1>7, <3>1, <3>2
    <2> QED
        BY <2>1, <2>2, <2>3
<1> QED
    BY <1>1, <1>3, <1>5, <1>6, <1>7 DEF WholeInv

LEMMA WholeNext ==
    ASSUME "stall" \notin Adversity, PlainTypes, MsgTypes, Placed, OrderInv, WholeInv, Next
    PROVE  WholeInv'
<1> PICK p \in Procs : \/ Quiet(p) \/ SendMessage(p) \/ Connect(p) \/ Answer(p) \/ Emit(p) \/ Discard(p)
    BY DEF Next, Instance, Send, Receive, Quiet
<1>1. CASE Quiet(p)
    BY <1>1, WholeQuiet
<1>2. CASE SendMessage(p)
    <2>1. /\ UNCHANGED <<inbox, emitted, acks, returned>>
          /\ sent' = [sent EXCEPT ![p] = @ + 1] /\ pc' = [pc EXCEPT ![p] = "sendLock"]
        BY <1>2 DEF SendMessage, Goes
    <2>2. ASSUME NEW r \in Procs
          PROVE  /\ pc'[r] = "write" => pc[r] = "write" /\ Msg(r)' = Msg(r)
                 /\ pc'[r] = "answer" => pc[r] = "answer"
        BY <2>1 DEF PlainTypes, Msg
    <2> QED
        BY <2>1, <2>2 DEF WholeInv
<1>3. CASE Connect(p)
    <2>1. PICK q \in listening : Appended(p, q)
        BY <1>3, ConnectAppends
    <2>2. /\ UNCHANGED <<emitted, acks, returned, sent>> /\ q \in Procs
          /\ pc' = [pc EXCEPT ![p] = "write"] /\ pc[p] = "connect"
        BY <1>3 DEF Connect, Goes, msgVars, PlainTypes
    <2>3. Msg(p).from = p /\ Msg(p).n = sent[p]
        BY MsgFields
    <2>4. ASSUME NEW m, Known(m)  PROVE m # Msg(p)
        BY <2>2, <2>3, <2>4 DEF Known, Fresh
    <2>5. Msg(p) \notin acks
        BY <2>4 DEF OrderInv
    <2>6. ASSUME NEW r \in Procs, NEW i \in 1..Len(inbox'[r])
          PROVE  \/ /\ i \in 1..Len(inbox[r]) /\ inbox'[r][i] = inbox[r][i]
                    /\ inbox[r][i].msg # Msg(p)
                 \/ inbox'[r][i].msg = Msg(p) /\ inbox'[r][i].data = "none"
        <3>1. \/ i \in 1..Len(inbox[r]) /\ inbox'[r][i] = inbox[r][i]
              \/ inbox'[r][i] = [msg |-> Msg(p), data |-> "none", open |-> TRUE]
            BY <2>1 DEF Appended
        <3> QED
            BY <2>4, <3>1 DEF OrderInv
    <2>7. ASSUME NEW r \in Procs, pc'[r] = "answer"
          PROVE  inbox'[r][1].data = "all" \/ ~ inbox'[r][1].open
        <3>1. pc[r] = "answer"
            BY <2>2, <2>7 DEF PlainTypes
        <3>2. inbox[r] # << >> /\ inbox[r] \in Seq(Connections)
            BY <3>1 DEF Placed, Serving, MsgTypes
        <3>3. inbox'[r][1] = inbox[r][1]
            BY <2>1, <3>2 DEF Appended
        <3> QED
            BY <3>1, <3>3 DEF WholeInv
    <2>8. ASSUME NEW r \in Procs, pc'[r] = "write"
          PROVE  /\ Msg(r)' \notin acks
                 /\ \A s \in Procs : \A i \in 1..Len(inbox'[s]) :
                       inbox'[s][i].msg = Msg(r)' => inbox'[s][i].data = "none"
        <3>1. Msg(r)' = Msg(r) /\ (r = p \/ pc[r] = "write")
            BY <2>2, <2>8 DEF PlainTypes, Msg
        <3>2. Msg(r) \notin acks
            BY <2>5, <3>1 DEF WholeInv
        <3>3. ASSUME NEW s \in Procs, NEW i \in 1..Len(inbox'[s]), inbox'[s][i].msg = Msg(r)
              PROVE  inbox'[s][i].data = "none"
            BY <2>6, <3>1, <3>3 DEF WholeInv
        <3> QED
            BY <3>1, <3>2, <3>3
    <2>9. ASSUME NEW r \in Procs, NEW i \in 1..Len(inbox'[r]), inbox'[r][i].msg \in acks
          PROVE  inbox'[r][i].data = "all"
        BY <2>5, <2>6, <2>9 DEF WholeInv
    <2> QED
        BY <2>2, <2>7, <2>8, <2>9 DEF WholeInv
<1>4. CASE Answer(p)
    <2>1. /\ UNCHANGED <<inbox, emitted, returned, sent>>
          /\ pc' = [pc EXCEPT ![p] = "emit"] /\ pc[p] = "answer"
        BY <1>4 DEF Answer, Goes
    <2>2. inbox[p] \in Seq(Connections) /\ inbox[p] # << >> /\ Serves(p)
        BY <2>1 DEF MsgTypes, Placed, Serving, Serves
    <2>3. 1 \in 1..Len(inbox[p]) /\ Head(inbox[p]) = inbox[p][1]
        BY <2>2
    <2>4. CASE acks' = acks
        <3>1. ASSUME NEW r \in Procs
              PROVE  /\ pc'[r] = "write" => pc[r] = "write" /\ Msg(r)' = Msg(r)
                     /\ pc'[r] = "answer" => pc[r] = "answer"
            BY <2>1 DEF PlainTypes, Msg
        <3> QED
            BY <2>1, <2>4, <3>1 DEF WholeInv
    <2>5. CASE acks' = acks \cup {inbox[p][1].msg} /\ inbox[p][1].open
        <3>1. inbox[p][1].data = "all"
            BY <2>1, <2>5 DEF WholeInv
        <3>2. ASSUME NEW r \in Procs, NEW i \in 1..Len(inbox[r]), inbox[r][i].msg \in acks'
              PROVE  inbox[r][i].data = "all"
            <4>1. CASE inbox[r][i].msg \in acks
                BY <4>1 DEF WholeInv
            <4>2. CASE inbox[r][i].msg = inbox[p][1].msg
                <5>1. r = p
                    BY <2>3, <4>2 DEF OrderInv
                <5>2. inbox[p][1].msg \in Messages
                    BY <2>3, QueuedMessages
                <5>3. inbox[p][1].msg.n \in Nat
                    BY <5>2, MessageFields
                <5>4. ~ (1 < i)
                    BY <2>3, <4>2, <5>1, <5>3 DEF OrderInv, Before
                <5>5. i = 1
                    BY <2>2, <5>1, <5>4
                <5> QED
                    BY <3>1, <5>1, <5>5
            <4> QED
                BY <2>5, <3>2, <4>1, <4>2
        <3>3. ASSUME NEW i \in 1..Len(emitted), emitted[i].msg \in acks'
              PROVE  emitted[i].whole
            <4>1. emitted[i].msg # inbox[p][1].msg
                <5>1. inbox[p][1].msg \in Messages
                    BY <2>3, QueuedMessages
                <5>2. inbox[p][1].msg.n \in Nat
                    BY <5>1, MessageFields
                <5>3. Before(emitted[i].msg, inbox[p][1].msg)
                    BY <2>2, <2>3 DEF OrderInv
                <5> QED
                    BY <5>2, <5>3 DEF Before
            <4> QED
                BY <2>5, <3>3, <4>1 DEF WholeInv
        <3>4. ASSUME NEW r \in Procs, pc'[r] = "write"
              PROVE  /\ pc[r] = "write" /\ Msg(r)' = Msg(r) /\ Msg(r) \notin acks'
            <4>1. pc[r] = "write" /\ Msg(r)' = Msg(r)
                BY <2>1, <3>4 DEF PlainTypes, Msg
            <4>2. Msg(r) \notin acks /\ inbox[p][1].msg # Msg(r)
                BY <2>3, <3>1, <4>1 DEF WholeInv
            <4> QED
                BY <2>5, <4>1, <4>2
        <3>5. ASSUME NEW r \in Procs, pc'[r] = "answer"  PROVE pc[r] = "answer"
            BY <2>1, <3>5 DEF PlainTypes
        <3> QED
            BY <2>1, <2>5, <3>2, <3>3, <3>4, <3>5 DEF WholeInv
    <2> QED
        BY <1>4, <2>3, <2>4, <2>5 DEF Answer
<1>5. CASE Emit(p) \/ Discard(p)
    <2>1. Taken(p)
        BY <1>5, TakeMoves
    <2>2. /\ UNCHANGED <<acks, returned, sent>>
          /\ pc' = [pc EXCEPT ![p] = "running"]
        BY <1>5 DEF Emit, Discard, Goes, msgVars
    <2>3. ASSUME NEW r \in Procs, NEW i \in 1..Len(inbox'[r])
          PROVE  \E j \in 1..Len(inbox[r]) : inbox'[r][i] = inbox[r][j]
        <3>1. CASE r = p
            BY <2>1, <3>1 DEF Taken
        <3>2. CASE r # p
            BY <2>1, <3>2 DEF Taken
        <3> QED
            BY <3>1, <3>2
    <2>4. ASSUME NEW i \in 1..Len(emitted'), emitted'[i].msg \in acks
          PROVE  emitted'[i].whole
        <3>1. \/ i \in 1..Len(emitted) /\ emitted'[i] = emitted[i]
              \/ emitted'[i] = [msg |-> inbox[p][1].msg, whole |-> inbox[p][1].data = "all"]
            BY <2>1 DEF Taken
        <3>2. 1 \in 1..Len(inbox[p])
            BY <2>1 DEF Taken
        <3>3. CASE i \in 1..Len(emitted) /\ emitted'[i] = emitted[i]
            BY <2>4, <3>3 DEF WholeInv
        <3>4. CASE emitted'[i] = [msg |-> inbox[p][1].msg, whole |-> inbox[p][1].data = "all"]
            <4>1. inbox[p][1].data = "all"
                BY <2>4, <3>2, <3>4 DEF WholeInv
            <4>2. emitted'[i] = [msg |-> inbox[p][1].msg, whole |-> TRUE]
                BY <3>4, <4>1, Zenon
            <4> QED
                BY <4>2
        <3> QED
            BY <3>1, <3>3, <3>4
    <2>5. ASSUME NEW r \in Procs, pc'[r] = "answer"
          PROVE  inbox'[r][1].data = "all" \/ ~ inbox'[r][1].open
        <3>1. pc[r] = "answer" /\ r # p
            BY <2>2, <2>5 DEF PlainTypes
        <3> QED
            BY <2>1, <3>1 DEF Taken, WholeInv
    <2>6. ASSUME NEW r \in Procs, pc'[r] = "write"  PROVE pc[r] = "write" /\ Msg(r)' = Msg(r)
        BY <2>2, <2>6 DEF PlainTypes, Msg
    <2>7. ASSUME NEW r \in Procs, NEW i \in 1..Len(inbox'[r])
          PROVE  /\ inbox'[r][i].msg \in acks => inbox'[r][i].data = "all"
                 /\ \A s \in Procs : pc[s] = "write" =>
                       (inbox'[r][i].msg = Msg(s) => inbox'[r][i].data = "none")
        <3>1. PICK j \in 1..Len(inbox[r]) : inbox'[r][i] = inbox[r][j]
            BY <2>3
        <3>2. /\ inbox[r][j].msg \in acks => inbox[r][j].data = "all"
              /\ \A s \in Procs : pc[s] = "write" =>
                    (inbox[r][j].msg = Msg(s) => inbox[r][j].data = "none")
            BY <3>1 DEF WholeInv
        <3> QED
            BY <3>1, <3>2
    <2>8. ASSUME NEW s \in Procs, pc'[s] = "write"
          PROVE  /\ Msg(s)' \notin acks
                 /\ \A r \in Procs : \A i \in 1..Len(inbox'[r]) :
                       inbox'[r][i].msg = Msg(s)' => inbox'[r][i].data = "none"
        BY <2>6, <2>7, <2>8 DEF WholeInv
    <2> QED
        BY <2>2, <2>4, <2>5, <2>7, <2>8 DEF WholeInv
<1> QED
    BY <1>1, <1>2, <1>3, <1>4, <1>5

-----------------------------------------------------------------------------
(* The theorems *)

PeerInv == PlainTypes /\ MsgTypes /\ Placed /\ OrderInv

LEMMA PeerStarts == Init => PeerInv /\ WholeInv
<1> SUFFICES ASSUME Init PROVE PeerInv /\ WholeInv
    OBVIOUS
<1>1. PlainTypes
    BY SendsAssumption DEF Init, PlainTypes, Lock!Init, Lock!Modes, Pc, InSend, Sending
<1>2. MsgTypes
    BY DEF Init, MsgTypes
<1>3. Placed /\ OrderInv /\ WholeInv
    BY DEF Init, Placed, OrderInv, WholeInv, Serving
<1> QED
    BY <1>1, <1>2, <1>3 DEF PeerInv

LEMMA PeerSteps ==
    ASSUME PeerInv, ServeInv, [Next]_vars
    PROVE  PeerInv' /\ ("stall" \notin Adversity /\ WholeInv => WholeInv')
<1>1. CASE Next
    <2>1. OneServes
        BY DEF ServeInv, LockExcludes, OneServes
    <2> QED
        BY <1>1, <2>1, PlainNext, TypesNext, PlacedNext, OrderNext, WholeNext DEF PeerInv
<1>2. CASE UNCHANGED vars
    <2> USE <1>2 DEF vars, lockVars, fileVars, msgVars, PeerInv
    <2>1. PlainTypes' /\ MsgTypes' /\ Placed'
        BY DEF PlainTypes, MsgTypes, Placed
    <2>2. OrderInv'
        BY DEF OrderInv, Known, Fresh, Before, Serves
    <2>3. WholeInv => WholeInv'
        BY DEF WholeInv, Msg
    <2> QED
        BY <2>1, <2>2, <2>3
<1> QED
    BY <1>1, <1>2

LEMMA PeerAlways == Spec => []PeerInv
<1>1. PeerInv /\ ServeInv /\ [Next]_vars => PeerInv'
    BY PeerSteps
<1> QED
    BY <1>1, PeerStarts, ServeAlways, PTL DEF Spec

\* Every variable has its type.
THEOREM TypeCorrect == Spec => []TypeOK
<1>1. PeerInv => TypeOK
    BY DEF PeerInv, PlainTypes, MsgTypes, TypeOK
<1> QED
    BY <1>1, PeerAlways, PTL

(***************************************************************************)
(* No message is emitted twice, and those of one client are emitted in the *)
(* order of its calls of sendMessage(): through time-outs, crashes, and a  *)
(* running instance that gives its role away.                              *)
(***************************************************************************)
THEOREM MessagesInOrder == Spec => []InOrder
<1>1. PeerInv => InOrder
    BY EmittedDomain DEF PeerInv, OrderInv, Before, InOrder
<1> QED
    BY <1>1, PeerAlways, PTL

(***************************************************************************)
(* A message for which sendMessage() returned true is emitted whole, if no *)
(* client stalls for two seconds in the middle of a message.               *)
(***************************************************************************)
THEOREM TrueIsWhole ==
    ASSUME "stall" \notin Adversity
    PROVE  Spec => []TrueMeansWhole
<1>1. PeerInv /\ ServeInv /\ WholeInv /\ [Next]_vars => WholeInv'
    BY PeerSteps
<1>2. PeerInv /\ WholeInv => TrueMeansWhole
    BY EmittedDomain DEF PeerInv, WholeInv, TrueMeansWhole
<1> QED
    BY <1>1, <1>2, PeerStarts, PeerAlways, ServeAlways, PTL DEF Spec

-----------------------------------------------------------------------------
(* The refinement *)

\* sendMessage() returns true for a message that was not emitted in part.
LEMMA AckReturns ==
    ASSUME PeerInv, WholeInv, NEW p \in Procs, GotAck(p)
    PROVE  Delivery!ReturnsTrue(p)
<1>1. /\ Msg(p) \in acks /\ pc[p] = "await" /\ returned' = returned \cup {Msg(p)}
      /\ UNCHANGED <<sent, emitted>>
    BY DEF GotAck, Goes
<1>2. Msg(p) = Delivery!Message(p, sent[p])
    BY DEF Msg, Delivery!Message
<1>3. sent[p] > 0
    BY <1>1 DEF PeerInv, PlainTypes, InSend, Sending
<1>4. \A i \in DOMAIN emitted : emitted[i].msg = Msg(p) => emitted[i].whole
    BY <1>1, EmittedDomain DEF PeerInv, WholeInv
<1> QED
    BY <1>1, <1>2, <1>3, <1>4 DEF Delivery!ReturnsTrue

\* What is emitted comes next of its sender, and whole if it has been returned.
LEMMA EmitDelivers ==
    ASSUME PeerInv, WholeInv, NEW q \in Procs, Emit(q)
    PROVE  Delivery!Next
<1> DEFINE m == inbox[q][1].msg
           w == inbox[q][1].data = "all"
<1>1. Taken(q) /\ Serves(q)
    BY TakeMoves DEF PeerInv
<1>2. 1 \in 1..Len(inbox[q]) /\ Head(inbox[q]) = inbox[q][1]
    BY <1>1 DEF Taken
<1>3. emitted' = Append(emitted, [msg |-> m, whole |-> w]) /\ UNCHANGED <<sent, returned>>
    BY <1>2 DEF Emit
<1>4. m \in Messages /\ Known(m)
    BY <1>2, QueuedMessages DEF PeerInv, OrderInv
<1>5. /\ m.from \in Procs /\ m.n \in 1..sent[m.from]
      /\ m = Delivery!Message(m.from, m.n)
    <2>1. m.n # 0
        BY <1>4, SendsAssumption DEF Messages
    <2>2. m.from \in Procs /\ m.n \in Nat /\ m = [from |-> m.from, n |-> m.n]
        BY <1>4, MessageFields
    <2>3. sent[m.from] \in Nat
        BY <2>2 DEF PeerInv, PlainTypes
    <2>4. m.n <= sent[m.from]
        BY <1>4 DEF Known
    <2> QED
        BY <2>1, <2>2, <2>3, <2>4 DEF Delivery!Message
<1>6. \A i \in DOMAIN emitted : emitted[i].msg.from = m.from => emitted[i].msg.n < m.n
    BY <1>1, <1>2, EmittedDomain DEF PeerInv, OrderInv, Before
<1>7. m \in returned => w
    BY <1>2 DEF WholeInv
<1>8. Delivery!Emit(m.from, m.n, w)
    <2> HIDE DEF m, w
    <2> QED
        BY <1>3, <1>5, <1>6, <1>7 DEF Delivery!Emit
<1> QED
    <2>1. w \in BOOLEAN
        OBVIOUS
    <2> HIDE DEF m, w
    <2> QED
        BY <1>5, <1>8, <2>1 DEF Delivery!Next

LEMMA DeliveryNext ==
    ASSUME PeerInv, WholeInv, [Next]_vars
    PROVE  [Delivery!Next]_(Delivery!vars)
<1>1. CASE Next
    <2> PICK p \in Procs : \/ Quiet(p) \/ SendMessage(p) \/ Connect(p) \/ Answer(p) \/ Emit(p) \/ Discard(p)
        BY <1>1 DEF Next, Instance, Send, Receive, Quiet
    <2>1. CASE Quiet(p)
        <3>1. UNCHANGED <<sent, emitted>>
            BY <2>1, QuietKeeps DEF PeerInv
        <3>2. CASE GotAck(p)
            BY <3>2, AckReturns DEF Delivery!Next
        <3>3. CASE ~ GotAck(p)
            <4>1. returned' = returned
                BY <2>1, <3>3 DEF Quiet, isRunning, isClient, Listen, Exited, ReInitPeer, ReInitLock,
                   SendLock, Write, WriteRest, TimedOut, NextConnection, ReadHeader, ReadBody, Start,
                   ExitClient, Exit, ReInit, Crash, msgVars
            <4> QED
                BY <3>1, <4>1 DEF Delivery!vars
        <3> QED
            BY <3>2, <3>3
    <2>2. CASE SendMessage(p)
        BY <2>2 DEF SendMessage, Delivery!SendMessage, Delivery!Next
    <2>3. CASE Connect(p) \/ Answer(p) \/ Discard(p)
        BY <2>3 DEF Connect, Answer, Discard, msgVars, Delivery!vars
    <2>4. CASE Emit(p)
        BY <2>4, EmitDelivers
    <2> QED
        BY <2>1, <2>2, <2>3, <2>4
<1>2. CASE UNCHANGED vars
    BY <1>2 DEF vars, msgVars, Delivery!vars
<1> QED
    BY <1>1, <1>2

(***************************************************************************)
(* The processes, their sockets and their lock implement MessageDelivery:  *)
(* every message is emitted once at most, in the order of its sender, and  *)
(* not truncated if its sendMessage() returns true.                        *)
(***************************************************************************)
THEOREM ImplementsDelivery ==
    ASSUME "stall" \notin Adversity
    PROVE  Spec => DeliverySpec
<1>1. Init => Delivery!Init
    BY DEF Init, Delivery!Init
<1>2. PeerInv /\ ServeInv /\ WholeInv /\ [Next]_vars => WholeInv'
    BY PeerSteps
<1>3. PeerInv /\ WholeInv /\ [Next]_vars => [Delivery!Next]_(Delivery!vars)
    BY DeliveryNext
<1> QED
    BY <1>1, <1>2, <1>3, PeerStarts, PeerAlways, ServeAlways, PTL
       DEF Spec, DeliverySpec, Delivery!Spec
=============================================================================
