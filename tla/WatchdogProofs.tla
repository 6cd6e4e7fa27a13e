--------------------------- MODULE WatchdogProofs ---------------------------
(***************************************************************************)
(* For every number of retries, every period of the heartbeat check and    *)
(* every set of contents of the history file: restarts never pile up, the  *)
(* screens follow the retries, strangers are closed only before the        *)
(* application has been seen, and only the history file ends the watchdog. *)
(***************************************************************************)
EXTENDS Watchdog, TLAPS

\* One restart at a time: its kill comes first, and leaves nothing that runs.
OneRestart ==
    /\ kills \in 0..1 /\ launches \in 0..1 /\ launched \in 0..1
    /\ kills <= launches
    /\ launches = 1 => elapsed = 0
    /\ launches = 1 /\ kills = 0 => launched = 0

\* What the file says now, and what Step has kept of it, is noted in lapses.
FileNoted == pc \notin {"loop", "quit"} => Lapses(Read) \subseteq lapses

StepNoted ==
    pc \in {"readBeat", "missed", "clearBeat", "react"} /\ ~ InExam(Step, FALSE)
        => "step" \in lapses

\* The types in three parts: counters, times, everything else.
CountType == counter \in 0..(BeatTicks - 1) /\ retry \in 0..(MaxRetries + 1)

TimeType == elapsed \in 0..2 /\ kills \in 0..2 /\ launches \in 0..2 /\ launched \in 0..2

PlainType ==
    /\ pc \in Pc /\ thread \in Threads /\ setup \in Setups
    /\ Step \in Steps \cup {""} /\ screen \in Screens /\ file \in Files
    /\ processRunning \in BOOLEAN /\ isFristTimeLaunch \in BOOLEAN
    /\ posted \in BOOLEAN /\ isRunning \in BOOLEAN
    /\ manual \in BOOLEAN /\ beat \in BOOLEAN
    /\ torn \in BOOLEAN /\ lapses \in SUBSET {"step", "any"}

LEMMA TypeParts == TypeOK <=> CountType /\ TimeType /\ PlainType
  BY DEF TypeOK, CountType, TimeType, PlainType

\* The constants are positive numbers.
LEMMA Numbers == BeatTicks \in Nat /\ MaxRetries \in Nat /\ BeatTicks > 0 /\ MaxRetries > 0
  BY BeatAssumption, RetriesAssumption

(***************************************************************************)
(* The waiting screen, the error page and the retry counter stay together  *)
(* while the history file turns the screen cover on and off, and while     *)
(* restarts come from the heartbeat check too.                             *)
(***************************************************************************)
ScreenTellsRetries ==
    pc # "quit" =>
        /\ screen = "hidden" <=> retry = 0
        /\ screen = "error" <=> retry > MaxRetries

IInv ==
    /\ TypeOK /\ OneRestart /\ ScreenTellsRetries /\ SightingEndsFirstLaunch
    /\ FileNoted /\ StepNoted

\* A read yields a step or nothing, and two flags.
LEMMA ReadType ==
    ASSUME TypeOK
    PROVE  /\ Read.step \in Steps \cup {""}
           /\ Read.any \in BOOLEAN /\ Read.cover \in BOOLEAN
           /\ ~ torn => Read = file
  BY FilesAssumption DEF TypeOK, Read, History, Steps

\* Lapses are two, and "step" is one exactly if the step is no exam's.
LEMMA LapsesType ==
    ASSUME NEW f
    PROVE  /\ Lapses(f) \in SUBSET {"step", "any"}
           /\ "step" \in Lapses(f) <=> ~ InExam(f.step, FALSE)
           /\ "any" \in Lapses(f) <=> ~ f.any
  BY DEF Lapses

\* Restart is one new restart, or none.
LEMMA RestartType ==
    ASSUME TypeOK, OneRestart, Restart
    PROVE  /\ elapsed' \in 0..2 /\ thread' = thread /\ posted' = posted
           /\ kills' \in 0..1 /\ launches' \in 0..1 /\ kills' <= launches'
           /\ launches' = 1 => elapsed' = 0
           /\ launches' = 1 /\ kills' = 0 => launched = 0
  <1>t. elapsed \in 0..2
    BY DEF TypeOK
  <1>1. CASE elapsed > 0 /\ elapsed' = 0 /\ kills' = kills + 1 /\ launches' = launches + 1
             /\ UNCHANGED <<thread, posted>>
    <2>1. launches = 0 /\ kills = 0
      BY <1>1, <1>t DEF OneRestart
    <2>2. QED
      BY <1>1, <2>1
  <1>2. CASE UNCHANGED timerVars
    BY <1>2, <1>t DEF OneRestart, timerVars
  <1>3. QED
    BY <1>1, <1>2 DEF Restart

LEMMA InitInv == Init => IInv
  <1> SUFFICES ASSUME Init PROVE IInv
    OBVIOUS
  <1>0. /\ counter = 0 /\ retry = 0 /\ elapsed = 0 /\ kills = 0 /\ launches = 0
        /\ launched = 0 /\ screen = "hidden" /\ pc = "loop" /\ ~ processRunning
    BY DEF Init
  <1>1. CountType /\ TimeType
    BY <1>0, Numbers DEF CountType, TimeType
  <1>2. PlainType
    BY DEF Init, PlainType, Pc, Threads, Screens
  <1>3. OneRestart /\ SightingEndsFirstLaunch /\ FileNoted /\ StepNoted
    BY <1>0 DEF OneRestart, SightingEndsFirstLaunch, FileNoted, StepNoted
  <1>4. ScreenTellsRetries
    BY <1>0, Numbers DEF ScreenTellsRetries
  <1>5. QED
    BY <1>1, <1>2, <1>3, <1>4, TypeParts DEF IInv

-----------------------------------------------------------------------------
(* One lemma per part of the invariant *)

LEMMA CountStep == IInv /\ [Next]_vars => CountType'
  <1> SUFFICES ASSUME IInv, [Next]_vars PROVE CountType'
    OBVIOUS
  <1>a. CountType
    BY TypeParts DEF IInv
  <1> USE Numbers, <1>a DEF CountType, mainVars
  <1>0. CASE UNCHANGED vars
    BY <1>0 DEF vars
  <1>1. CASE Thread \/ ThreadEnds \/ Control \/ Timeout \/ process \/ processFails
    BY <1>1 DEF Thread, ThreadLooks, ThreadNotes, ThreadEnds, Control, StartMonitoring,
                StopMonitoring, Timeout, process, processFails
  <1>2. CASE OnAppCrash
    BY <1>2 DEF OnAppCrash
  <1>3. CASE ReadBeat \/ MissedBeat \/ ClearBeat \/ ReactKeep \/ QuitWatchDog
    BY <1>3 DEF ReadBeat, MissedBeat, ClearBeat, ReactKeep, QuitWatchDog
  <1>4. CASE ReactUp \/ ReactDown
    BY <1>4 DEF ReactUp, ReactDown
  <1>5. CASE Timers \/ App \/ KillOtherApplications
    BY <1>5 DEF Timers, KillProctortrackIfNotResponding, LaunchApp, App, AppEnds,
                UserStarts, Beat, WriteHistory, KillOtherApplications, EnumWindowProc2
  <1>6. QED
    BY <1>0, <1>1, <1>2, <1>3, <1>4, <1>5 DEF Next, Handler, Terminated

LEMMA PlainStep == IInv /\ [Next]_vars => PlainType'
  <1> SUFFICES ASSUME IInv, [Next]_vars PROVE PlainType'
    OBVIOUS
  <1>a. PlainType
    BY TypeParts DEF IInv
  <1>b. TypeOK
    BY DEF IInv
  <1> USE <1>a DEF PlainType, seenVars, mainVars, appVars, fileVars
  <1>0. CASE UNCHANGED vars
    BY <1>0 DEF vars, timerVars
  <1>1. CASE ThreadLooks \/ ThreadNotes \/ ThreadEnds \/ StartMonitoring \/ StopMonitoring
    BY <1>1, ZenonT(30) DEF ThreadLooks, ThreadNotes, ThreadEnds, StartMonitoring, StopMonitoring,
                Threads
  <1>2. CASE Timeout \/ process \/ processFails
    BY <1>2, LapsesType DEF Timeout, process, processFails, Sighting, AppUp, Pc
  <1>3. CASE OnAppCrash \/ ReadBeat \/ ClearBeat
    BY <1>3, <1>b, ReadType, ZenonT(30) DEF OnAppCrash, ReadBeat, ClearBeat, Pc, timerVars
  <1>4. CASE MissedBeat
    BY <1>4, <1>b, ReadType DEF MissedBeat, Pc, Restart, timerVars
  <1>5. CASE ReactUp \/ ReactKeep \/ QuitWatchDog
    BY <1>5 DEF ReactUp, ReactKeep, QuitWatchDog, Return, Pc, Screens, timerVars
  <1>6. CASE ReactDown
    BY <1>6 DEF ReactDown, Restart, Return, Pc, Screens, timerVars
  <1>7. CASE KillProctortrackIfNotResponding \/ LaunchApp
    BY <1>7, ZenonT(30) DEF KillProctortrackIfNotResponding, LaunchApp
  <1>8. CASE AppEnds \/ UserStarts \/ Beat \/ KillOtherApplications
    BY <1>8, ZenonT(30) DEF AppEnds, UserStarts, Beat, KillOtherApplications,
                EnumWindowProc2, timerVars
  <1>9. CASE WriteHistory
    <2>1. lapses' = {} \/ lapses' = lapses \cup Lapses(Read')
      BY <1>9 DEF WriteHistory
    <2>2. lapses' \in SUBSET {"step", "any"}
      BY <2>1, LapsesType
    <2>3. torn' \in BOOLEAN /\ file' \in Files
      BY <1>9 DEF WriteHistory
    <2>4. QED
      BY <1>9, <2>2, <2>3 DEF WriteHistory, timerVars
  <1>10. QED
    BY <1>0, <1>1, <1>2, <1>3, <1>4, <1>5, <1>6, <1>7, <1>8, <1>9
       DEF Next, Thread, Handler, Timers, App, Control, Terminated

LEMMA RestartStep == IInv /\ [Next]_vars => OneRestart' /\ elapsed' \in 0..2
  <1> SUFFICES ASSUME IInv, [Next]_vars PROVE OneRestart' /\ elapsed' \in 0..2
    OBVIOUS
  <1>a. elapsed \in 0..2
    BY DEF IInv, TypeOK
  <1> USE <1>a DEF IInv, OneRestart, seenVars, mainVars, timerVars, appVars, fileVars
  <1>0. CASE UNCHANGED vars
    BY <1>0 DEF vars
  <1>1. CASE ThreadLooks \/ ThreadNotes \/ ThreadEnds \/ StartMonitoring \/ StopMonitoring
    BY <1>1 DEF ThreadLooks, ThreadNotes, ThreadEnds, StartMonitoring, StopMonitoring
  <1>2. CASE Timeout
    BY <1>2 DEF Timeout
  <1>b. CASE process \/ processFails
    BY <1>b DEF process, processFails
  <1>3. CASE OnAppCrash \/ ReadBeat \/ ClearBeat \/ ReactUp \/ ReactKeep \/ QuitWatchDog
    BY <1>3 DEF OnAppCrash, ReadBeat, ClearBeat, ReactUp, ReactKeep, QuitWatchDog
  <1>4. CASE MissedBeat
    BY <1>4, RestartType DEF MissedBeat
  <1>5. CASE ReactDown
    BY <1>5, RestartType DEF ReactDown
  <1>6. CASE KillProctortrackIfNotResponding \/ LaunchApp
    BY <1>6 DEF KillProctortrackIfNotResponding, LaunchApp
  <1>7. CASE AppEnds \/ UserStarts \/ Beat \/ WriteHistory \/ KillOtherApplications
    BY <1>7 DEF AppEnds, UserStarts, Beat, WriteHistory, KillOtherApplications, EnumWindowProc2
  <1>8. QED
    BY <1>0, <1>1, <1>2, <1>b, <1>3, <1>4, <1>5, <1>6, <1>7
       DEF Next, Thread, Handler, Timers, App, Control, Terminated

LEMMA ScreenStep == IInv /\ [Next]_vars => ScreenTellsRetries'
  <1> SUFFICES ASSUME IInv, [Next]_vars PROVE ScreenTellsRetries'
    OBVIOUS
  <1> USE DEF IInv, ScreenTellsRetries, seenVars, mainVars, timerVars, appVars, fileVars
  <1>0. CASE UNCHANGED vars
    BY <1>0 DEF vars
  <1>1. CASE Thread \/ ThreadEnds \/ Control \/ Timeout \/ process \/ processFails
    BY <1>1 DEF Thread, ThreadLooks, ThreadNotes, ThreadEnds, Control, StartMonitoring,
                StopMonitoring, Timeout, process, processFails
  <1>2. CASE OnAppCrash \/ ReadBeat \/ MissedBeat \/ ClearBeat \/ ReactKeep
    BY <1>2 DEF OnAppCrash, ReadBeat, MissedBeat, ClearBeat, ReactKeep
  <1>3. CASE ReactUp \/ QuitWatchDog
    <2>1. pc' = "quit" \/ (retry' = 0 /\ screen' = "hidden")
      BY <1>3 DEF ReactUp, QuitWatchDog, Return
    <2>2. QED
      BY <2>1, Numbers
  <1>4. CASE ReactDown
    <2>1. /\ pc = "down"
          /\ \/ retry' = retry /\ screen' = screen
             \/ retry < MaxRetries /\ retry' = retry + 1 /\ screen' = "waiting"
             \/ retry' = MaxRetries + 1 /\ screen' = "error"
      BY <1>4 DEF ReactDown
    <2>2. retry \in 0..(MaxRetries + 1)
      BY DEF TypeOK
    <2>3. retry \in Nat
      BY <2>2, Numbers
    <2>4. QED
      BY <2>1, <2>3, Numbers
  <1>5. CASE Timers \/ App \/ KillOtherApplications
    BY <1>5 DEF Timers, KillProctortrackIfNotResponding, LaunchApp, App, AppEnds,
                UserStarts, Beat, WriteHistory, KillOtherApplications, EnumWindowProc2
  <1>6. QED
    BY <1>0, <1>1, <1>2, <1>3, <1>4, <1>5 DEF Next, Handler, Terminated

LEMMA SightingStep == IInv /\ [Next]_vars => SightingEndsFirstLaunch'
  <1> SUFFICES ASSUME IInv, [Next]_vars PROVE SightingEndsFirstLaunch'
    OBVIOUS
  <1> USE DEF IInv, SightingEndsFirstLaunch, TypeOK, seenVars, timerVars
  <1>0. CASE UNCHANGED vars
    BY <1>0 DEF vars
  <1>1. CASE Thread \/ ThreadEnds \/ Control \/ Timeout
    BY <1>1 DEF Thread, ThreadLooks, ThreadNotes, ThreadEnds, Control, StartMonitoring,
                StopMonitoring, Timeout
  <1>2. CASE process \/ processFails
    BY <1>2 DEF process, processFails
  <1>3. CASE Handler
    BY <1>3 DEF Handler, OnAppCrash, ReadBeat, MissedBeat, ClearBeat, ReactUp, ReactKeep,
                ReactDown, QuitWatchDog, Restart
  <1>4. CASE Timers \/ App \/ KillOtherApplications
    BY <1>4 DEF Timers, KillProctortrackIfNotResponding, LaunchApp, App, AppEnds,
                UserStarts, Beat, WriteHistory, KillOtherApplications, EnumWindowProc2
  <1>5. QED
    BY <1>0, <1>1, <1>2, <1>3, <1>4 DEF Next, Terminated

LEMMA NotedStep == IInv /\ [Next]_vars => FileNoted' /\ StepNoted'
  <1> SUFFICES ASSUME IInv, [Next]_vars PROVE FileNoted' /\ StepNoted'
    OBVIOUS
  <1> USE DEF IInv, FileNoted, StepNoted, mainVars, fileVars
  <1>r. ASSUME UNCHANGED <<file, torn>> PROVE Read' = Read
    BY <1>r DEF Read
  <1>0. CASE UNCHANGED vars
    BY <1>0, <1>r DEF vars
  <1>1. CASE Thread \/ ThreadEnds \/ Control \/ Timeout \/ processFails
    BY <1>1, <1>r DEF Thread, ThreadLooks, ThreadNotes, ThreadEnds, Control, StartMonitoring,
                StopMonitoring, Timeout, processFails
  <1>2. CASE process
    BY <1>2, <1>r DEF process
  <1>3. CASE OnAppCrash \/ MissedBeat
    <2>1. /\ Step' = Read.step /\ Read' = Read /\ lapses' = lapses
          /\ Lapses(Read) \subseteq lapses
      BY <1>3, <1>r DEF OnAppCrash, MissedBeat
    <2>2. ~ InExam(Step', FALSE) => "step" \in lapses
      BY <2>1, LapsesType
    <2>3. QED
      BY <2>1, <2>2
  <1>4. CASE ReadBeat \/ ClearBeat \/ ReactKeep
    BY <1>4, <1>r DEF ReadBeat, ClearBeat, ReactKeep
  <1>5. CASE ReactUp \/ ReactDown \/ QuitWatchDog
    BY <1>5 DEF ReactUp, ReactDown, QuitWatchDog, Return
  <1>6. CASE Timers \/ AppEnds \/ UserStarts \/ Beat \/ KillOtherApplications
    BY <1>6, <1>r DEF Timers, KillProctortrackIfNotResponding, LaunchApp, AppEnds, UserStarts,
                Beat, KillOtherApplications, EnumWindowProc2
  <1>7. CASE WriteHistory
    BY <1>7 DEF WriteHistory
  <1>8. QED
    BY <1>0, <1>1, <1>2, <1>3, <1>4, <1>5, <1>6, <1>7 DEF Next, Handler, App, Terminated

LEMMA TypeStep == IInv /\ [Next]_vars => TypeOK'
  <1>1. IInv /\ [Next]_vars => TimeType'
    BY RestartStep DEF OneRestart, TimeType
  <1>2. TypeOK' <=> CountType' /\ TimeType' /\ PlainType'
    BY DEF TypeOK, CountType, TimeType, PlainType
  <1>3. QED
    BY CountStep, PlainStep, <1>1, <1>2

LEMMA Invariance == Spec => []IInv
  <1>1. IInv /\ [Next]_vars => IInv'
    BY TypeStep, RestartStep, ScreenStep, SightingStep, NotedStep DEF IInv
  <1>2. QED
    BY InitInv, <1>1, PTL DEF Spec

-----------------------------------------------------------------------------
(* Theorems *)

\* Every variable keeps its type.
THEOREM TypeCorrect == Spec => []TypeOK
  BY Invariance, PTL DEF IInv

\* Two causes that ask for a restart start one, and one instance comes of it.
THEOREM RestartsOnce == Spec => []OneInstance
  <1>1. IInv => OneInstance
    BY DEF IInv, OneRestart, OneInstance
  <1>2. QED
    BY Invariance, <1>1, PTL

\* The screens tell how many retries there have been.
THEOREM ScreensFollow == Spec => []ScreenTellsRetries
  BY Invariance, PTL DEF IInv

\* An application that has been seen is no stranger's victim (KillOtherApplications).
THEOREM SeenOnceIsKnown == Spec => []SightingEndsFirstLaunch
  BY Invariance, PTL DEF IInv

\* Nothing the watchdog remembers from earlier calls makes it leave an exam.
THEOREM OnlyTheFileQuits == Spec => QuitsOutsideExam
  <1>1. IInv /\ [Next]_vars
          => [pc' = "quit" /\ pc # "quit" => lapses = {"step", "any"}]_vars
    <2> SUFFICES ASSUME IInv, Next, pc' = "quit", pc # "quit"
                 PROVE  lapses = {"step", "any"}
      OBVIOUS
    <2> USE DEF mainVars
    <2>1. CASE QuitWatchDog
      <3>1. "any" \in Lapses(Read)
        BY <2>1, LapsesType DEF QuitWatchDog, InExam
      <3>2. ~ InExam(Step, FALSE) /\ pc = "react"
        BY <2>1 DEF QuitWatchDog, InExam
      <3>3. "step" \in lapses /\ "any" \in lapses /\ lapses \in SUBSET {"step", "any"}
        BY <3>1, <3>2 DEF IInv, TypeOK, FileNoted, StepNoted
      <3>4. QED
        BY <3>3
    <2>2. CASE Thread \/ ThreadEnds \/ Control \/ Timeout \/ process \/ processFails
      BY <2>2 DEF Thread, ThreadLooks, ThreadNotes, ThreadEnds, Control, StartMonitoring,
                  StopMonitoring, Timeout, process, processFails
    <2>3. CASE OnAppCrash \/ ReadBeat \/ MissedBeat \/ ClearBeat \/ ReactUp \/ ReactKeep
               \/ ReactDown
      BY <2>3 DEF OnAppCrash, ReadBeat, MissedBeat, ClearBeat, ReactUp, ReactKeep, ReactDown,
                  Return
    <2>4. CASE Timers \/ App \/ KillOtherApplications
      BY <2>4 DEF Timers, KillProctortrackIfNotResponding, LaunchApp, App, AppEnds,
                  UserStarts, Beat, WriteHistory, KillOtherApplications, EnumWindowProc2
    <2>5. QED
      BY <2>1, <2>2, <2>3, <2>4 DEF Next, Handler, Terminated
  <1>2. QED
    BY Invariance, <1>1, PTL DEF Spec, QuitsOutsideExam
=============================================================================
