------------------------------ MODULE Watchdog ------------------------------
(***************************************************************************)
(* ProctoringWatchDog and ProctortrackThread (Windows build): the program  *)
(* that keeps the proctoring application running.                          *)
(*                                                                         *)
(* The thread posts a process() call to the main thread every 10 s, as its *)
(* timer lives in the thread and the receiver in the main thread.          *)
(* process() looks for the application in the process list and calls       *)
(* OnAppCrash(), which restarts it: a single-shot timer kills what is left *)
(* of the application, another one launches it 900 ms later.  Every 7th    *)
(* call checks the application's heartbeat file as well.                   *)
(*                                                                         *)
(* What to do is read, value by value, from the history file, which the    *)
(* application writes at any time, between two reads of one handler too. A *)
(* half-written file reads as one without values, and stays so if the      *)
(* application dies on it.                                                 *)
(*                                                                         *)
(* The result of a look at the process list goes through one global flag,  *)
(* which the thread writes as well when it starts (StartMonitoring).       *)
(*                                                                         *)
(* Time: a period of the thread's timer is 10 s and a restart needs 10 s   *)
(* since the last one, so that the period after a restart may be just too  *)
(* short.  Timers of 100 ms and 1 s end, and handlers return, within the   *)
(* period.                                                                 *)
(***************************************************************************)
EXTENDS Naturals

CONSTANTS
    BeatTicks,   \* OnAppCrash() calls between two heartbeat checks (7)
    MaxRetries,  \* appLaunchRetryCountre up to which it relaunches (5)
    Files,       \* the contents the history file may have
    Setups       \* what the watchdog may have read when it was set up

Steps == {"STEP1", "STEP2", "STEP3"}
History == [step : Steps, any : BOOLEAN, cover : BOOLEAN]

\* app_name is one the watchdog knows, other applications are to be closed
\* (is_close_bl_apps_using_wd), the application's window title is white-listed.
Setup == [named : BOOLEAN, closing : BOOLEAN, listed : BOOLEAN]

ASSUME BeatAssumption == BeatTicks \in Nat \ {0}
ASSUME RetriesAssumption == MaxRetries \in Nat \ {0}
ASSUME FilesAssumption == Files \subseteq History /\ Files # {}
ASSUME SetupsAssumption == Setups \subseteq Setup

VARIABLES
    pc,         \* where the main thread is; "loop" in its event loop
    setup,      \* what CheckRunningApplication() read from the history file
    thread,     \* watchThreaD: its run() has a timer when "running"
    processRunning,     \* the global flag
    isFristTimeLaunch,  \* the application has not been seen yet
    posted,     \* a process() call is posted to the main thread
    isRunning,  \* the argument of OnAppCrash()
    counter,    \* calls since the last heartbeat check
    retry,      \* appLaunchRetryCountre, MaxRetries + 1 standing for more
    Step,       \* the member Step
    elapsed,    \* WaitForAppToLaunch, in periods; 2 stands for more
    kills,      \* pending single-shot timers of KillProctortrackIfNotResponding
    launches,   \* pending single-shot timers of LaunchApp
    screen,     \* what the waiting screen shows
    launched,   \* instances of the application that LaunchApp started
    manual,     \* an instance the user started
    beat,       \* recording_process_state in the heartbeat file
    file,       \* the history file
    torn,       \* the history file is half written
    lapses      \* auxiliary: the values by which the file has asked for no exam
                \* at some time since the current handler began

seenVars  == <<setup, processRunning, isFristTimeLaunch>>
fileVars  == <<file, torn, lapses>>
mainVars  == <<pc, isRunning, counter, retry, Step>>
timerVars == <<thread, posted, elapsed, kills, launches>>
appVars   == <<launched, manual, beat>>
vars == <<seenVars, mainVars, timerVars, screen, appVars, fileVars>>

\* ShowPAge() and showErrorPage() of the waiting screen
Screens == {"hidden", "waiting", "error"}

Pc == {"loop", "onAppCrash", "readBeat", "missed", "clearBeat", "react", "down", "quit"}

Threads == {"starting", "found", "missing", "noted", "running", "quitting", "finished"}

\* The application is in the process list.
AppUp == launched > 0 \/ manual

\* What a look at the process list finds: appName is compared with three names.
Sighting == setup.named /\ AppUp

\* What a read of the history file returns, toBool() and toString() included.
Read == IF torn THEN [step |-> "", any |-> FALSE, cover |-> FALSE] ELSE file

\* There is something to launch, and somewhere to look for a heartbeat.
GetAppRunningLocation == ~ torn
GetThreadHistoryPath == ~ torn

\* What the history file says must be kept running.
InExam(step, any) == step \in {"STEP2", "STEP3"} \/ any
Lapses(f) == (IF InExam(f.step, FALSE) THEN {} ELSE {"step"}) \cup (IF f.any THEN {} ELSE {"any"})

-----------------------------------------------------------------------------
TypeOK ==
    /\ pc \in Pc
    /\ setup \in Setups /\ thread \in Threads
    /\ processRunning \in BOOLEAN /\ isFristTimeLaunch \in BOOLEAN
    /\ posted \in BOOLEAN /\ isRunning \in BOOLEAN
    /\ manual \in BOOLEAN /\ beat \in BOOLEAN
    /\ torn \in BOOLEAN /\ lapses \in SUBSET {"step", "any"}
    /\ counter \in 0..(BeatTicks - 1)
    /\ retry \in 0..(MaxRetries + 1)
    /\ Step \in Steps \cup {""}
    /\ elapsed \in 0..2
    /\ kills \in 0..2 /\ launches \in 0..2 /\ launched \in 0..2
    /\ screen \in Screens
    /\ file \in Files

\* After CheckRunningApplication(); the first period ends 10 s later.
Init ==
    /\ setup \in Setups
    /\ pc = "loop" /\ thread = "starting"
    /\ processRunning = FALSE /\ isFristTimeLaunch = TRUE
    /\ posted = FALSE /\ isRunning = FALSE
    /\ counter = 0 /\ retry = 0 /\ Step = "" /\ elapsed = 0
    /\ kills = 0 /\ launches = 0 /\ screen = "hidden"
    /\ launched = 0 /\ manual \in BOOLEAN /\ beat \in BOOLEAN
    /\ file \in Files /\ torn = FALSE /\ lapses = {}

-----------------------------------------------------------------------------
(* The thread: run() looks for the application once, then has its timers *)

\* Mutant: run() takes every start for the first one.
ThreadLooks_forgets ==
    /\ thread = "starting"
    /\ thread' \in {IF Sighting THEN "found" ELSE "missing", "running"}
    /\ isFristTimeLaunch' = TRUE
    /\ UNCHANGED <<setup, processRunning, mainVars, posted, elapsed, kills, launches,
                   screen, appVars, fileVars>>

\* process(true): what it finds.  The snapshot may fail and leave things alone.
ThreadLooks ==
    /\ thread = "starting"
    /\ thread' \in {IF Sighting THEN "found" ELSE "missing", "running"}
    /\ UNCHANGED <<seenVars, mainVars, posted, elapsed, kills, launches, screen,
                   appVars, fileVars>>

\* It writes the flag, and the second one if it has found the application.
ThreadNotes ==
    /\ \/ /\ thread \in {"found", "missing"}
          /\ processRunning' = (thread = "found")
          /\ thread' = IF thread = "found" THEN "noted" ELSE "running"
          /\ UNCHANGED isFristTimeLaunch
       \/ /\ thread = "noted" /\ thread' = "running"
          /\ isFristTimeLaunch' = FALSE /\ UNCHANGED processRunning
    /\ UNCHANGED <<setup, mainVars, posted, elapsed, kills, launches, screen, appVars,
                   fileVars>>

\* The end of a period.  The timers of the last restart have run by then.
Timeout ==
    /\ thread = "running"
    /\ pc = "loop" /\ ~ posted /\ kills = 0 /\ launches = 0
    /\ posted' = TRUE
    /\ elapsed' = IF elapsed = 2 THEN 2 ELSE elapsed + 1
    /\ UNCHANGED <<seenVars, mainVars, thread, kills, launches, screen, appVars,
                   fileVars>>

\* start() does nothing on a thread that has not finished yet.
StartMonitoring ==
    /\ pc = "loop"
    /\ thread' = IF thread = "finished" THEN "starting" ELSE thread
    /\ UNCHANGED <<seenVars, mainVars, posted, elapsed, kills, launches, screen,
                   appVars, fileVars>>

\* quit(): exec() returns some time later; one that comes before exec() waits for it.
StopMonitoring ==
    /\ pc = "loop" /\ thread = "running"
    /\ thread' = "quitting"
    /\ UNCHANGED <<seenVars, mainVars, posted, elapsed, kills, launches, screen,
                   appVars, fileVars>>

ThreadEnds ==
    /\ thread = "quitting" /\ thread' = "finished"
    /\ UNCHANGED <<seenVars, mainVars, posted, elapsed, kills, launches, screen,
                   appVars, fileVars>>

-----------------------------------------------------------------------------
(* RestartProctortrack(): effective 10 s after the last one *)

\* Mutant: no guard on the time since the last restart.
Restart_always ==
    /\ elapsed' = 0 /\ kills' = kills + 1 /\ launches' = launches + 1
    /\ UNCHANGED <<thread, posted>>

\* elapsed() >= 10000 is open after one period.
Restart ==
    \/ /\ elapsed > 0
       /\ elapsed' = 0 /\ kills' = kills + 1 /\ launches' = launches + 1
       /\ UNCHANGED <<thread, posted>>
    \/ elapsed < 2 /\ UNCHANGED timerVars

-----------------------------------------------------------------------------
(* The main thread: process() and OnAppCrash() *)

\* The process list is read and its result noted; OnAppCrash() is called next.
process ==
    /\ pc = "loop" /\ posted
    /\ posted' = FALSE
    /\ processRunning' = Sighting
    /\ isFristTimeLaunch' = (isFristTimeLaunch /\ ~ Sighting)
    /\ pc' = "onAppCrash" /\ lapses' = Lapses(Read)
    /\ UNCHANGED <<setup, isRunning, counter, retry, Step, thread, elapsed, kills,
                   launches, screen, appVars, file, torn>>

\* No snapshot: the call is lost.
processFails ==
    /\ pc = "loop" /\ posted
    /\ posted' = FALSE
    /\ UNCHANGED <<seenVars, mainVars, thread, elapsed, kills, launches, screen,
                   appVars, fileVars>>

\* The window in front belongs to a stranger: its process is terminated.
EnumWindowProc2 ==
    /\ ~ setup.listed
    /\ \/ launched > 0 /\ launched' = launched - 1 /\ UNCHANGED manual
       \/ manual /\ manual' = FALSE /\ UNCHANGED launched

\* Called every second; the applications that are no concern of ours left out.
KillOtherApplications ==
    /\ pc = "loop" /\ thread \in {"running", "quitting"}
    /\ isFristTimeLaunch /\ setup.closing
    /\ EnumWindowProc2
    /\ UNCHANGED <<seenVars, mainVars, timerVars, screen, beat, fileVars>>

-----------------------------------------------------------------------------
\* Mutant: the check comes one call too late.
OnAppCrash_late ==
    /\ pc = "onAppCrash" /\ isRunning' = processRunning
    /\ Step' = Read.step
    /\ IF counter + 1 > BeatTicks
       THEN counter' = 0 /\ pc' = "readBeat"
       ELSE counter' = counter + 1 /\ pc' = "react"
    /\ UNCHANGED <<seenVars, retry, timerVars, screen, appVars, fileVars>>

\* Mutant: no heartbeat check.
OnAppCrash_noCheck ==
    /\ pc = "onAppCrash" /\ isRunning' = processRunning
    /\ Step' = Read.step /\ counter' = counter /\ pc' = "react"
    /\ UNCHANGED <<seenVars, retry, timerVars, screen, appVars, fileVars>>

\* The argument is the global flag as it is now.
OnAppCrash ==
    /\ pc = "onAppCrash" /\ isRunning' = processRunning
    /\ Step' = Read.step
    /\ IF counter + 1 >= BeatTicks
       THEN counter' = 0 /\ pc' = "readBeat"
       ELSE counter' = counter + 1 /\ pc' = "react"
    /\ UNCHANGED <<seenVars, retry, timerVars, screen, appVars, fileVars>>

\* Mutant: an application that beats counts as frozen.
ReadBeat_inverted ==
    /\ pc = "readBeat"
    /\ pc' = IF beat /\ GetThreadHistoryPath THEN "missed" ELSE "clearBeat"
    /\ UNCHANGED <<seenVars, isRunning, counter, retry, Step, timerVars, screen,
                   appVars, fileVars>>

\* ProcessRecordingThread(): the history file tells where the heartbeat file is.
ReadBeat ==
    /\ pc = "readBeat"
    /\ pc' = IF beat /\ GetThreadHistoryPath THEN "clearBeat" ELSE "missed"
    /\ UNCHANGED <<seenVars, isRunning, counter, retry, Step, timerVars, screen,
                   appVars, fileVars>>

\* No heartbeat: the application is restarted if it is in STEP2.
MissedBeat ==
    /\ pc = "missed" /\ pc' = "react"
    /\ Step' = Read.step
    /\ IF Read.step = "STEP2" THEN Restart ELSE UNCHANGED timerVars
    /\ UNCHANGED <<seenVars, isRunning, counter, retry, screen, appVars, fileVars>>

\* Mutant: the heartbeat is never taken back.
ClearBeat_keeps ==
    /\ pc = "clearBeat" /\ pc' = "react"
    /\ UNCHANGED <<seenVars, isRunning, counter, retry, Step, timerVars, screen,
                   appVars, fileVars>>

\* A heartbeat is taken back, so that only a new one counts the next time.
ClearBeat ==
    /\ pc = "clearBeat" /\ pc' = "react"
    /\ beat' = FALSE
    /\ UNCHANGED <<seenVars, isRunning, counter, retry, Step, timerVars, screen,
                   launched, manual, fileVars>>

\* OnAppCrash() returns; every call reads Step anew.
Return == pc' = "loop" /\ isRunning' = FALSE /\ Step' = "" /\ lapses' = {}

\* Mutant: the error page is left alone.
ReactUp_error ==
    /\ pc = "react" /\ isRunning /\ Return
    /\ IF screen = "error" THEN UNCHANGED <<retry, screen>>
                           ELSE retry' = 0 /\ screen' = "hidden"
    /\ UNCHANGED <<seenVars, counter, timerVars, appVars, file, torn>>

\* The application runs.
ReactUp ==
    /\ pc = "react" /\ isRunning
    /\ retry' = 0 /\ screen' = "hidden" /\ Return
    /\ UNCHANGED <<seenVars, counter, timerVars, appVars, file, torn>>

\* The application does not run and the history file wants it to.
ReactKeep ==
    /\ pc = "react" /\ ~ isRunning /\ InExam(Step, Read.any)
    /\ pc' = "down"
    /\ UNCHANGED <<seenVars, isRunning, counter, retry, Step, timerVars, screen,
                   appVars, fileVars>>

\* Mutant: it gives up without the error page.
ReactDown_silent ==
    /\ pc = "down" /\ Return
    /\ \/ /\ ~ Read.cover
          /\ Restart /\ UNCHANGED <<retry, screen>>
       \/ /\ Read.cover /\ retry < MaxRetries
          /\ retry' = retry + 1 /\ screen' = "waiting" /\ Restart
       \/ /\ Read.cover /\ retry >= MaxRetries
          /\ UNCHANGED <<retry, screen, timerVars>>
    /\ UNCHANGED <<seenVars, counter, appVars, file, torn>>

(***************************************************************************)
(* One more read of the file: the waiting screen is shown, if it says so,  *)
(* and the application restarted, or, at the sixth attempt in a row, the   *)
(* error page is shown and nothing restarted.                              *)
(***************************************************************************)
ReactDown ==
    /\ pc = "down" /\ Return
    /\ \/ /\ ~ Read.cover
          /\ Restart /\ UNCHANGED <<retry, screen>>
       \/ /\ Read.cover /\ retry < MaxRetries
          /\ retry' = retry + 1 /\ screen' = "waiting" /\ Restart
       \/ /\ Read.cover /\ retry >= MaxRetries
          /\ retry' = MaxRetries + 1 /\ screen' = "error" /\ UNCHANGED timerVars
    /\ UNCHANGED <<seenVars, counter, appVars, file, torn>>

\* Mutant: launch_app_in_all_conditions is not read again.
QuitWatchDog_stale ==
    /\ pc = "react" /\ ~ isRunning /\ ~ InExam(Step, FALSE)
    /\ pc' = "quit" /\ screen' = "hidden"
    /\ UNCHANGED <<seenVars, isRunning, counter, retry, Step, timerVars, appVars,
                   fileVars>>

\* No exam, no application: QuitWatchDog(), which closes all windows.
QuitWatchDog ==
    /\ pc = "react" /\ ~ isRunning /\ ~ InExam(Step, Read.any)
    /\ pc' = "quit" /\ screen' = "hidden"
    /\ UNCHANGED <<seenVars, isRunning, counter, retry, Step, timerVars, appVars,
                   fileVars>>

-----------------------------------------------------------------------------
(* The timers of a restart; the kill of one comes before its launch *)

\* taskkill ends every instance, whether app_name can be read or not.
KillProctortrackIfNotResponding ==
    /\ pc = "loop" /\ kills > 0
    /\ kills' = kills - 1
    /\ launched' = 0 /\ manual' = FALSE
    /\ UNCHANGED <<seenVars, mainVars, thread, posted, elapsed, launches, screen, beat,
                   fileVars>>

\* startDetached() of what app_location says, which may fail.
LaunchApp ==
    /\ pc = "loop" /\ launches > 0 /\ kills = 0
    /\ launches' = launches - 1
    /\ launched' \in IF GetAppRunningLocation THEN {launched, launched + 1} ELSE {launched}
    /\ UNCHANGED <<seenVars, mainVars, thread, posted, elapsed, kills, screen, manual,
                   beat, fileVars>>

-----------------------------------------------------------------------------
(* The application, started by LaunchApp or by the user *)

AppEnds ==
    /\ \/ launched > 0 /\ launched' = launched - 1 /\ UNCHANGED manual
       \/ manual /\ manual' = FALSE /\ UNCHANGED launched
    /\ UNCHANGED <<seenVars, mainVars, timerVars, screen, beat, fileVars>>

UserStarts ==
    /\ ~ AppUp /\ manual' = TRUE
    /\ UNCHANGED <<seenVars, mainVars, timerVars, screen, launched, beat, fileVars>>

\* The recording thread of the application reports that it works.
Beat ==
    /\ AppUp /\ beat' = TRUE
    /\ UNCHANGED <<seenVars, mainVars, timerVars, screen, launched, manual, fileVars>>

\* The application writes the history file, in two steps if somebody looks.
WriteHistory ==
    /\ AppUp
    /\ \/ ~ torn /\ torn' = TRUE /\ UNCHANGED file
       \/ torn' = FALSE /\ file' \in Files
    /\ lapses' = IF pc = "loop" THEN {} ELSE lapses \cup Lapses(Read')
    /\ UNCHANGED <<seenVars, mainVars, timerVars, screen, appVars>>

-----------------------------------------------------------------------------
Handler == OnAppCrash \/ ReadBeat \/ MissedBeat \/ ClearBeat \/ ReactUp \/ ReactKeep
           \/ ReactDown \/ QuitWatchDog
Timers  == KillProctortrackIfNotResponding \/ LaunchApp
Thread  == ThreadLooks \/ ThreadNotes
App     == AppEnds \/ UserStarts \/ Beat \/ WriteHistory
Control == StartMonitoring \/ StopMonitoring

Terminated == pc = "quit" /\ UNCHANGED vars

Next ==
    \/ Thread \/ Timeout \/ ThreadEnds \/ process \/ processFails
    \/ KillOtherApplications \/ Handler \/ Timers
    \/ pc # "quit" /\ (App \/ Control)
    \/ Terminated

Spec == Init /\ [][Next]_vars

(***************************************************************************)
(* The event loop runs, its timers fire, the process list can be read and  *)
(* a launch succeeds some time if it is attempted again and again.         *)
(***************************************************************************)
Launches == LaunchApp /\ launched' > launched
FairSpec ==
    /\ Spec
    /\ WF_vars(Thread) /\ WF_vars(Handler) /\ WF_vars(Timers) /\ WF_vars(Timeout)
    /\ SF_vars(process) /\ SF_vars(Launches)

-----------------------------------------------------------------------------
(* Properties *)

(***************************************************************************)
(* The watchdog restarts the application once at a time, although one      *)
(* OnAppCrash() may call RestartProctortrack() for a missing heartbeat and *)
(* again for a missing process: two launches never pile up, and LaunchApp  *)
(* never adds an instance to one it started before.                        *)
(***************************************************************************)
OneInstance == kills <= 1 /\ launches <= 1 /\ launched <= 1

(***************************************************************************)
(* Strangers are closed before the application has been seen, never after: *)
(* once the flag says that it runs, isFristTimeLaunch is over, also when   *)
(* the thread is started anew and writes both flags while the main thread  *)
(* writes them (between its two writes excepted).                          *)
(***************************************************************************)
SightingEndsFirstLaunch == processRunning /\ thread # "noted" => ~ isFristTimeLaunch

(***************************************************************************)
(* The watchdog quits only if, since this one handler began, the history   *)
(* file has asked for no exam both by its step and by its flag, which a    *)
(* half-written file does, too.  Nothing it remembers from earlier calls   *)
(* makes it leave an exam, whatever is written to the file between two     *)
(* reads.  (The two values need not have been in the file together.)       *)
(***************************************************************************)
QuitsOutsideExam ==
    [][pc' = "quit" /\ pc # "quit" => lapses = {"step", "any"}]_vars

\* The timer runs on, and the file can be read.
Monitoring == thread = "running" /\ pc # "quit" /\ ~ torn

(***************************************************************************)
(* In STEP2 the application always comes back, although the watchdog gives *)
(* up after MaxRetries calls: the heartbeat check restarts it all the same.*)
(***************************************************************************)
ExamAppReturns == <>[](Monitoring /\ file.step = "STEP2") => []<>AppUp

(***************************************************************************)
(* Whatever must be kept running either comes back or the user is told.    *)
(***************************************************************************)
NeverAbandoned ==
    <>[](Monitoring /\ InExam(file.step, file.any)) => []<>(AppUp \/ screen = "error")

(***************************************************************************)
(* The waiting screen does not stay over an application that runs.         *)
(***************************************************************************)
ScreenLifts == <>[](Monitoring /\ setup.named /\ AppUp) => <>[](screen = "hidden")

(***************************************************************************)
(* One heartbeat counts for one check: an application in STEP2 whose       *)
(* recording thread is dead is killed and launched again.                  *)
(***************************************************************************)
FrozenAppRestarts ==
    /\ <>[](Monitoring /\ file.step = "STEP2")
    /\ <>[][beat' => beat]_vars
    => []<>(kills > 0)

(***************************************************************************)
(* A healthy application is left alone in the end: one that nothing else   *)
(* ends, the user, a crash or KillOtherApplications(), and that has beaten *)
(* whenever its heartbeat is checked, is not killed again and again for a  *)
(* sighting or a heartbeat that came too late.                             *)
(***************************************************************************)
HealthyAppStays ==
    /\ <>[](Monitoring /\ setup.named /\ (pc = "readBeat" => beat))
    /\ <>[][~ AppEnds]_vars
    => <>[]AppUp \/ <>[](~ AppUp)
=============================================================================
