----------------------------- MODULE LockedFile -----------------------------
(***************************************************************************)
(* QtLockedFile on Windows (qtlockedfile_win.cpp): a reader/writer lock    *)
(* made of named kernel mutexes.                                           *)
(*                                                                         *)
(*   wmutex   one mutex that a writer holds as long as it has the lock and *)
(*            a reader only while it looks for a slot;                     *)
(*   slots    up to MAX_READERS mutexes, "<name>0", "<name>1", ...: each   *)
(*            reader owns one, and a writer waits until it owns every slot *)
(*            that exists.                                                 *)
(*                                                                         *)
(* A named mutex exists as long as some process has a handle on it.  The   *)
(* end of a process releases what it owns (the mutex is then "abandoned",  *)
(* which lock() takes for acquired) and closes its handles.  The names are *)
(* local to a Windows session: processes of two sessions have different    *)
(* mutexes for the same file.                                              *)
(*                                                                         *)
(* Each process has one open QtLockedFile object for the file, as the      *)
(* class documentation requires, and uses it from one thread.              *)
(***************************************************************************)
EXTENDS Integers, FiniteSets

CONSTANTS
    Procs,       \* the processes
    Session,     \* Session[p]: the Windows session of process p
    MaxReaders,  \* MAX_READERS
    Failures     \* the kernel calls that may fail: "create" a mutex, "open"
                 \* one that exists, "wait" for one

ASSUME SessionAssumption == DOMAIN Session = Procs
ASSUME ReadersAssumption == MaxReaders \in Nat \ {0}
ASSUME FailuresAssumption == Failures \in SUBSET {"create", "open", "wait"}

VARIABLES
    pc,        \* where process p is in lock() or unlock(); "idle" outside
    mode,      \* m_lock_mode
    want,      \* the mode the running lock() call asks for
    block,     \* ... and whether it blocks
    idx,       \* the loop index over the slots
    rmutex,    \* the handle of the reader's slot, or NoHandle
    rmutexes,  \* the handles of the writer
    wOwners,   \* the processes that own the wmutex of their session
    rOwned     \* rOwned[p]: the slots process p owns

vars == <<pc, mode, want, block, idx, rmutex, rmutexes, wOwners, rOwned>>

Modes    == {"NoLock", "ReadLock", "WriteLock"}
Slots    == 0..(MaxReaders - 1)
NoHandle == -1

ReaderPc == {"scan", "try", "create", "tryCreated", "failed", "release"}
WriterPc == {"open", "waitAll", "close"}
Pc == {"idle", "wait", "releaseRead", "closeRead"} \cup ReaderPc \cup WriterPc

Peers(p) == {q \in Procs \ {p} : Session[q] = Session[p]}

-----------------------------------------------------------------------------
(* The kernel's mutexes *)

\* Somebody of p's session has a handle on slot i.
Exists(p, i) ==
    \E q \in Peers(p) \cup {p} : rmutex[q] = i \/ i \in rmutexes[q]

\* Nobody of p's session owns slot i, or the wmutex.
SlotFree(p, i) == \A q \in Peers(p) \cup {p} : i \notin rOwned[q]
WFree(p) == Peers(p) \cup {p} \subseteq Procs \ wOwners

-----------------------------------------------------------------------------
TypeOK ==
    /\ pc \in [Procs -> Pc]
    /\ mode \in [Procs -> Modes]
    /\ want \in [Procs -> Modes]
    /\ block \in [Procs -> BOOLEAN]
    /\ idx \in [Procs -> 0..MaxReaders]
    /\ rmutex \in [Procs -> Slots \cup {NoHandle}]
    /\ rmutexes \in [Procs -> SUBSET Slots]
    /\ wOwners \in SUBSET Procs
    /\ rOwned \in [Procs -> SUBSET Slots]

Init ==
    /\ pc = [p \in Procs |-> "idle"]
    /\ mode = [p \in Procs |-> "NoLock"]
    /\ want = [p \in Procs |-> "NoLock"]
    /\ block = [p \in Procs |-> FALSE]
    /\ idx = [p \in Procs |-> 0]
    /\ rmutex = [p \in Procs |-> NoHandle]
    /\ rmutexes = [p \in Procs |-> {}]
    /\ wOwners = {}
    /\ rOwned = [p \in Procs |-> {}]

-----------------------------------------------------------------------------
(* lock(): from the call to the possession of wmutex *)

Goes(p, from, to) == pc[p] = from /\ pc' = [pc EXCEPT ![p] = to]

\* Back to the caller: parameters and loop index are gone.
Returns(p, from) ==
    /\ Goes(p, from, "idle")
    /\ want' = [want EXCEPT ![p] = "NoLock"]
    /\ block' = [block EXCEPT ![p] = FALSE]
    /\ idx' = [idx EXCEPT ![p] = 0]

\* Mutant: a reader that wants to write keeps its slot meanwhile.
UnlockPc_upgrade(p) == IF mode[p] = "WriteLock" THEN "close" ELSE "wait"

\* Where unlock() starts for the mode the object has.
UnlockPc(p) == CASE mode[p] = "ReadLock"  -> "releaseRead"
                 [] mode[p] = "WriteLock" -> "close"
                 [] OTHER                 -> "wait"

(***************************************************************************)
(* lock(m, b).  A lock of the mode the object has returns at once, another *)
(* one is released first; lock(NoLock) is unlock().                        *)
(***************************************************************************)
Lock(p, m, b) ==
    /\ m # mode[p] /\ (m = "NoLock" => b)
    /\ Goes(p, "idle", UnlockPc(p))
    /\ want' = [want EXCEPT ![p] = m]
    /\ block' = [block EXCEPT ![p] = b]
    /\ UNCHANGED <<mode, idx, rmutex, rmutexes, wOwners, rOwned>>

\* waitMutex(wmutex, block) acquires it, abandoned or not.
AcquireW(p) ==
    /\ WFree(p)
    /\ Goes(p, "wait", IF want[p] = "ReadLock" THEN "scan" ELSE "open")
    /\ wOwners' = wOwners \cup {p}
    /\ idx' = [idx EXCEPT ![p] = 0]
    /\ UNCHANGED <<mode, want, block, rmutex, rmutexes, rOwned>>

\* The wmutex cannot be created, or waited for, or it is taken.
FailW(p) ==
    /\ \/ Failures \cap {"create", "wait"} # {}
       \/ ~ block[p] /\ ~ WFree(p)
    /\ Returns(p, "wait")
    /\ UNCHANGED <<mode, rmutex, rmutexes, wOwners, rOwned>>

-----------------------------------------------------------------------------
(* lock(ReadLock), with wmutex: the search for a slot *)

\* getMutexHandle(idx, false): open the slot, or find that it does not exist.
Scan(p) ==
    /\ pc[p] = "scan"
    /\ \/ /\ idx[p] < MaxReaders /\ Exists(p, idx[p])
          /\ pc' = [pc EXCEPT ![p] = "try"]
          /\ rmutex' = [rmutex EXCEPT ![p] = idx[p]]
       \/ /\ idx[p] < MaxReaders /\ (~ Exists(p, idx[p]) \/ "open" \in Failures)
          /\ pc' = [pc EXCEPT ![p] = "create"]
          /\ UNCHANGED rmutex
       \/ /\ idx[p] = MaxReaders      \* too many readers
          /\ pc' = [pc EXCEPT ![p] = "failed"]
          /\ UNCHANGED rmutex
    /\ UNCHANGED <<mode, want, block, idx, rmutexes, wOwners, rOwned>>

\* waitMutex(rmutex, false) on a slot that exists; else on to the next one.
TrySlot(p) ==
    /\ \/ /\ SlotFree(p, rmutex[p])
          /\ Goes(p, "try", "release")
          /\ rOwned' = [rOwned EXCEPT ![p] = @ \cup {rmutex[p]}]
          /\ UNCHANGED <<idx, rmutex>>
       \/ /\ ~ SlotFree(p, rmutex[p]) \/ "wait" \in Failures
          /\ Goes(p, "try", "scan")
          /\ idx' = [idx EXCEPT ![p] = @ + 1]
          /\ rmutex' = [rmutex EXCEPT ![p] = NoHandle]
          /\ UNCHANGED rOwned
    /\ UNCHANGED <<mode, want, block, rmutexes, wOwners>>

\* getMutexHandle(idx, true)
CreateSlot(p) ==
    /\ \/ /\ Goes(p, "create", "tryCreated")
          /\ rmutex' = [rmutex EXCEPT ![p] = idx[p]]
       \/ /\ "create" \in Failures
          /\ Goes(p, "create", "failed") /\ UNCHANGED rmutex
    /\ UNCHANGED <<mode, want, block, idx, rmutexes, wOwners, rOwned>>

\* waitMutex(rmutex, false) on the slot just created
TryCreated(p) ==
    /\ \/ /\ SlotFree(p, rmutex[p])
          /\ Goes(p, "tryCreated", "release")
          /\ rOwned' = [rOwned EXCEPT ![p] = @ \cup {rmutex[p]}]
          /\ UNCHANGED rmutex
       \/ /\ ~ SlotFree(p, rmutex[p]) \/ "wait" \in Failures
          /\ Goes(p, "tryCreated", "failed")
          /\ rmutex' = [rmutex EXCEPT ![p] = NoHandle]
          /\ UNCHANGED rOwned
    /\ UNCHANGED <<mode, want, block, idx, rmutexes, wOwners>>

\* Mutant: the reader keeps wmutex when there are too many readers.
ReadDone_failedKeeps(p) ==
    /\ \/ /\ Returns(p, "release")
          /\ mode' = [mode EXCEPT ![p] = "ReadLock"] /\ wOwners' = wOwners \ {p}
       \/ Returns(p, "failed") /\ UNCHANGED <<mode, wOwners>>
    /\ UNCHANGED <<rmutex, rmutexes, rOwned>>

\* ReleaseMutex(wmutex); with a slot, the object is locked.
ReadDone(p) ==
    /\ \/ Returns(p, "release") /\ mode' = [mode EXCEPT ![p] = "ReadLock"]
       \/ Returns(p, "failed") /\ UNCHANGED mode
    /\ wOwners' = wOwners \ {p}
    /\ UNCHANGED <<rmutex, rmutexes, rOwned>>

-----------------------------------------------------------------------------
(* lock(WriteLock), with wmutex: the possession of all slots *)

\* Mutant: one slot too many.
OpenSlot_tooMany(p) ==
    /\ pc[p] = "open" /\ idx[p] <= MaxReaders
    /\ \/ /\ Exists(p, idx[p])
          /\ rmutexes' = [rmutexes EXCEPT ![p] = @ \cup {idx[p]}]
       \/ ~ Exists(p, idx[p]) /\ UNCHANGED rmutexes
    /\ idx' = [idx EXCEPT ![p] = @ + 1]
    /\ UNCHANGED <<pc, mode, want, block, rmutex, wOwners, rOwned>>

\* Mutant: the writer stops at the first slot that does not exist.
OpenSlot_stops(p) ==
    /\ pc[p] = "open" /\ idx[p] < MaxReaders
    /\ \/ /\ Exists(p, idx[p])
          /\ rmutexes' = [rmutexes EXCEPT ![p] = @ \cup {idx[p]}]
          /\ idx' = [idx EXCEPT ![p] = @ + 1]
       \/ /\ ~ Exists(p, idx[p])
          /\ idx' = [idx EXCEPT ![p] = MaxReaders]
          /\ UNCHANGED rmutexes
    /\ UNCHANGED <<pc, mode, want, block, rmutex, wOwners, rOwned>>

\* A handle on every slot that can be opened, one after the other.
OpenSlot(p) ==
    /\ pc[p] = "open" /\ idx[p] < MaxReaders
    /\ \/ /\ Exists(p, idx[p])
          /\ rmutexes' = [rmutexes EXCEPT ![p] = @ \cup {idx[p]}]
       \/ /\ ~ Exists(p, idx[p]) \/ "open" \in Failures
          /\ UNCHANGED rmutexes
    /\ idx' = [idx EXCEPT ![p] = @ + 1]
    /\ UNCHANGED <<pc, mode, want, block, rmutex, wOwners, rOwned>>

AllOpened(p) ==
    /\ idx[p] = MaxReaders
    /\ Goes(p, "open", "waitAll")
    /\ UNCHANGED <<mode, want, block, idx, rmutex, rmutexes, wOwners, rOwned>>

\* Mutant: the wait ends with the first slot that is free.
WaitAll_any(p) ==
    /\ rmutexes[p] = {} \/ \E i \in rmutexes[p] : SlotFree(p, i)
    /\ Returns(p, "waitAll")
    /\ rOwned' = [rOwned EXCEPT ![p] = {i \in rmutexes[p] : SlotFree(p, i)}]
    /\ mode' = [mode EXCEPT ![p] = "WriteLock"]
    /\ UNCHANGED <<rmutex, rmutexes, wOwners>>

\* WaitForMultipleObjects(..., TRUE, ...): all slots at once, or none.
WaitAll(p) ==
    /\ \A i \in rmutexes[p] : SlotFree(p, i)
    /\ Returns(p, "waitAll")
    /\ rOwned' = [rOwned EXCEPT ![p] = rmutexes[p]]
    /\ mode' = [mode EXCEPT ![p] = "WriteLock"]
    /\ UNCHANGED <<rmutex, rmutexes, wOwners>>

\* Mutant: the writer waits for the slots without a time limit.
WaitFails_never(p) == FALSE /\ UNCHANGED vars

\* "trick unlock() to clean up": want = NoLock sends it back to the caller.
WaitFails(p) ==
    /\ rmutexes[p] # {}
    /\ \/ "wait" \in Failures
       \/ (~ block[p] /\ \E i \in rmutexes[p] : ~ SlotFree(p, i))
    /\ Goes(p, "waitAll", "close")
    /\ mode' = [mode EXCEPT ![p] = "WriteLock"]
    /\ want' = [want EXCEPT ![p] = "NoLock"]
    /\ UNCHANGED <<block, idx, rmutex, rmutexes, wOwners, rOwned>>

-----------------------------------------------------------------------------
(* unlock() *)

\* Back to the caller, or on with the lock() call that released another mode.
AfterUnlock(p, from) ==
    \/ want[p] = "NoLock" /\ Returns(p, from)
    \/ want[p] # "NoLock" /\ Goes(p, from, "wait") /\ UNCHANGED <<want, block, idx>>

ReleaseRead(p) ==
    /\ Goes(p, "releaseRead", "closeRead")
    /\ rOwned' = [rOwned EXCEPT ![p] = @ \ {rmutex[p]}]
    /\ UNCHANGED <<mode, want, block, idx, rmutex, rmutexes, wOwners>>

CloseRead(p) ==
    /\ AfterUnlock(p, "closeRead")
    /\ rmutex' = [rmutex EXCEPT ![p] = NoHandle]
    /\ mode' = [mode EXCEPT ![p] = "NoLock"]
    /\ UNCHANGED <<rmutexes, wOwners, rOwned>>

\* ReleaseMutex, which fails on a slot that is not owned, and CloseHandle.
CloseSlot(p) ==
    /\ pc[p] = "close"
    /\ \E i \in rmutexes[p] :
          /\ rmutexes' = [rmutexes EXCEPT ![p] = @ \ {i}]
          /\ rOwned' = [rOwned EXCEPT ![p] = @ \ {i}]
    /\ UNCHANGED <<pc, mode, want, block, idx, rmutex, wOwners>>

WriteReleased(p) ==
    /\ rmutexes[p] = {}
    /\ AfterUnlock(p, "close")
    /\ wOwners' = wOwners \ {p}
    /\ mode' = [mode EXCEPT ![p] = "NoLock"]
    /\ UNCHANGED <<rmutex, rmutexes, rOwned>>

-----------------------------------------------------------------------------
(* The end of process p, anywhere, and its start with an unlocked object.  *)
(* Its destructors may have run before, or not: it crashed.                *)
Crash(p) ==
    /\ pc' = [pc EXCEPT ![p] = "idle"]
    /\ mode' = [mode EXCEPT ![p] = "NoLock"]
    /\ want' = [want EXCEPT ![p] = "NoLock"]
    /\ block' = [block EXCEPT ![p] = FALSE]
    /\ idx' = [idx EXCEPT ![p] = 0]
    /\ rmutex' = [rmutex EXCEPT ![p] = NoHandle]
    /\ rmutexes' = [rmutexes EXCEPT ![p] = {}]
    /\ wOwners' = wOwners \ {p}
    /\ rOwned' = [rOwned EXCEPT ![p] = {}]

Step(p) ==
    \/ AcquireW(p) \/ FailW(p)
    \/ Scan(p) \/ TrySlot(p) \/ CreateSlot(p) \/ TryCreated(p) \/ ReadDone(p)
    \/ OpenSlot(p) \/ AllOpened(p) \/ WaitAll(p) \/ WaitFails(p)
    \/ ReleaseRead(p) \/ CloseRead(p) \/ CloseSlot(p) \/ WriteReleased(p)

Call(p) == \E m \in Modes, b \in BOOLEAN : Lock(p, m, b)

Next == \E p \in Procs : Step(p) \/ Call(p) \/ Crash(p)

Spec == Init /\ [][Next]_vars

(***************************************************************************)
(* Processes are scheduled; nobody need call lock() or unlock(), and a     *)
(* blocking wait need not fail.                                            *)
(***************************************************************************)
Fails(p) == block[p] /\ (FailW(p) \/ WaitFails(p))
FairSpec == Spec /\ \A p \in Procs : WF_vars(Step(p) /\ ~ Fails(p))

-----------------------------------------------------------------------------
(* Properties *)

\* The lock the object of process p has, seen from outside lock() and unlock().
Held(p) == IF pc[p] = "idle" THEN mode[p] ELSE "NoLock"

(***************************************************************************)
(* "Exactly one instance may have it locked in write mode. A read and a    *)
(* write lock cannot exist simultaneously" (qtlockedfile.cpp:51): among    *)
(* the processes of a session, through crashes, failed attempts and slots  *)
(* that come and go while a writer collects them.                          *)
(***************************************************************************)
Exclusion ==
    \A p \in Procs : Held(p) = "WriteLock" => \A q \in Peers(p) : Held(q) = "NoLock"

(***************************************************************************)
(* What an object owns outside its calls is exactly what its mode says, so *)
(* that no failed attempt leaves a mutex owned or a handle open: no lock    *)
(* is held by an object that says NoLock.                                  *)
(***************************************************************************)
NothingLeftOver ==
    \A p \in Procs : pc[p] = "idle" =>
        /\ p \in wOwners <=> mode[p] = "WriteLock"
        /\ mode[p] = "NoLock" =>
              rmutex[p] = NoHandle /\ rmutexes[p] = {} /\ rOwned[p] = {}
        /\ mode[p] = "ReadLock" => rOwned[p] = {rmutex[p]} /\ rmutexes[p] = {}
        /\ mode[p] = "WriteLock" => rmutex[p] = NoHandle /\ rOwned[p] = rmutexes[p]

(***************************************************************************)
(* No deadlock: whoever is waited for by a process that others wait for is *)
(* not waiting itself, so that every chain of waiting processes ends after *)
(* two with one that holds the lock or is about to release what it owns.   *)
(* In particular two readers that both want to write do not wait for each  *)
(* other's slot: lock() releases the other mode first.                     *)
(***************************************************************************)
BlockedBy(p) ==
    {q \in Peers(p) : \/ pc[p] = "wait" /\ q \in wOwners
                      \/ pc[p] = "waitAll" /\ rmutexes[p] \cap rOwned[q] # {}}
NoCircularWait ==
    \A p \in Procs : \A q \in BlockedBy(p) : \A r \in BlockedBy(q) :
        pc[r] \notin {"wait", "waitAll"}

(***************************************************************************)
(* The mutexes implement the reader/writer lock.                           *)
(***************************************************************************)
RW == INSTANCE RWLock WITH held <- [p \in Procs |-> Held(p)]
RWLockSpec == RW!Spec

(***************************************************************************)
(* A lock() call that must not block returns, even if nobody ever unlocks, *)
(* and a writer that has wmutex is not starved by readers that come and    *)
(* go: if every holder unlocks some time, its lock() call returns.         *)
(***************************************************************************)
LockReturns ==
    /\ \A p \in Procs : (pc[p] # "idle" /\ ~ block[p]) ~> (pc[p] = "idle")
    /\ (\A q \in Procs : []<>(Held(q) = "NoLock"))
           => \A p \in Procs : (pc[p] = "waitAll") ~> (pc[p] = "idle")
=============================================================================
