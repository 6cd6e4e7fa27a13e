------------------------------- MODULE RWLock -------------------------------
(***************************************************************************)
(* What QtLockedFile promises (qtlockedfile.cpp): processes that compete   *)
(* for one file hold it in read mode together or in write mode alone, and  *)
(* a process that ends, by a crash too, holds it no more.  A lock attempt  *)
(* may fail or take its time; it never takes a lock from somebody else.    *)
(*                                                                         *)
(* LockedFile implements it on Windows.  On Unix it is the code itself:    *)
(* the lock() that succeeds is one fcntl() call (F_RDLCK or F_WRLCK),      *)
(* after an unlock() if the mode changes, and unlock() is another.         *)
(***************************************************************************)
CONSTANTS Procs,    \* the processes, one QtLockedFile object each
          Session   \* Session[p]: the processes p competes with

VARIABLE held       \* held[p]: the lock mode of the object of process p

Modes == {"NoLock", "ReadLock", "WriteLock"}

Peers(p) == {q \in Procs \ {p} : Session[q] = Session[p]}

Init == held = [p \in Procs |-> "NoLock"]

AcquireRead(p) ==
    /\ held[p] = "NoLock" /\ \A q \in Peers(p) : held[q] # "WriteLock"
    /\ held' = [held EXCEPT ![p] = "ReadLock"]

AcquireWrite(p) ==
    /\ held[p] = "NoLock" /\ \A q \in Peers(p) : held[q] = "NoLock"
    /\ held' = [held EXCEPT ![p] = "WriteLock"]

Release(p) ==
    /\ held[p] # "NoLock"
    /\ held' = [held EXCEPT ![p] = "NoLock"]

Next == \E p \in Procs : AcquireRead(p) \/ AcquireWrite(p) \/ Release(p)

Spec == Init /\ [][Next]_held
=============================================================================
