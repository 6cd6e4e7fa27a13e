-------------------------- MODULE LockedFileProofs --------------------------
(***************************************************************************)
(* The mutexes of LockedFile exclude readers and writers from each other,  *)
(* for every number of processes, sessions and slots, through crashes and  *)
(* failures to create a mutex or to wait for one.  A failure to open a     *)
(* mutex that exists is excluded where it must be: the writer overlooks a  *)
(* reader then.                                                            *)
(***************************************************************************)
EXTENDS LockedFile, FiniteSetTheorems, TLAPS

-----------------------------------------------------------------------------
(* The inductive invariant *)

\* m_lock_mode inside lock() and unlock().
ModeInCalls ==
    \A p \in Procs :
        /\ pc[p] \in {"wait", "open", "waitAll"} \cup ReaderPc => mode[p] = "NoLock"
        /\ pc[p] = "close" => mode[p] = "WriteLock"
        /\ pc[p] \in {"releaseRead", "closeRead"} => mode[p] = "ReadLock"

\* The loop index is below its bound wherever it stands for a slot.
IndexInBounds ==
    \A p \in Procs :
        /\ pc[p] \in {"try", "create", "tryCreated"} => idx[p] < MaxReaders
        /\ pc[p] \in {"try", "tryCreated"} => rmutex[p] = idx[p]

Reading(p) == pc[p] \in {"release", "releaseRead"} \/ (pc[p] = "idle" /\ mode[p] = "ReadLock")
Writing(p) == pc[p] = "idle" /\ mode[p] = "WriteLock"

\* The handles process p has open.
Handles ==
    \A p \in Procs :
        /\ Reading(p) \/ pc[p] \in {"try", "tryCreated", "closeRead"} \/ rmutex[p] = NoHandle
        /\ Writing(p) \/ pc[p] \in WriterPc \/ rmutexes[p] = {}

\* The slots process p owns: none before it has got what it waits for.
OwnsSlots ==
    \A p \in Procs :
        /\ Reading(p) => rmutex[p] \in Slots /\ rOwned[p] = {rmutex[p]}
        /\ Writing(p) => rOwned[p] = rmutexes[p]
        /\ pc[p] = "close" => rOwned[p] \subseteq rmutexes[p]
        /\ Reading(p) \/ Writing(p) \/ pc[p] = "close" \/ rOwned[p] = {}

\* Who owns wmutex: whoever is past the wait for it, alone in its session.
OwnsW ==
    \A p \in Procs :
        /\ p \in wOwners <=> pc[p] \in ReaderPc \cup WriterPc \/ Writing(p)
        /\ p \in wOwners => \A q \in Peers(p) : q \notin wOwners

\* A writer has handles on the owned slots it has come by, then on all of
\* them; once it has the lock nobody else owns one.
WriterView ==
    \A p \in Procs : \A q \in Peers(p) :
        /\ pc[p] = "open" => \A i \in rOwned[q] : i < idx[p] => i \in rmutexes[p]
        /\ pc[p] = "waitAll" => rOwned[q] \subseteq rmutexes[p]
        /\ Writing(p) => rOwned[q] = {}

\* What holds whatever fails, and what needs that no open fails.
Own == TypeOK /\ ModeInCalls /\ IndexInBounds /\ Handles /\ OwnsSlots /\ OwnsW
Inv == Own /\ WriterView

-----------------------------------------------------------------------------
(* One lemma for each conjunct: every step preserves it. *)

\* What a call leaves when it returns is well typed.
LEMMA ReturnsTypes ==
    ASSUME NEW p \in Procs, NEW from \in Pc, TypeOK, Returns(p, from)
    PROVE  /\ pc' \in [Procs -> Pc] /\ want' \in [Procs -> Modes]
           /\ block' \in [Procs -> BOOLEAN] /\ idx' \in [Procs -> 0..MaxReaders]
<1>1. 0 \in 0..MaxReaders
    BY ReadersAssumption
<1> QED
    BY <1>1 DEF TypeOK, Returns, Goes, Pc, Modes

LEMMA TypeNext ==
    ASSUME Own, [Next]_vars
    PROVE  TypeOK'
<1> USE DEF Own, TypeOK, Goes, Modes, Pc, ReaderPc, WriterPc, Slots, NoHandle
<1>1. ASSUME NEW p \in Procs, NEW m \in Modes, NEW b \in BOOLEAN, Lock(p, m, b)
      PROVE  TypeOK'
    BY <1>1 DEF Lock, UnlockPc
<1>2. ASSUME NEW p \in Procs, AcquireW(p) PROVE TypeOK'
    <2>1. pc' \in [Procs -> Pc]
        BY <1>2 DEF AcquireW
    <2>2. idx' \in [Procs -> 0..MaxReaders]
        BY <1>2, ReadersAssumption DEF AcquireW, IndexInBounds
    <2>3. rmutex' \in [Procs -> Slots \cup {NoHandle}]
        BY <1>2, ReadersAssumption DEF AcquireW, IndexInBounds
    <2>4. rmutexes' \in [Procs -> SUBSET Slots]
        BY <1>2, ReadersAssumption DEF AcquireW
    <2>5. rOwned' \in [Procs -> SUBSET Slots]
        BY <1>2 DEF AcquireW, IndexInBounds
    <2> QED
        BY <1>2, <2>1, <2>2, <2>3, <2>4, <2>5 DEF AcquireW
<1>3. ASSUME NEW p \in Procs, FailW(p) PROVE TypeOK'
    <2>1. /\ pc' \in [Procs -> Pc] /\ want' \in [Procs -> Modes]
          /\ block' \in [Procs -> BOOLEAN] /\ idx' \in [Procs -> 0..MaxReaders]
        BY <1>3, ReturnsTypes DEF FailW
    <2> QED
        BY <1>3, <2>1 DEF FailW
<1>4. ASSUME NEW p \in Procs, Scan(p) PROVE TypeOK'
    <2>1. pc' \in [Procs -> Pc]
        BY <1>4 DEF Scan
    <2>2. idx' \in [Procs -> 0..MaxReaders]
        BY <1>4, ReadersAssumption DEF Scan, IndexInBounds
    <2>3. rmutex' \in [Procs -> Slots \cup {NoHandle}]
        BY <1>4, ReadersAssumption DEF Scan, IndexInBounds
    <2>4. rmutexes' \in [Procs -> SUBSET Slots]
        BY <1>4, ReadersAssumption DEF Scan
    <2>5. rOwned' \in [Procs -> SUBSET Slots]
        BY <1>4 DEF Scan, IndexInBounds
    <2> QED
        BY <1>4, <2>1, <2>2, <2>3, <2>4, <2>5 DEF Scan
<1>5. ASSUME NEW p \in Procs, TrySlot(p) PROVE TypeOK'
    <2>1. pc' \in [Procs -> Pc]
        BY <1>5 DEF TrySlot
    <2>2. idx' \in [Procs -> 0..MaxReaders]
        BY <1>5, ReadersAssumption DEF TrySlot, IndexInBounds
    <2>3. rmutex' \in [Procs -> Slots \cup {NoHandle}]
        BY <1>5, ReadersAssumption DEF TrySlot, IndexInBounds
    <2>4. rmutexes' \in [Procs -> SUBSET Slots]
        BY <1>5, ReadersAssumption DEF TrySlot
    <2>5. rOwned' \in [Procs -> SUBSET Slots]
        BY <1>5 DEF TrySlot, IndexInBounds
    <2> QED
        BY <1>5, <2>1, <2>2, <2>3, <2>4, <2>5 DEF TrySlot
<1>6. ASSUME NEW p \in Procs, CreateSlot(p) PROVE TypeOK'
    <2>1. pc' \in [Procs -> Pc]
        BY <1>6 DEF CreateSlot
    <2>2. idx' \in [Procs -> 0..MaxReaders]
        BY <1>6, ReadersAssumption DEF CreateSlot, IndexInBounds
    <2>3. rmutex' \in [Procs -> Slots \cup {NoHandle}]
        BY <1>6, ReadersAssumption DEF CreateSlot, IndexInBounds
    <2>4. rmutexes' \in [Procs -> SUBSET Slots]
        BY <1>6, ReadersAssumption DEF CreateSlot
    <2>5. rOwned' \in [Procs -> SUBSET Slots]
        BY <1>6 DEF CreateSlot, IndexInBounds
    <2> QED
        BY <1>6, <2>1, <2>2, <2>3, <2>4, <2>5 DEF CreateSlot
<1>7. ASSUME NEW p \in Procs, TryCreated(p) PROVE TypeOK'
    <2>1. pc' \in [Procs -> Pc]
        BY <1>7 DEF TryCreated
    <2>2. idx' \in [Procs -> 0..MaxReaders]
        BY <1>7, ReadersAssumption DEF TryCreated, IndexInBounds
    <2>3. rmutex' \in [Procs -> Slots \cup {NoHandle}]
        BY <1>7, ReadersAssumption DEF TryCreated, IndexInBounds
    <2>4. rmutexes' \in [Procs -> SUBSET Slots]
        BY <1>7, ReadersAssumption DEF TryCreated
    <2>5. rOwned' \in [Procs -> SUBSET Slots]
        BY <1>7 DEF TryCreated, IndexInBounds
    <2> QED
        BY <1>7, <2>1, <2>2, <2>3, <2>4, <2>5 DEF TryCreated
<1>8. ASSUME NEW p \in Procs, ReadDone(p) PROVE TypeOK'
    <2>1. /\ pc' \in [Procs -> Pc] /\ want' \in [Procs -> Modes]
          /\ block' \in [Procs -> BOOLEAN] /\ idx' \in [Procs -> 0..MaxReaders]
        BY <1>8, ReturnsTypes DEF ReadDone
    <2> QED
        BY <1>8, <2>1 DEF ReadDone
<1>9. ASSUME NEW p \in Procs, OpenSlot(p) PROVE TypeOK'
    <2>1. pc' \in [Procs -> Pc]
        BY <1>9 DEF OpenSlot
    <2>2. idx' \in [Procs -> 0..MaxReaders]
        BY <1>9, ReadersAssumption DEF OpenSlot, IndexInBounds
    <2>3. rmutex' \in [Procs -> Slots \cup {NoHandle}]
        BY <1>9, ReadersAssumption DEF OpenSlot, IndexInBounds
    <2>4. rmutexes' \in [Procs -> SUBSET Slots]
        BY <1>9, ReadersAssumption DEF OpenSlot
    <2>5. rOwned' \in [Procs -> SUBSET Slots]
        BY <1>9 DEF OpenSlot, IndexInBounds
    <2> QED
        BY <1>9, <2>1, <2>2, <2>3, <2>4, <2>5 DEF OpenSlot
<1>10. ASSUME NEW p \in Procs, AllOpened(p) PROVE TypeOK'
    BY <1>10 DEF AllOpened
<1>11. ASSUME NEW p \in Procs, WaitAll(p) PROVE TypeOK'
    <2>1. /\ pc' \in [Procs -> Pc] /\ want' \in [Procs -> Modes]
          /\ block' \in [Procs -> BOOLEAN] /\ idx' \in [Procs -> 0..MaxReaders]
        BY <1>11, ReturnsTypes DEF WaitAll
    <2> QED
        BY <1>11, <2>1 DEF WaitAll
<1>12. ASSUME NEW p \in Procs, WaitFails(p) PROVE TypeOK'
    BY <1>12 DEF WaitFails
<1>13. ASSUME NEW p \in Procs, ReleaseRead(p) PROVE TypeOK'
    BY <1>13 DEF ReleaseRead
<1>14. ASSUME NEW p \in Procs, CloseRead(p) PROVE TypeOK'
    <2>1. /\ pc' \in [Procs -> Pc] /\ want' \in [Procs -> Modes]
          /\ block' \in [Procs -> BOOLEAN] /\ idx' \in [Procs -> 0..MaxReaders]
        BY <1>14, ReturnsTypes DEF CloseRead, AfterUnlock
    <2> QED
        BY <1>14, <2>1 DEF CloseRead
<1>15. ASSUME NEW p \in Procs, CloseSlot(p) PROVE TypeOK'
    BY <1>15 DEF CloseSlot
<1>16. ASSUME NEW p \in Procs, WriteReleased(p) PROVE TypeOK'
    <2>1. /\ pc' \in [Procs -> Pc] /\ want' \in [Procs -> Modes]
          /\ block' \in [Procs -> BOOLEAN] /\ idx' \in [Procs -> 0..MaxReaders]
        BY <1>16, ReturnsTypes DEF WriteReleased, AfterUnlock
    <2> QED
        BY <1>16, <2>1 DEF WriteReleased
<1>17. ASSUME NEW p \in Procs, Crash(p) PROVE TypeOK'
    <2>1. 0 \in 0..MaxReaders
        BY ReadersAssumption
    <2> QED
        BY <1>17, <2>1 DEF Crash
<1>18. CASE UNCHANGED vars
    BY <1>18 DEF vars
<1> QED
    BY <1>1, <1>2, <1>3, <1>4, <1>5, <1>6, <1>7, <1>8, <1>9, <1>10, <1>11, <1>12, <1>13, <1>14, <1>15, <1>16, <1>17, <1>18 DEF Next, Step, Call

LEMMA ModeNext ==
    ASSUME Own, [Next]_vars
    PROVE  ModeInCalls'
<1> USE DEF Own, TypeOK, Goes, Returns, Modes, Pc, ReaderPc, WriterPc, ModeInCalls
<1>1. ASSUME NEW p \in Procs, NEW m \in Modes, NEW b \in BOOLEAN, Lock(p, m, b)
      PROVE  ModeInCalls'
    BY <1>1 DEF Lock, UnlockPc
<1>2. ASSUME NEW p \in Procs, AcquireW(p) PROVE ModeInCalls'
    BY <1>2 DEF AcquireW
<1>3. ASSUME NEW p \in Procs, FailW(p) PROVE ModeInCalls'
    BY <1>3 DEF FailW
<1>4. ASSUME NEW p \in Procs, Scan(p) PROVE ModeInCalls'
    BY <1>4 DEF Scan
<1>5. ASSUME NEW p \in Procs, TrySlot(p) PROVE ModeInCalls'
    BY <1>5 DEF TrySlot
<1>6. ASSUME NEW p \in Procs, CreateSlot(p) PROVE ModeInCalls'
    BY <1>6 DEF CreateSlot
<1>7. ASSUME NEW p \in Procs, TryCreated(p) PROVE ModeInCalls'
    BY <1>7 DEF TryCreated
<1>8. ASSUME NEW p \in Procs, ReadDone(p) PROVE ModeInCalls'
    BY <1>8 DEF ReadDone
<1>9. ASSUME NEW p \in Procs, OpenSlot(p) PROVE ModeInCalls'
    BY <1>9 DEF OpenSlot
<1>10. ASSUME NEW p \in Procs, AllOpened(p) PROVE ModeInCalls'
    BY <1>10 DEF AllOpened
<1>11. ASSUME NEW p \in Procs, WaitAll(p) PROVE ModeInCalls'
    BY <1>11 DEF WaitAll
<1>12. ASSUME NEW p \in Procs, WaitFails(p) PROVE ModeInCalls'
    BY <1>12 DEF WaitFails
<1>13. ASSUME NEW p \in Procs, ReleaseRead(p) PROVE ModeInCalls'
    BY <1>13 DEF ReleaseRead
<1>14. ASSUME NEW p \in Procs, CloseRead(p) PROVE ModeInCalls'
    BY <1>14 DEF CloseRead, AfterUnlock
<1>15. ASSUME NEW p \in Procs, CloseSlot(p) PROVE ModeInCalls'
    BY <1>15 DEF CloseSlot
<1>16. ASSUME NEW p \in Procs, WriteReleased(p) PROVE ModeInCalls'
    BY <1>16 DEF WriteReleased, AfterUnlock
<1>17. ASSUME NEW p \in Procs, Crash(p) PROVE ModeInCalls'
    BY <1>17 DEF Crash
<1>18. CASE UNCHANGED vars
    BY <1>18 DEF vars
<1> QED
    BY <1>1, <1>2, <1>3, <1>4, <1>5, <1>6, <1>7, <1>8, <1>9, <1>10, <1>11, <1>12, <1>13, <1>14, <1>15, <1>16, <1>17, <1>18 DEF Next, Step, Call

LEMMA IndexNext ==
    ASSUME Own, [Next]_vars
    PROVE  IndexInBounds'
<1> USE DEF Own, TypeOK, Goes, Returns, Modes, Pc, ReaderPc, WriterPc, IndexInBounds
<1>1. ASSUME NEW p \in Procs, NEW m \in Modes, NEW b \in BOOLEAN, Lock(p, m, b)
      PROVE  IndexInBounds'
    BY <1>1 DEF Lock, UnlockPc
<1>2. ASSUME NEW p \in Procs, AcquireW(p) PROVE IndexInBounds'
    BY <1>2 DEF AcquireW
<1>3. ASSUME NEW p \in Procs, FailW(p) PROVE IndexInBounds'
    BY <1>3 DEF FailW
<1>4. ASSUME NEW p \in Procs, Scan(p) PROVE IndexInBounds'
    BY <1>4, ReadersAssumption DEF Scan
<1>5. ASSUME NEW p \in Procs, TrySlot(p) PROVE IndexInBounds'
    BY <1>5 DEF TrySlot
<1>6. ASSUME NEW p \in Procs, CreateSlot(p) PROVE IndexInBounds'
    BY <1>6 DEF CreateSlot
<1>7. ASSUME NEW p \in Procs, TryCreated(p) PROVE IndexInBounds'
    BY <1>7 DEF TryCreated
<1>8. ASSUME NEW p \in Procs, ReadDone(p) PROVE IndexInBounds'
    BY <1>8 DEF ReadDone
<1>9. ASSUME NEW p \in Procs, OpenSlot(p) PROVE IndexInBounds'
    BY <1>9 DEF OpenSlot
<1>10. ASSUME NEW p \in Procs, AllOpened(p) PROVE IndexInBounds'
    BY <1>10 DEF AllOpened
<1>11. ASSUME NEW p \in Procs, WaitAll(p) PROVE IndexInBounds'
    BY <1>11 DEF WaitAll
<1>12. ASSUME NEW p \in Procs, WaitFails(p) PROVE IndexInBounds'
    BY <1>12 DEF WaitFails
<1>13. ASSUME NEW p \in Procs, ReleaseRead(p) PROVE IndexInBounds'
    BY <1>13 DEF ReleaseRead
<1>14. ASSUME NEW p \in Procs, CloseRead(p) PROVE IndexInBounds'
    BY <1>14 DEF CloseRead, AfterUnlock
<1>15. ASSUME NEW p \in Procs, CloseSlot(p) PROVE IndexInBounds'
    BY <1>15 DEF CloseSlot
<1>16. ASSUME NEW p \in Procs, WriteReleased(p) PROVE IndexInBounds'
    BY <1>16 DEF WriteReleased, AfterUnlock
<1>17. ASSUME NEW p \in Procs, Crash(p) PROVE IndexInBounds'
    BY <1>17 DEF Crash
<1>18. CASE UNCHANGED vars
    BY <1>18 DEF vars
<1> QED
    BY <1>1, <1>2, <1>3, <1>4, <1>5, <1>6, <1>7, <1>8, <1>9, <1>10, <1>11, <1>12, <1>13, <1>14, <1>15, <1>16, <1>17, <1>18 DEF Next, Step, Call

LEMMA HandlesNext ==
    ASSUME Own, [Next]_vars
    PROVE  Handles'
<1> USE DEF Own, TypeOK, Goes, Returns, Modes, Pc, ReaderPc, WriterPc, ModeInCalls, Handles, Reading, Writing
<1>1. ASSUME NEW p \in Procs, NEW m \in Modes, NEW b \in BOOLEAN, Lock(p, m, b)
      PROVE  Handles'
    BY <1>1 DEF Lock, UnlockPc
<1>2. ASSUME NEW p \in Procs, AcquireW(p) PROVE Handles'
    BY <1>2 DEF AcquireW
<1>3. ASSUME NEW p \in Procs, FailW(p) PROVE Handles'
    BY <1>3 DEF FailW
<1>4. ASSUME NEW p \in Procs, Scan(p) PROVE Handles'
    BY <1>4 DEF Scan
<1>5. ASSUME NEW p \in Procs, TrySlot(p) PROVE Handles'
    BY <1>5 DEF TrySlot
<1>6. ASSUME NEW p \in Procs, CreateSlot(p) PROVE Handles'
    BY <1>6 DEF CreateSlot
<1>7. ASSUME NEW p \in Procs, TryCreated(p) PROVE Handles'
    BY <1>7 DEF TryCreated
<1>8. ASSUME NEW p \in Procs, ReadDone(p) PROVE Handles'
    BY <1>8 DEF ReadDone
<1>9. ASSUME NEW p \in Procs, OpenSlot(p) PROVE Handles'
    BY <1>9 DEF OpenSlot
<1>10. ASSUME NEW p \in Procs, AllOpened(p) PROVE Handles'
    BY <1>10 DEF AllOpened
<1>11. ASSUME NEW p \in Procs, WaitAll(p) PROVE Handles'
    BY <1>11 DEF WaitAll
<1>12. ASSUME NEW p \in Procs, WaitFails(p) PROVE Handles'
    BY <1>12 DEF WaitFails
<1>13. ASSUME NEW p \in Procs, ReleaseRead(p) PROVE Handles'
    BY <1>13 DEF ReleaseRead
<1>14. ASSUME NEW p \in Procs, CloseRead(p) PROVE Handles'
    BY <1>14 DEF CloseRead, AfterUnlock
<1>15. ASSUME NEW p \in Procs, CloseSlot(p) PROVE Handles'
    BY <1>15 DEF CloseSlot
<1>16. ASSUME NEW p \in Procs, WriteReleased(p) PROVE Handles'
    BY <1>16 DEF WriteReleased, AfterUnlock
<1>17. ASSUME NEW p \in Procs, Crash(p) PROVE Handles'
    BY <1>17 DEF Crash
<1>18. CASE UNCHANGED vars
    BY <1>18 DEF vars
<1> QED
    BY <1>1, <1>2, <1>3, <1>4, <1>5, <1>6, <1>7, <1>8, <1>9, <1>10, <1>11, <1>12, <1>13, <1>14, <1>15, <1>16, <1>17, <1>18 DEF Next, Step, Call

LEMMA OwnsSlotsNext ==
    ASSUME Own, [Next]_vars
    PROVE  OwnsSlots'
<1> USE DEF Own, TypeOK, Goes, Returns, Modes, Pc, ReaderPc, WriterPc, ModeInCalls, IndexInBounds, Handles, OwnsSlots,
       Reading, Writing, Slots, NoHandle
<1>1. ASSUME NEW p \in Procs, NEW m \in Modes, NEW b \in BOOLEAN, Lock(p, m, b)
      PROVE  OwnsSlots'
    BY <1>1 DEF Lock, UnlockPc
<1>2. ASSUME NEW p \in Procs, AcquireW(p) PROVE OwnsSlots'
    BY <1>2 DEF AcquireW
<1>3. ASSUME NEW p \in Procs, FailW(p) PROVE OwnsSlots'
    BY <1>3 DEF FailW
<1>4. ASSUME NEW p \in Procs, Scan(p) PROVE OwnsSlots'
    BY <1>4 DEF Scan
<1>5. ASSUME NEW p \in Procs, TrySlot(p) PROVE OwnsSlots'
    BY <1>5 DEF TrySlot
<1>6. ASSUME NEW p \in Procs, CreateSlot(p) PROVE OwnsSlots'
    BY <1>6 DEF CreateSlot
<1>7. ASSUME NEW p \in Procs, TryCreated(p) PROVE OwnsSlots'
    BY <1>7 DEF TryCreated
<1>8. ASSUME NEW p \in Procs, ReadDone(p) PROVE OwnsSlots'
    BY <1>8 DEF ReadDone
<1>9. ASSUME NEW p \in Procs, OpenSlot(p) PROVE OwnsSlots'
    BY <1>9 DEF OpenSlot
<1>10. ASSUME NEW p \in Procs, AllOpened(p) PROVE OwnsSlots'
    BY <1>10 DEF AllOpened
<1>11. ASSUME NEW p \in Procs, WaitAll(p) PROVE OwnsSlots'
    BY <1>11 DEF WaitAll
<1>12. ASSUME NEW p \in Procs, WaitFails(p) PROVE OwnsSlots'
    BY <1>12 DEF WaitFails
<1>13. ASSUME NEW p \in Procs, ReleaseRead(p) PROVE OwnsSlots'
    BY <1>13 DEF ReleaseRead
<1>14. ASSUME NEW p \in Procs, CloseRead(p) PROVE OwnsSlots'
    BY <1>14 DEF CloseRead, AfterUnlock
<1>15. ASSUME NEW p \in Procs, CloseSlot(p) PROVE OwnsSlots'
    BY <1>15 DEF CloseSlot
<1>16. ASSUME NEW p \in Procs, WriteReleased(p) PROVE OwnsSlots'
    BY <1>16 DEF WriteReleased, AfterUnlock
<1>17. ASSUME NEW p \in Procs, Crash(p) PROVE OwnsSlots'
    BY <1>17 DEF Crash
<1>18. CASE UNCHANGED vars
    BY <1>18 DEF vars
<1> QED
    BY <1>1, <1>2, <1>3, <1>4, <1>5, <1>6, <1>7, <1>8, <1>9, <1>10, <1>11, <1>12, <1>13, <1>14, <1>15, <1>16, <1>17, <1>18 DEF Next, Step, Call

LEMMA OwnsWNext ==
    ASSUME Own, [Next]_vars
    PROVE  OwnsW'
<1> USE DEF Own, TypeOK, Goes, Returns, Modes, Pc, ReaderPc, WriterPc, ModeInCalls, OwnsW, WFree, Peers,
       Reading, Writing
<1>1. ASSUME NEW p \in Procs, NEW m \in Modes, NEW b \in BOOLEAN, Lock(p, m, b)
      PROVE  OwnsW'
    BY <1>1 DEF Lock, UnlockPc
<1>2. ASSUME NEW p \in Procs, AcquireW(p) PROVE OwnsW'
    BY <1>2 DEF AcquireW
<1>3. ASSUME NEW p \in Procs, FailW(p) PROVE OwnsW'
    BY <1>3 DEF FailW
<1>4. ASSUME NEW p \in Procs, Scan(p) PROVE OwnsW'
    BY <1>4 DEF Scan
<1>5. ASSUME NEW p \in Procs, TrySlot(p) PROVE OwnsW'
    BY <1>5 DEF TrySlot
<1>6. ASSUME NEW p \in Procs, CreateSlot(p) PROVE OwnsW'
    BY <1>6 DEF CreateSlot
<1>7. ASSUME NEW p \in Procs, TryCreated(p) PROVE OwnsW'
    BY <1>7 DEF TryCreated
<1>8. ASSUME NEW p \in Procs, ReadDone(p) PROVE OwnsW'
    BY <1>8 DEF ReadDone
<1>9. ASSUME NEW p \in Procs, OpenSlot(p) PROVE OwnsW'
    BY <1>9 DEF OpenSlot
<1>10. ASSUME NEW p \in Procs, AllOpened(p) PROVE OwnsW'
    BY <1>10 DEF AllOpened
<1>11. ASSUME NEW p \in Procs, WaitAll(p) PROVE OwnsW'
    BY <1>11 DEF WaitAll
<1>12. ASSUME NEW p \in Procs, WaitFails(p) PROVE OwnsW'
    BY <1>12 DEF WaitFails
<1>13. ASSUME NEW p \in Procs, ReleaseRead(p) PROVE OwnsW'
    BY <1>13 DEF ReleaseRead
<1>14. ASSUME NEW p \in Procs, CloseRead(p) PROVE OwnsW'
    BY <1>14 DEF CloseRead, AfterUnlock
<1>15. ASSUME NEW p \in Procs, CloseSlot(p) PROVE OwnsW'
    BY <1>15 DEF CloseSlot
<1>16. ASSUME NEW p \in Procs, WriteReleased(p) PROVE OwnsW'
    BY <1>16 DEF WriteReleased, AfterUnlock
<1>17. ASSUME NEW p \in Procs, Crash(p) PROVE OwnsW'
    BY <1>17 DEF Crash
<1>18. CASE UNCHANGED vars
    BY <1>18 DEF vars
<1> QED
    BY <1>1, <1>2, <1>3, <1>4, <1>5, <1>6, <1>7, <1>8, <1>9, <1>10, <1>11, <1>12, <1>13, <1>14, <1>15, <1>16, <1>17, <1>18 DEF Next, Step, Call

LEMMA WriterViewNext ==
    ASSUME "open" \notin Failures, Inv, [Next]_vars
    PROVE  WriterView'
<1> USE DEF Own, TypeOK, Goes, Returns, Modes, Pc, ReaderPc, WriterPc, Inv, ModeInCalls, IndexInBounds, Handles,
       OwnsSlots, OwnsW, WriterView, Peers, SlotFree, Exists, Slots, NoHandle, Reading, Writing
<1>1. ASSUME NEW p \in Procs, NEW m \in Modes, NEW b \in BOOLEAN, Lock(p, m, b)
      PROVE  WriterView'
    BY <1>1 DEF Lock, UnlockPc
<1>2. ASSUME NEW p \in Procs, AcquireW(p) PROVE WriterView'
    BY <1>2 DEF AcquireW
<1>3. ASSUME NEW p \in Procs, FailW(p) PROVE WriterView'
    BY <1>3 DEF FailW
<1>4. ASSUME NEW p \in Procs, Scan(p) PROVE WriterView'
    BY <1>4 DEF Scan
<1>5. ASSUME NEW p \in Procs, TrySlot(p) PROVE WriterView'
    BY <1>5 DEF TrySlot
<1>6. ASSUME NEW p \in Procs, CreateSlot(p) PROVE WriterView'
    BY <1>6 DEF CreateSlot
<1>7. ASSUME NEW p \in Procs, TryCreated(p) PROVE WriterView'
    BY <1>7 DEF TryCreated
<1>8. ASSUME NEW p \in Procs, ReadDone(p) PROVE WriterView'
    BY <1>8 DEF ReadDone
<1>9. ASSUME NEW p \in Procs, OpenSlot(p) PROVE WriterView'
    <2> SUFFICES ASSUME NEW w \in Procs, NEW q \in Peers(w)
                 PROVE  /\ pc[w] = "open" => \A i \in rOwned[q] : i < idx'[w] => i \in rmutexes'[w]
                        /\ pc[w] = "waitAll" => rOwned[q] \subseteq rmutexes'[w]
                        /\ Writing(w) => rOwned[q] = {}
        BY <1>9 DEF OpenSlot
    <2>1. CASE w # p
        BY <1>9, <2>1 DEF OpenSlot
    <2>2. CASE w = p
        <3>1. ASSUME NEW i \in rOwned[q], i < idx[p] + 1, i # idx[p] PROVE i \in rmutexes[p]
            <4>1. i \in Int /\ idx[p] \in Int
                BY <2>2, ReadersAssumption
            <4>2. i < idx[p]
                BY <3>1, <4>1, SMTT(30)
            <4> QED
                BY <1>9, <2>2, <4>2 DEF OpenSlot
        <3>2. ASSUME idx[p] \in rOwned[q] PROVE Exists(p, idx[p])
            BY <2>2, <3>2 DEF OpenSlot
        <3> QED
            BY <1>9, <2>2, <3>1, <3>2 DEF OpenSlot
    <2> QED
        BY <2>1, <2>2
<1>10. ASSUME NEW p \in Procs, AllOpened(p) PROVE WriterView'
    BY <1>10 DEF AllOpened
<1>11. ASSUME NEW p \in Procs, WaitAll(p) PROVE WriterView'
    BY <1>11 DEF WaitAll
<1>12. ASSUME NEW p \in Procs, WaitFails(p) PROVE WriterView'
    BY <1>12 DEF WaitFails
<1>13. ASSUME NEW p \in Procs, ReleaseRead(p) PROVE WriterView'
    BY <1>13 DEF ReleaseRead
<1>14. ASSUME NEW p \in Procs, CloseRead(p) PROVE WriterView'
    BY <1>14 DEF CloseRead, AfterUnlock
<1>15. ASSUME NEW p \in Procs, CloseSlot(p) PROVE WriterView'
    BY <1>15 DEF CloseSlot
<1>16. ASSUME NEW p \in Procs, WriteReleased(p) PROVE WriterView'
    BY <1>16 DEF WriteReleased, AfterUnlock
<1>17. ASSUME NEW p \in Procs, Crash(p) PROVE WriterView'
    BY <1>17 DEF Crash
<1>18. CASE UNCHANGED vars
    BY <1>18 DEF vars
<1> QED
    BY <1>1, <1>2, <1>3, <1>4, <1>5, <1>6, <1>7, <1>8, <1>9, <1>10, <1>11, <1>12, <1>13, <1>14, <1>15, <1>16, <1>17, <1>18 DEF Next, Step, Call

-----------------------------------------------------------------------------
LEMMA OwnInit ==
    ASSUME Init
    PROVE  Own
BY ReadersAssumption
   DEF Init, Own, TypeOK, ModeInCalls, IndexInBounds, Handles, OwnsSlots, OwnsW, Reading, Writing,
       ReaderPc, WriterPc, Pc, Modes

LEMMA OwnNext ==
    ASSUME Own, [Next]_vars
    PROVE  Own'
BY TypeNext, ModeNext, IndexNext, HandlesNext, OwnsSlotsNext, OwnsWNext DEF Own

LEMMA OwnAlways == Spec => []Own
<1>1. Init => Own
    BY OwnInit
<1>2. Own /\ [Next]_vars => Own'
    BY OwnNext
<1> QED
    BY <1>1, <1>2, PTL DEF Spec

\* Every variable of the lock keeps its type, whatever fails: in particular
\* the loop index and the slot numbers stay below MAX_READERS.
THEOREM TypeCorrect == Spec => []TypeOK
<1>1. Own => TypeOK
    BY DEF Own
<1> QED
    BY <1>1, OwnAlways, PTL

\* No lock() that fails and no unlock() leaves a mutex owned or a handle
\* open, whatever fails: what an object owns between calls is what its
\* m_lock_mode says.
THEOREM LeavesNothing == Spec => []NothingLeftOver
<1>1. Own => NothingLeftOver
    BY DEF Own, NothingLeftOver, TypeOK, Modes, Handles, OwnsSlots, OwnsW, Reading, Writing,
           ReaderPc, WriterPc
<1> QED
    BY <1>1, OwnAlways, PTL

LEMMA InvAlways ==
    ASSUME "open" \notin Failures
    PROVE  Spec => []Inv
<1>1. Init => Inv
    BY OwnInit DEF Inv, Init, WriterView, Writing
<1>2. Inv /\ [Next]_vars => Inv'
    BY OwnNext, WriterViewNext DEF Inv
<1> QED
    BY <1>1, <1>2, PTL DEF Spec

\* A writer that waits for the slots has a handle on every slot a reader of
\* its session owns, unless the open of an existing mutex fails.
THEOREM WriterKnowsReaders ==
    ASSUME "open" \notin Failures
    PROVE  Spec => []WriterView
<1>1. Inv => WriterView
    BY DEF Inv
<1> QED
    BY <1>1, InvAlways, PTL

\* Readers and writers of a session exclude each other, for every number of
\* processes and slots, unless the open of an existing mutex fails.
THEOREM LockExcludes ==
    ASSUME "open" \notin Failures
    PROVE  Spec => []Exclusion
<1>1. Inv => Exclusion
    <2> SUFFICES ASSUME Inv, NEW p \in Procs, Held(p) = "WriteLock", NEW q \in Peers(p)
                 PROVE  Held(q) = "NoLock"
        BY DEF Exclusion
    <2>1. Writing(p) /\ q \in Procs
        BY DEF Held, Writing, Peers
    <2>2. ~ Reading(q)
        BY <2>1 DEF Inv, Own, WriterView, OwnsSlots
    <2>3. ~ Writing(q)
        BY <2>1 DEF Inv, Own, OwnsW
    <2> QED
        BY <2>1, <2>2, <2>3 DEF Inv, Own, TypeOK, Modes, Held, Reading, Writing
<1> QED
    BY <1>1, InvAlways, PTL

(***************************************************************************)
(* No deadlock, whatever fails: a process that others wait for waits       *)
(* itself only if it has wmutex and no slot, and then for processes that   *)
(* own a slot and wait for nobody.                                         *)
(***************************************************************************)
THEOREM NobodyWaitsInACircle == Spec => []NoCircularWait
<1>1. Own => NoCircularWait
    <2> SUFFICES ASSUME Own, NEW p \in Procs, NEW q \in BlockedBy(p), NEW r \in BlockedBy(q)
                 PROVE  pc[r] \notin {"wait", "waitAll"}
        BY DEF NoCircularWait, BlockedBy, Peers
    <2>1. q \in Procs /\ r \in Procs
        BY DEF BlockedBy, Peers
    <2>2. ASSUME NEW s \in Procs, pc[s] \in {"wait", "waitAll"}
          PROVE  rOwned[s] = {} /\ (s \in wOwners <=> pc[s] = "waitAll")
        BY <2>2 DEF Own, OwnsSlots, OwnsW, Reading, Writing, ReaderPc, WriterPc
    <2>3. pc[q] = "waitAll"
        <3>1. pc[q] \in {"wait", "waitAll"}
            BY DEF BlockedBy
        <3> QED
            BY <2>1, <2>2, <3>1 DEF BlockedBy
    <2>4. rOwned[r] # {}
        BY <2>3 DEF BlockedBy
    <2> QED
        BY <2>1, <2>2, <2>4
<1> QED
    BY <1>1, OwnAlways, PTL

-----------------------------------------------------------------------------
(* The number of readers *)

\* No two processes of a session own the same slot.
SlotsApart == \A p \in Procs : \A q \in Peers(p) : rOwned[p] \cap rOwned[q] = {}

LEMMA SlotsApartNext ==
    ASSUME Own, SlotsApart, [Next]_vars
    PROVE  SlotsApart'
<1>0. TypeOK /\ rOwned \in [Procs -> SUBSET Slots]
    BY DEF Own, TypeOK
<1>1. ASSUME NEW p \in Procs, \A q \in Procs \ {p} : rOwned'[q] = rOwned[q],
             \A i \in rOwned'[p] : i \in rOwned[p] \/ SlotFree(p, i)
      PROVE  SlotsApart'
    <2> SUFFICES ASSUME NEW q \in Procs, NEW r \in Peers(q), NEW i \in rOwned'[q] \cap rOwned'[r]
                 PROVE  FALSE
        BY DEF SlotsApart, Peers
    <2>1. r \in Procs /\ q \in Peers(r) /\ r # q
        BY DEF Peers
    <2>2. CASE q = p
        BY <1>1, <2>1, <2>2 DEF SlotsApart, SlotFree
    <2>3. CASE r = p
        BY <1>1, <2>1, <2>3 DEF SlotsApart, SlotFree
    <2>4. CASE q # p /\ r # p
        BY <1>1, <2>1, <2>4 DEF SlotsApart
    <2> QED
        BY <2>2, <2>3, <2>4
<1>2. ASSUME NEW p \in Procs, TrySlot(p) \/ TryCreated(p) PROVE SlotsApart'
    BY <1>0, <1>1, <1>2 DEF TrySlot, TryCreated
<1>3. ASSUME NEW p \in Procs, WaitAll(p) PROVE SlotsApart'
    BY <1>0, <1>1, <1>3 DEF WaitAll
<1>4. ASSUME NEW p \in Procs, ReleaseRead(p) \/ CloseSlot(p) \/ Crash(p) PROVE SlotsApart'
    BY <1>0, <1>1, <1>4 DEF ReleaseRead, CloseSlot, Crash
<1>5. CASE UNCHANGED rOwned
    BY <1>5 DEF SlotsApart
<1> QED
    BY <1>2, <1>3, <1>4, <1>5
       DEF Next, Step, Call, Lock, AcquireW, FailW, Scan, CreateSlot, ReadDone, OpenSlot, AllOpened,
           WaitFails, CloseRead, WriteReleased, vars

LEMMA SlotsApartAlways == Spec => []SlotsApart
<1>1. Init => SlotsApart
    BY DEF Init, SlotsApart, Peers
<1>2. Own /\ SlotsApart /\ [Next]_vars => SlotsApart'
    BY SlotsApartNext
<1> QED
    BY <1>1, <1>2, OwnAlways, PTL DEF Spec

\* The processes of p's session that have the file locked in read mode.
Readers(p) == {q \in Peers(p) \cup {p} : Held(q) = "ReadLock"}

(***************************************************************************)
(* MAX_READERS is the "maximum number of concurrent read locks"            *)
(* (qtlockedfile_win.cpp:46): no session has more readers, whatever fails, *)
(* although no process counts them.  Each owns a slot of its own.          *)
(***************************************************************************)
THEOREM ReadersBounded ==
    Spec => [](\A p \in Procs : IsFiniteSet(Readers(p)) /\ Cardinality(Readers(p)) <= MaxReaders)
<1>1. ASSUME Own, SlotsApart, NEW p \in Procs
      PROVE  IsFiniteSet(Readers(p)) /\ Cardinality(Readers(p)) <= MaxReaders
    <2>1. ASSUME NEW q \in Readers(p)
          PROVE  q \in Procs /\ rmutex[q] \in Slots /\ rOwned[q] = {rmutex[q]}
        <3>1. q \in Procs /\ Reading(q)
            BY DEF Readers, Held, Reading, Peers
        <3>2. OwnsSlots
            BY <1>1 DEF Own
        <3> QED
            BY <3>1, <3>2 DEF OwnsSlots
    <2>2. ASSUME NEW q \in Readers(p), NEW r \in Readers(p), q # r
          PROVE  rmutex[q] # rmutex[r]
        <3>1. r \in Peers(q)
            BY <2>1, <2>2 DEF Readers, Peers
        <3> QED
            BY <1>1, <2>1, <3>1 DEF SlotsApart
    <2> DEFINE f == [q \in Readers(p) |-> rmutex[q]]
    <2>3. f \in Injection(Readers(p), Slots)
        BY <2>1, <2>2 DEF Injection, IsInjective
    <2>4. IsFiniteSet(Slots) /\ Cardinality(Slots) = MaxReaders
        BY FS_Interval, ReadersAssumption DEF Slots
    <2> QED
        BY <2>3, <2>4, FS_Injection
<1>2. Own /\ SlotsApart
         => \A p \in Procs : IsFiniteSet(Readers(p)) /\ Cardinality(Readers(p)) <= MaxReaders
    BY <1>1
<1> QED
    BY <1>2, OwnAlways, SlotsApartAlways, PTL

-----------------------------------------------------------------------------
(* The mutexes implement the reader/writer lock. *)

held == [p \in Procs |-> Held(p)]

\* A step of p that leaves what it holds, or lets it go, is a step of RWLock.
LEMMA HeldElsewhere ==
    ASSUME TypeOK, NEW p \in Procs,
           pc' \in [Procs -> Pc], mode' \in [Procs -> Modes],
           \A q \in Procs \ {p} : pc'[q] = pc[q] /\ mode'[q] = mode[q]
    PROVE  held' = [held EXCEPT ![p] = Held(p)']
BY DEF held, Held

LEMMA Implements ==
    ASSUME Inv, [Next]_vars
    PROVE  [RW!Next]_held
<1> USE DEF Goes, Returns
<1>0. TypeOK /\ TypeOK'
    BY TypeNext DEF Inv, Own
<1>1. ASSUME NEW p \in Procs,
             \A q \in Procs \ {p} : pc'[q] = pc[q] /\ mode'[q] = mode[q],
             Held(p)' \in {"NoLock", Held(p)}
      PROVE  [RW!Next]_held
    <2>1. held' = [held EXCEPT ![p] = Held(p)']
        BY <1>0, <1>1, HeldElsewhere DEF TypeOK
    <2>2. CASE Held(p)' = Held(p)
        BY <2>1, <2>2 DEF held
    <2>3. CASE Held(p)' = "NoLock" /\ Held(p) # "NoLock"
        <3>1. RW!Release(p)
            BY <2>1, <2>3 DEF RW!Release, held
        <3> QED
            BY <3>1 DEF RW!Next
    <2> QED
        BY <1>1, <2>2, <2>3
<1>2. ASSUME NEW p \in Procs, ReadDone(p)
      PROVE  [RW!Next]_held
    <2>1. \A q \in Procs \ {p} : pc'[q] = pc[q] /\ mode'[q] = mode[q]
        BY <1>0, <1>2 DEF ReadDone, TypeOK
    <2>2. CASE pc[p] = "failed"
        <3>1. Held(p)' = mode[p] /\ mode[p] = "NoLock"
            BY <1>0, <1>2, <2>2 DEF ReadDone, Held, TypeOK, Inv, Own, ModeInCalls, ReaderPc
        <3> QED
            BY <1>1, <2>1, <3>1
    <2>3. CASE pc[p] = "release"
        <3>1. held' = [held EXCEPT ![p] = "ReadLock"]
            <4>1. Held(p)' = "ReadLock"
                BY <1>0, <1>2, <2>3 DEF ReadDone, Held, TypeOK
            <4> QED
                BY <1>0, <2>1, <4>1, HeldElsewhere DEF TypeOK
        <3>2. \A q \in Peers(p) : Held(q) # "WriteLock"
            BY <1>0, <2>3 DEF Inv, Own, OwnsW, Writing, Held, ReaderPc, Peers
        <3>3. RW!AcquireRead(p)
            BY <2>3, <3>1, <3>2 DEF RW!AcquireRead, RW!Peers, Peers, held, Held
        <3> QED
            BY <3>3 DEF RW!Next
    <2> QED
        BY <1>2, <2>2, <2>3 DEF ReadDone
<1>3. ASSUME NEW p \in Procs, WaitAll(p)
      PROVE  [RW!Next]_held
    <2>1. \A q \in Procs \ {p} : pc'[q] = pc[q] /\ mode'[q] = mode[q]
        BY <1>0, <1>3 DEF WaitAll, TypeOK
    <2>2. held' = [held EXCEPT ![p] = "WriteLock"]
        <3>1. Held(p)' = "WriteLock"
            BY <1>0, <1>3 DEF WaitAll, Held, TypeOK
        <3> QED
            BY <1>0, <2>1, <3>1, HeldElsewhere DEF TypeOK
    <2>3. ASSUME NEW q \in Peers(p)
          PROVE  Held(q) = "NoLock"
        <3>1. q \in Procs /\ pc[p] = "waitAll" /\ p \in wOwners
            BY <1>3, <2>3 DEF WaitAll, Peers, Inv, Own, OwnsW, WriterPc
        <3>2. ~ Writing(q)
            BY <2>3, <3>1 DEF Inv, Own, OwnsW
        <3>3. rOwned[q] = {}
            BY <1>0, <1>3, <2>3, <3>1 DEF WaitAll, SlotFree, Inv, WriterView, TypeOK
        <3>4. ~ Reading(q)
            BY <3>1, <3>3 DEF Inv, Own, OwnsSlots
        <3> QED
            BY <1>0, <3>1, <3>2, <3>4 DEF Held, Reading, Writing, TypeOK, Modes
    <2>4. RW!AcquireWrite(p)
        BY <1>3, <2>2, <2>3 DEF WaitAll, RW!AcquireWrite, RW!Peers, Peers, held, Held
    <2> QED
        BY <2>4 DEF RW!Next
<1>4. ASSUME NEW p \in Procs, Step(p), ~ ReadDone(p), ~ WaitAll(p)
      PROVE  [RW!Next]_held
    <2>1. \A q \in Procs \ {p} : pc'[q] = pc[q] /\ mode'[q] = mode[q]
        BY <1>0, <1>4 DEF Step, TypeOK, AfterUnlock, AcquireW, FailW, Scan, TrySlot, CreateSlot, TryCreated,
           OpenSlot, AllOpened, WaitFails, ReleaseRead, CloseRead, CloseSlot, WriteReleased
    <2>2. Held(p)' = "NoLock"
        BY <1>0, <1>4 DEF Step, TypeOK, Inv, Own, ModeInCalls, ReaderPc, WriterPc, Held, AfterUnlock,
           AcquireW, FailW, Scan, TrySlot, CreateSlot, TryCreated,
           OpenSlot, AllOpened, WaitFails, ReleaseRead, CloseRead, CloseSlot, WriteReleased
    <2> QED
        BY <1>1, <2>1, <2>2
<1>5. ASSUME NEW p \in Procs, Call(p) \/ Crash(p)
      PROVE  [RW!Next]_held
    <2>1. \A q \in Procs \ {p} : pc'[q] = pc[q] /\ mode'[q] = mode[q]
        BY <1>0, <1>5 DEF TypeOK, Call, Lock, Crash
    <2>2. Held(p)' = "NoLock"
        BY <1>0, <1>5 DEF TypeOK, Held, Call, Lock, UnlockPc, Crash
    <2> QED
        BY <1>1, <2>1, <2>2
<1>6. CASE UNCHANGED vars
    BY <1>6 DEF vars, held, Held
<1> QED
    BY <1>2, <1>3, <1>4, <1>5, <1>6 DEF Next

\* Every behaviour of the mutexes is one of the reader/writer lock, for
\* every number of processes and slots.
THEOREM ImplementsRWLock ==
    ASSUME "open" \notin Failures
    PROVE  Spec => RWLockSpec
<1>1. Init => RW!Init
    BY DEF Init, RW!Init, Held
<1>2. Inv /\ [Next]_vars => [RW!Next]_held
    BY Implements
<1> QED
    BY <1>1, <1>2, InvAlways, PTL DEF Spec, RWLockSpec, RW!Spec, held
=============================================================================
