--------------------------- MODULE FileLockProofs ---------------------------
(***************************************************************************)
(* Proofs about the file mutex of src/lock.ts, for any sets of blocking    *)
(* and trying processes and any number of calls.                           *)
(*                                                                         *)
(* The exclusion the code gives is not inductive by itself.  LockInv adds  *)
(* what makes it so: a holder that was not usurped is the one the lock     *)
(* file names, a process that left lock.ts has left no file, and a         *)
(* contender about to unlink has read an unreadable file or the pid of a   *)
(* process that is gone.                                                   *)
(***************************************************************************)
EXTENDS FileLock, TLAPS

\* Only processes that are gone have a dead pid.
DeadAreGone == \A p \in deadPids : pc[p] = "gone"

LockInv ==
    /\ TypeOK
    /\ LockFileNamesHolder
    /\ NoOrphanLock
    /\ StealIsOfTheDead
    /\ DeadAreGone

\* The steps leave every variable with its type.
LEMMA TypeInductive == TypeOK /\ [Next]_vars => TypeOK'
<1> SUFFICES ASSUME TypeOK, [Next]_vars PROVE TypeOK'
  OBVIOUS
<1> USE LockAssumption DEF TypeOK, Pcs
<1>1. CASE UNCHANGED vars
  BY <1>1 DEF vars
<1>2. ASSUME NEW p \in Procs,
             Call(p) \/ Step(p) \/ DeadlinePasses(p) \/ Die(p) \/ RecyclePid(p)
      PROVE  TypeOK'
  <2>1. CASE Call(p)
    BY <2>1 DEF Call
  <2>2. CASE Create(p)
    BY <2>2 DEF Create
  <2>3. CASE FindExisting(p) \/ Wake(p) \/ CheckDead(p)
    BY <2>3 DEF FindExisting, Wake, CheckDead
  <2>4. CASE WriteInfo(p)
    BY <2>4 DEF WriteInfo
  <2>5. CASE ReadInfo(p)
    BY <2>5 DEF ReadInfo
  <2>6. CASE CheckAliveWait(p) \/ CheckAliveFail(p)
    BY <2>6 DEF CheckAliveWait, CheckAliveFail
  <2>7. CASE Steal(p)
    <3>1. usurped' \in SUBSET Procs
      BY <2>7 DEF Steal, Holders
    <3>2. pc' \in [Procs -> Pcs] /\ attempt' \in [Procs -> 0..1]
      BY <2>7 DEF Steal
    <3> QED
      BY <2>7, <3>1, <3>2 DEF Steal, Unlink
  <2>8. CASE Release(p)
    <3>1. usurped' \in SUBSET Procs
      BY <2>8 DEF Release, Holders
    <3> QED
      BY <2>8, <3>1 DEF Release, Unlink
  <2>9. CASE DeadlinePasses(p)
    BY <2>9 DEF DeadlinePasses
  <2>10. CASE Die(p) \/ RecyclePid(p)
    BY <2>10 DEF Die, RecyclePid
  <2> QED
    BY <1>2, <2>1, <2>2, <2>3, <2>4, <2>5, <2>6, <2>7, <2>8, <2>9, <2>10
       DEF Step
<1> QED
  BY <1>1, <1>2 DEF Next

\* The strengthened invariant holds at first.
LEMMA LockInvInit == Init => LockInv
<1> SUFFICES ASSUME Init PROVE LockInv
  OBVIOUS
<1>1. TypeOK
  <2>1. 0 \in 0..MaxCalls /\ 0 \in 0..1
    BY LockAssumption
  <2>2. calls \in [Procs -> 0..MaxCalls] /\ attempt \in [Procs -> 0..1]
    BY <2>1 DEF Init
  <2>3. /\ pc \in [Procs -> Pcs] /\ late \in [Procs -> BOOLEAN]
        /\ seen \in [Procs -> Procs \cup {Unreadable}]
    BY DEF Init, Pcs
  <2> QED
    BY <2>2, <2>3 DEF Init, TypeOK
<1>2. LockFileNamesHolder /\ NoOrphanLock /\ StealIsOfTheDead /\ DeadAreGone
  BY DEF Init, LockFileNamesHolder, Holders, NoOrphanLock, StealIsOfTheDead,
         DeadAreGone
<1> QED
  BY <1>1, <1>2 DEF LockInv

\* Every step preserves it.  Only the two unlinks can separate a holder from
\* its file, and both record the holder they usurp.
LEMMA LockInvInductive == LockInv /\ [Next]_vars => LockInv'
<1> SUFFICES ASSUME LockInv, [Next]_vars PROVE LockInv'
  OBVIOUS
<1>0. TypeOK /\ TypeOK'
  BY TypeInductive DEF LockInv
<1> USE LockAssumption, <1>0
    DEF LockInv, LockFileNamesHolder, Holders, NoOrphanLock, StealIsOfTheDead,
        DeadAreGone, TypeOK, Pcs
<1>1. CASE UNCHANGED vars
  BY <1>1 DEF vars
<1>2. ASSUME NEW p \in Procs,
             Call(p) \/ Step(p) \/ DeadlinePasses(p) \/ Die(p) \/ RecyclePid(p)
      PROVE  LockInv'
  <2>1. CASE Call(p)
    BY <2>1 DEF Call
  <2>2. CASE Create(p)
    BY <2>2 DEF Create
  <2>3. CASE FindExisting(p)
    BY <2>3 DEF FindExisting
  <2>4. CASE WriteInfo(p)
    BY <2>4 DEF WriteInfo
  <2>5. CASE ReadInfo(p)
    BY <2>5 DEF ReadInfo
  <2>6. CASE CheckAliveWait(p)
    BY <2>6 DEF CheckAliveWait
  <2>7. CASE CheckAliveFail(p)
    BY <2>7 DEF CheckAliveFail
  <2>8. CASE CheckDead(p)
    BY <2>8 DEF CheckDead, SeenAlive
  <2>9. CASE Wake(p)
    BY <2>9 DEF Wake
  <2>10. CASE Steal(p)
    <3>1. pc[p] = "steal" /\ lockBy' = NoProc /\ UNCHANGED <<seen, deadPids>>
      BY <2>10 DEF Steal, Unlink
    <3>2. \A q \in Procs : q # p => pc'[q] = pc[q]
      BY <2>10 DEF Steal
    <3>3. pc'[p] \in {"idle", "open"}
      BY <2>10 DEF Steal
    <3>4. Holders' = Holders
      BY <3>1, <3>2, <3>3
    <3>5. \A q \in Holders : q \in usurped'
      BY <2>10, <3>1 DEF Steal
    <3> QED
      BY <3>1, <3>2, <3>3, <3>4, <3>5
  <2>11. CASE Release(p)
    <3>1. pc[p] = "held" /\ lockBy' = NoProc /\ UNCHANGED <<seen, deadPids>>
      BY <2>11 DEF Release, Unlink
    <3>2. pc' = [pc EXCEPT ![p] = "idle"]
      BY <2>11 DEF Release
    <3>3. Holders' = Holders \ {p}
      BY <3>1, <3>2
    <3>4. \A q \in Holders \ {p} : q \in usurped'
      BY <2>11 DEF Release
    <3> QED
      BY <3>1, <3>2, <3>3, <3>4
  <2>12. CASE DeadlinePasses(p)
    BY <2>12 DEF DeadlinePasses
  <2>13. CASE Die(p)
    BY <2>13 DEF Die
  <2>14. CASE RecyclePid(p)
    BY <2>14 DEF RecyclePid
  <2> QED
    BY <1>2, <2>1, <2>2, <2>3, <2>4, <2>5, <2>6, <2>7, <2>8, <2>9, <2>10,
       <2>11, <2>12, <2>13, <2>14 DEF Step
<1> QED
  BY <1>1, <1>2 DEF Next

LEMMA LockInvariant == Spec => []LockInv
BY LockInvInit, LockInvInductive, PTL DEF Spec

\* Type correctness of the mutex, for any number of processes.
THEOREM LockTypeOK == Spec => []TypeOK
<1>1. LockInv => TypeOK
  BY DEF LockInv
<1> QED
  BY <1>1, LockInvariant, PTL

\* Two processes hold the lock of lock.ts together only when another process
\* unlinked the lock file of one of them.
THEOREM LockExclusion == Spec => []ExclusionUnlessUsurped
<1>1. LockInv => ExclusionUnlessUsurped
  BY DEF LockInv, LockFileNamesHolder, ExclusionUnlessUsurped, Holders
<1> QED
  BY <1>1, LockInvariant, PTL

\* acquireLock and tryAcquireLock decide to unlink a lock whose text they read
\* only when the process it names is gone.
THEOREM LockStealSound == Spec => []StealIsOfTheDead
<1>1. LockInv => StealIsOfTheDead
  BY DEF LockInv
<1> QED
  BY <1>1, LockInvariant, PTL

\* Every return of acquireLock, tryAcquireLock and releaseLock leaves no lock
\* file of the caller behind, unless the caller holds the lock or died.
THEOREM LockNoOrphan == Spec => []NoOrphanLock
<1>1. LockInv => NoOrphanLock
  BY DEF LockInv
<1> QED
  BY <1>1, LockInvariant, PTL

----------------------------------------------------------------------------
(* The refinement *)

\* Only a holder is usurped, and its lock file is gone: the file that is there
\* is another's.
UsurpedLostTheirs == usurped \subseteq Holders /\ lockBy \notin usurped

\* It holds in every reachable state, given the invariant.
LEMMA UsurpedInductive ==
  LockInv /\ UsurpedLostTheirs /\ [Next]_vars => UsurpedLostTheirs'
<1> SUFFICES ASSUME LockInv, UsurpedLostTheirs, [Next]_vars PROVE UsurpedLostTheirs'
  OBVIOUS
<1> USE LockAssumption DEF LockInv, TypeOK, UsurpedLostTheirs, Holders
<1>1. CASE UNCHANGED vars
  BY <1>1 DEF vars
<1>2. ASSUME NEW p \in Procs,
             Call(p) \/ Step(p) \/ DeadlinePasses(p) \/ Die(p) \/ RecyclePid(p)
      PROVE  UsurpedLostTheirs'
  <2>1. CASE Call(p) \/ FindExisting(p) \/ ReadInfo(p) \/ CheckDead(p) \/ Wake(p)
    BY <2>1 DEF Call, FindExisting, ReadInfo, CheckDead, Wake
  <2>2. CASE CheckAliveWait(p) \/ CheckAliveFail(p) \/ DeadlinePasses(p) \/ RecyclePid(p)
    BY <2>2 DEF CheckAliveWait, CheckAliveFail, DeadlinePasses, RecyclePid
  <2>3. CASE Create(p) \/ WriteInfo(p)
    BY <2>3 DEF Create, WriteInfo
  <2>4. CASE Steal(p)
    <3>1. pc[p] = "steal" /\ lockBy' = NoProc /\ p \notin Holders
      BY <2>4 DEF Steal, Unlink
    <3>2. usurped' \subseteq Holders
      BY <2>4 DEF Steal
    <3>3. \A q \in Holders : pc'[q] = pc[q]
      BY <2>4, <3>1 DEF Steal
    <3> QED
      BY <3>1, <3>2, <3>3
  <2>5. CASE Release(p)
    <3>1. lockBy' = NoProc /\ pc' = [pc EXCEPT ![p] = "idle"]
      BY <2>5 DEF Release, Unlink
    <3>2. usurped' \subseteq Holders \ {p}
      BY <2>5 DEF Release
    <3> QED
      BY <3>1, <3>2
  <2>6. CASE Die(p)
    BY <2>6 DEF Die
  <2> QED
    BY <1>2, <2>1, <2>2, <2>3, <2>4, <2>5, <2>6 DEF Step
<1> QED
  BY <1>1, <1>2 DEF Next

\* A step of lock.ts is a step of the revocable lock, or none.
LEMMA StepIsAbstract ==
  LockInv /\ UsurpedLostTheirs /\ [Next]_vars => [Abstract!Next]_(Abstract!vars)
<1> SUFFICES ASSUME LockInv, UsurpedLostTheirs, [Next]_vars PROVE [Abstract!Next]_(Abstract!vars)
  OBVIOUS
<1> DEFINE Looking == {p \in Procs : pc[p] \in {"check", "steal"}}
           Dead == {p \in Procs : pc[p] = "gone"}
<1>0. TypeOK /\ usurped \subseteq Holders /\ lockBy \notin usurped
  BY DEF LockInv, UsurpedLostTheirs
<1>1. CASE UNCHANGED vars
  BY <1>1 DEF vars, Abstract!vars
<1>2. ASSUME NEW p \in Procs,
             Call(p) \/ Step(p) \/ DeadlinePasses(p) \/ Die(p) \/ RecyclePid(p)
      PROVE  [Abstract!Next]_(Abstract!vars)
  <2> USE LockAssumption, <1>0 DEF TypeOK, Holders
  \* Who looks, and who is dead, changes only by the step of p itself.
  <2>1. ASSUME NEW at, pc' = [pc EXCEPT ![p] = at], pc[p] # "gone"
        PROVE  /\ Looking' = IF at \in {"check", "steal"} THEN Looking \cup {p} ELSE Looking \ {p}
               /\ Dead' = IF at = "gone" THEN Dead \cup {p} ELSE Dead
    BY <2>1
  <2>2. CASE Call(p)
    BY <2>1, <2>2 DEF Call, Abstract!vars
  <2>3. CASE FindExisting(p)
    BY <2>1, <2>3 DEF FindExisting, Abstract!vars
  <2>4. CASE CheckDead(p)
    BY <2>1, <2>4 DEF CheckDead, Abstract!vars
  <2>5. CASE Wake(p)
    BY <2>1, <2>5 DEF Wake, Abstract!vars
  <2>6. CASE DeadlinePasses(p) \/ RecyclePid(p)
    BY <2>6 DEF DeadlinePasses, RecyclePid, Abstract!vars
  <2>7. CASE Create(p)
    <3>1. Looking' = Looking /\ Dead' = Dead
      BY <2>1, <2>7 DEF Create
    <3>2. p \notin usurped \cup Dead \cup Looking
      BY <2>7 DEF Create
    <3>3. Abstract!Acquire(p)
      BY <2>7, <3>1, <3>2 DEF Create, Abstract!Acquire
    <3> QED
      BY <3>3 DEF Abstract!Next
  <2>8. CASE WriteInfo(p)
    <3>1. Looking' = Looking /\ Dead' = Dead /\ p \notin Dead
      BY <2>1, <2>8 DEF WriteInfo
    <3>2. CASE lockBy = p
      <4>1. Abstract!Sign(p)
        BY <2>8, <3>1, <3>2 DEF WriteInfo, Abstract!Sign
      <4> QED
        BY <4>1 DEF Abstract!Next
    <3>3. CASE lockBy # p
      BY <2>8, <3>1, <3>3 DEF WriteInfo, Abstract!vars
    <3> QED
      BY <3>2, <3>3
  <2>9. CASE ReadInfo(p)
    <3>1. Looking' = Looking \cup {p} /\ Dead' = Dead /\ p \notin usurped \cup Dead \cup Looking
      BY <2>1, <2>9 DEF ReadInfo
    <3>2. Abstract!Look(p)
      BY <2>9, <3>1 DEF ReadInfo, Abstract!Look
    <3> QED
      BY <3>2 DEF Abstract!Next
  <2>10. CASE CheckAliveWait(p) \/ CheckAliveFail(p)
    <3>1. Looking' = Looking \ {p} /\ Dead' = Dead /\ p \in Looking
      <4>1. CASE CheckAliveWait(p)
        BY <2>1, <4>1 DEF CheckAliveWait
      <4>2. CASE CheckAliveFail(p)
        BY <2>1, <4>2 DEF CheckAliveFail
      <4> QED
        BY <2>10, <4>1, <4>2
    <3>2. Abstract!TurnAway(p)
      BY <2>10, <3>1 DEF CheckAliveWait, CheckAliveFail, Abstract!TurnAway
    <3> QED
      BY <3>2 DEF Abstract!Next
  <2>11. CASE Steal(p)
    <3>1. Looking' = Looking \ {p} /\ Dead' = Dead /\ p \in Looking
      <4>1. PICK at : pc' = [pc EXCEPT ![p] = at] /\ at \in {"idle", "open"}
        BY <2>11 DEF Steal
      <4> QED
        BY <2>1, <2>11, <4>1 DEF Steal
    <3>2. seen[p] \in Dead \cup {Unreadable}
      BY <2>11 DEF Steal, LockInv, StealIsOfTheDead
    <3>3. lockBy \in Holders <=> lockBy \in Procs \ Dead
      BY DEF LockInv, NoOrphanLock
    <3>4. usurped' = usurped \cup ({lockBy} \cap (Procs \ Dead))
      BY <2>11, <3>3 DEF Steal
    <3>5. Abstract!Revoke(p)
      BY <2>11, <3>1, <3>2, <3>4 DEF Steal, Unlink, Abstract!Revoke, Abstract!Free
    <3> QED
      BY <3>5 DEF Abstract!Next
  <2>12. CASE Release(p)
    <3>1. Looking' = Looking /\ Dead' = Dead /\ p \notin Dead
      BY <2>1, <2>12 DEF Release
    <3>2. lockBy \in Holders <=> lockBy \in Procs \ Dead
      BY DEF LockInv, NoOrphanLock
    <3>3. CASE p \notin usurped
      <4>1. lockBy = p /\ usurped' = usurped
        BY <2>12, <3>3 DEF Release, LockInv, LockFileNamesHolder
      <4>2. Abstract!Leave(p)
        BY <2>12, <3>1, <4>1 DEF Release, Unlink, Abstract!Leave
      <4> QED
        BY <4>2 DEF Abstract!Next
    <3>4. CASE p \in usurped
      <4>1. lockBy # p
        BY <3>4
      <4>2. usurped' = (usurped \ {p}) \cup ({lockBy} \cap (Procs \ Dead))
        BY <2>12, <3>2, <4>1 DEF Release
      <4>3. Abstract!LeaveAndRevoke(p)
        BY <2>12, <3>1, <3>4, <4>2 DEF Release, Unlink, Abstract!LeaveAndRevoke, Abstract!Free
      <4> QED
        BY <4>3 DEF Abstract!Next
    <3> QED
      BY <3>3, <3>4
  <2>13. CASE Die(p)
    <3>1. Looking' = Looking \ {p} /\ Dead' = Dead \cup {p}
      BY <2>1, <2>13 DEF Die
    <3>2. Abstract!Die(p)
      BY <2>13, <3>1 DEF Die, Abstract!Die
    <3> QED
      BY <3>2 DEF Abstract!Next
  <2> QED
    BY <1>2, <2>2, <2>3, <2>4, <2>5, <2>6, <2>7, <2>8, <2>9, <2>10, <2>11, <2>12, <2>13 DEF Step
<1> QED
  BY <1>1, <1>2 DEF Next

\* acquireLock, tryAcquireLock, releaseLock and withLock implement a revocable lock, for any
\* processes, deaths and recycled pids: a living holder is unlocked only by a contender whose look
\* was of before its text was there or of another that is dead, or by one that lost the lock itself.
THEOREM LockIsRevocable == Spec => IsRevocableLock
<1>1. Init => Abstract!Init /\ UsurpedLostTheirs
  BY DEF Init, Abstract!Init, UsurpedLostTheirs, Holders
<1> QED
  BY <1>1, LockInvariant, UsurpedInductive, StepIsAbstract, PTL
     DEF Spec, IsRevocableLock, Abstract!Spec
=============================================================================
