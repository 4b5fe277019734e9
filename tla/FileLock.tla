------------------------------ MODULE FileLock ------------------------------
(***************************************************************************)
(* The file mutex of src/lock.ts: acquireLock, tryAcquireLock, releaseLock *)
(* and withLock.  Every shared file of the tool (runs.json, state.json,    *)
(* feedback.json, KANBAN.md, ...) is rewritten under one such lock.        *)
(*                                                                         *)
(* A lock is a file that names the pid of its holder.  No operation of     *)
(* lock.ts is a single system call, so each call is a step of its own:     *)
(*                                                                         *)
(*   writeFileSync(wx)   open with O_EXCL (Create / FindExisting), then    *)
(*                       write the text (WriteInfo): between the two the   *)
(*                       file exists and is empty                          *)
(*   readFileSync        ReadInfo: what the contender saw is kept in       *)
(*                       seen[p] and is used only later                    *)
(*   isPidAlive          CheckDeadOrUnreadable / CheckAlive...             *)
(*   unlinkSync          Steal, Release                                    *)
(*                                                                         *)
(* The file system is external; what is modelled of it is that O_EXCL is   *)
(* atomic and that a write to an unlinked file reaches nobody.             *)
(***************************************************************************)
EXTENDS Naturals, FiniteSets

CONSTANTS
    Blocking,    \* processes that call withLock / acquireLock
    Trying,      \* processes that call tryAcquireLock
    MaxCalls,    \* bound: lock calls that one process makes
    NoProc,      \* "no lock file"
    Unreadable   \* what a failed read or JSON.parse leaves: null

Procs == Blocking \cup Trying

ASSUME LockAssumption ==
    /\ MaxCalls \in Nat \ {0}
    /\ NoProc \notin Procs
    /\ Unreadable \notin Procs
    /\ Blocking \cap Trying = {}

VARIABLES
    lockBy,       \* the process whose create made the lock file, or NoProc
    lockWritten,  \* TRUE once that process has written its LockInfo into it
    pc,           \* where each process is
    seen,         \* existingInfo.pid of the last read (acquireLock:49-55)
    attempt,      \* the loop counter of tryAcquireLock
    late,         \* Date.now() >= deadline
    deadPids,     \* processes for which isPidAlive answers false
    calls,        \* lock calls made so far
    usurped       \* history: holders whose lock file another process removed

vars == <<lockBy, lockWritten, pc, seen, attempt, late, deadPids, calls,
          usurped>>

\* "idle": outside lock.ts.  "open": about to create the file.  "write": has
\* created it.  "held": the call returned, fn runs.  "read": found a file,
\* about to read it.  "check": about to test the pid.  "wait": sleep(50).
\* "steal": about to unlink.  "gone": the process ended or was killed.
Pcs == {"idle", "open", "write", "held", "read", "check", "wait", "steal",
        "gone"}

Holders == {p \in Procs : pc[p] \in {"write", "held"}}

Init ==
    /\ lockBy = NoProc
    /\ lockWritten = FALSE
    /\ pc = [p \in Procs |-> "idle"]
    /\ seen = [p \in Procs |-> Unreadable]
    /\ attempt = [p \in Procs |-> 0]
    /\ late = [p \in Procs |-> FALSE]
    /\ deadPids = {}
    /\ calls = [p \in Procs |-> 0]
    /\ usurped = {}

\* unlinkSync(lockPath): whatever file is there goes, whoever made it.
Unlink ==
    /\ lockBy' = NoProc
    /\ lockWritten' = FALSE

-----------------------------------------------------------------------------

\* acquireLock / tryAcquireLock is called: the deadline starts to run.
Call(p) ==
    /\ pc[p] = "idle"
    /\ calls[p] < MaxCalls
    /\ pc' = [pc EXCEPT ![p] = "open"]
    /\ calls' = [calls EXCEPT ![p] = @ + 1]
    /\ attempt' = [attempt EXCEPT ![p] = 0]
    /\ late' = [late EXCEPT ![p] = FALSE]
    /\ UNCHANGED <<lockBy, lockWritten, seen, deadPids, usurped>>

\* Mutant: flag "w" instead of "wx".
CreateWithoutExcl(p) ==
    /\ pc[p] = "open"
    /\ lockBy' = p
    /\ lockWritten' = FALSE
    /\ pc' = [pc EXCEPT ![p] = "write"]
    /\ UNCHANGED <<seen, attempt, late, deadPids, calls, usurped>>

\* open(O_CREAT | O_EXCL) succeeds: there was no file.
Create(p) ==
    /\ pc[p] = "open"
    /\ lockBy = NoProc
    /\ lockBy' = p
    /\ lockWritten' = FALSE
    /\ pc' = [pc EXCEPT ![p] = "write"]
    /\ UNCHANGED <<seen, attempt, late, deadPids, calls, usurped>>

\* EEXIST.
FindExisting(p) ==
    /\ pc[p] = "open"
    /\ lockBy # NoProc
    /\ pc' = [pc EXCEPT ![p] = "read"]
    /\ UNCHANGED <<lockBy, lockWritten, seen, attempt, late, deadPids, calls,
                   usurped>>

\* The text goes to the file p opened; if that file has been unlinked in the
\* meantime nobody will ever read it.
WriteInfo(p) ==
    /\ pc[p] = "write"
    /\ lockWritten' = (lockWritten \/ lockBy = p)
    /\ pc' = [pc EXCEPT ![p] = "held"]
    /\ UNCHANGED <<lockBy, seen, attempt, late, deadPids, calls, usurped>>

\* readFileSync and JSON.parse: a missing or an empty file throws, and the
\* catch leaves existingInfo null ("treat as dead").
ReadInfo(p) ==
    /\ pc[p] = "read"
    /\ seen' = [seen EXCEPT ![p] = IF lockWritten THEN lockBy ELSE Unreadable]
    /\ pc' = [pc EXCEPT ![p] = "check"]
    /\ UNCHANGED <<lockBy, lockWritten, attempt, late, deadPids, calls,
                   usurped>>

\* Mutant: a lock held past the deadline is taken for dead.
SeenAliveInTime(p) == seen[p] # Unreadable /\ seen[p] \notin deadPids /\ ~late[p]

\* existingInfo && isPidAlive(existingInfo.pid)
SeenAlive(p) == seen[p] # Unreadable /\ seen[p] \notin deadPids

\* The holder lives and the deadline has not passed: sleep(50), try again.
CheckAliveWait(p) ==
    /\ pc[p] = "check"
    /\ SeenAlive(p)
    /\ p \in Blocking
    /\ ~late[p]
    /\ pc' = [pc EXCEPT ![p] = "wait"]
    /\ UNCHANGED <<lockBy, lockWritten, seen, attempt, late, deadPids, calls,
                   usurped>>

\* Mutant: acquireLock has no deadline.
CheckAliveNeverFails(p) ==
    /\ pc[p] = "check"
    /\ SeenAlive(p)
    /\ p \in Trying
    /\ pc' = [pc EXCEPT ![p] = "idle"]
    /\ UNCHANGED <<lockBy, lockWritten, seen, attempt, late, deadPids, calls,
                   usurped>>

\* The holder lives: acquireLock throws after the deadline, tryAcquireLock
\* returns null at once.
CheckAliveFail(p) ==
    /\ pc[p] = "check"
    /\ SeenAlive(p)
    /\ p \in Trying \/ late[p]
    /\ pc' = [pc EXCEPT ![p] = "idle"]
    /\ UNCHANGED <<lockBy, lockWritten, seen, attempt, late, deadPids, calls,
                   usurped>>

\* "Dead lock or unreadable, remove and retry": no deadline is tested here.
CheckDead(p) ==
    /\ pc[p] = "check"
    /\ ~SeenAlive(p)
    /\ pc' = [pc EXCEPT ![p] = "steal"]
    /\ UNCHANGED <<lockBy, lockWritten, seen, attempt, late, deadPids, calls,
                   usurped>>

Wake(p) ==
    /\ pc[p] = "wait"
    /\ pc' = [pc EXCEPT ![p] = "open"]
    /\ UNCHANGED <<lockBy, lockWritten, seen, attempt, late, deadPids, calls,
                   usurped>>

\* The unlink of a lock judged dead.  acquireLock loops; tryAcquireLock makes
\* two attempts and then returns null.
Steal(p) ==
    /\ pc[p] = "steal"
    /\ Unlink
    /\ usurped' = usurped \cup ({lockBy} \cap (Holders \ {p}))
    /\ pc' = [pc EXCEPT ![p] = IF p \in Trying /\ attempt[p] = 1
                               THEN "idle" ELSE "open"]
    /\ attempt' = [attempt EXCEPT ![p] = IF p \in Trying THEN 1 ELSE @]
    /\ UNCHANGED <<seen, late, deadPids, calls>>

\* The finally block of withLock: fn returned or threw, and the lock file is
\* unlinked, whoever made it.
Release(p) ==
    /\ pc[p] = "held"
    /\ Unlink
    /\ usurped' = (usurped \cup ({lockBy} \cap Holders)) \ {p}
    /\ pc' = [pc EXCEPT ![p] = "idle"]
    /\ UNCHANGED <<seen, attempt, late, deadPids, calls>>

-----------------------------------------------------------------------------
\* The environment: time, the death of processes, the reuse of pids.

DeadlinePasses(p) ==
    /\ p \in Blocking
    /\ pc[p] \notin {"idle", "gone", "write", "held"}
    /\ ~late[p]
    /\ late' = [late EXCEPT ![p] = TRUE]
    /\ UNCHANGED <<lockBy, lockWritten, pc, seen, attempt, deadPids, calls,
                   usurped>>

\* A process exits normally (pc "idle") or is killed anywhere: its lock file,
\* if it has one, stays behind.
Die(p) ==
    /\ pc[p] # "gone"
    /\ pc' = [pc EXCEPT ![p] = "gone"]
    /\ deadPids' = deadPids \cup {p}
    /\ usurped' = usurped \ {p}
    /\ UNCHANGED <<lockBy, lockWritten, seen, attempt, late, calls>>

\* The operating system gives the pid of a dead process to an unrelated one.
RecyclePid(p) ==
    /\ p \in deadPids
    /\ deadPids' = deadPids \ {p}
    /\ UNCHANGED <<lockBy, lockWritten, pc, seen, attempt, late, calls,
                   usurped>>

-----------------------------------------------------------------------------

Step(p) ==
    \/ Create(p) \/ FindExisting(p) \/ WriteInfo(p) \/ ReadInfo(p)
    \/ CheckAliveWait(p) \/ CheckAliveFail(p) \/ CheckDead(p)
    \/ Wake(p) \/ Steal(p) \/ Release(p)

Next ==
    \E p \in Procs :
        Call(p) \/ Step(p) \/ DeadlinePasses(p) \/ Die(p) \/ RecyclePid(p)

Spec == Init /\ [][Next]_vars

\* A process that is in lock.ts keeps running (or dies), its fn ends, and time
\* passes.  Nothing obliges a process to call, to die, or a pid to be reused.
FairSpec ==
    /\ Spec
    /\ \A p \in Procs : WF_vars(Step(p)) /\ WF_vars(DeadlinePasses(p))

-----------------------------------------------------------------------------

\* Every variable has its type, and only an existing file has a text.
TypeOK ==
    /\ lockBy \in Procs \cup {NoProc}
    /\ lockWritten \in BOOLEAN
    /\ lockWritten => lockBy # NoProc
    /\ pc \in [Procs -> Pcs]
    /\ seen \in [Procs -> Procs \cup {Unreadable}]
    /\ attempt \in [Procs -> 0..1]
    /\ late \in [Procs -> BOOLEAN]
    /\ deadPids \in SUBSET Procs
    /\ calls \in [Procs -> 0..MaxCalls]
    /\ usurped \in SUBSET Procs

\* What docs/architecture.md promises of the lock: at most one process is
\* between a successful acquireLock and its releaseLock.
MutualExclusion ==
    \A p, q \in Procs : pc[p] = "held" /\ pc[q] = "held" => p = q

\* What the code does guarantee: two processes can hold the lock together only
\* when the lock file of one of them was unlinked by another process.
ExclusionUnlessUsurped ==
    \A p, q \in Holders \ usurped : p = q

\* A holder that nobody usurped is named by the lock file: the file that
\* protects it is there, and no second create can succeed.
LockFileNamesHolder ==
    \A p \in Holders \ usurped : lockBy = p

\* The pid a contender judged dead is that of a process which is gone: a lock
\* whose text was read completely is never stolen from its living holder.
\* Only an unreadable file, or a lock that changed since, can be.
StealIsOfTheDead ==
    \A p \in Procs :
        pc[p] = "steal" /\ seen[p] # Unreadable => pc[seen[p]] = "gone"

\* A lock file never outlives its maker's call unless the maker died: a
\* process back outside lock.ts has left no file behind.
NoOrphanLock ==
    lockBy # NoProc => pc[lockBy] \in {"write", "held", "gone"}

\* lock.ts is a revocable lock: it is taken only when there is no lock file, and a living holder
\* loses it only to a contender that read the file before the holder's text was in it, or read the
\* pid of a process that is gone by now, or to the release of another that had lost it.
Abstract == INSTANCE RevocableLock WITH
  owner <- lockBy, signed <- lockWritten, saw <- seen, revoked <- usurped, NoName <- Unreadable,
  looking <- {p \in Procs : pc[p] \in {"check", "steal"}}, dead <- {p \in Procs : pc[p] = "gone"}
IsRevocableLock == Abstract!Spec

\* Every call ends: it returns with the lock, throws after its deadline,
\* returns null, or its process dies; a lock left behind by a crash, or whose
\* pid was recycled, blocks nobody for ever.
CallEnds ==
    \A p \in Procs : pc[p] = "open" ~> pc[p] \in {"held", "idle", "gone"}

=============================================================================
