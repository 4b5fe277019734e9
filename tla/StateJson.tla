------------------------------ MODULE StateJson ------------------------------
(***************************************************************************)
(* <stateDir>/state.json is shared by three kinds of data: the health of   *)
(* the agents (src/health.ts), the round robin indexes (src/scheduler.ts,  *)
(* and the "state.pick" broker operation of src/commands/serve.ts) and the *)
(* settings of the TUI (src/tui/store).  Every writer rewrites the whole   *)
(* file from what it read.  This module is about who reads and writes it   *)
(* when: inside withLock or outside, and through writeFileSync, which      *)
(* truncates the file before it writes it.                                 *)
(*                                                                         *)
(* The content of a section is the set of updates it holds, one update per *)
(* process, and maybe an old one: a disable whose TTL has passed.  The     *)
(* daemon's cache (HotCache) may answer a pick with an older content.      *)
(* The lock is exclusive and falls to the next process when its holder     *)
(* dies; FileLock says when lock.ts keeps that promise.                    *)
(***************************************************************************)
EXTENDS Naturals, FiniteSets

CONSTANTS
    Procs,      \* the processes that use state.json
    Kind,       \* what each of them does: a function to Kinds
    NoProc,     \* nobody
    MaxCrashes  \* bound: processes killed in mid-operation

\* "result" is recordResult, "disable" setDeactivated(true), "pick" pickAgent,
\* "prune" filterHealthy (and isHealthy) with something to prune, "tui"
\* saveSettings and saveSessionState, "use" isDeactivated before an agent is used, which may
\* set off a setDeactivated(false).
LockedKinds == {"result", "disable", "pick"}
Kinds == LockedKinds \cup {"prune", "tui", "use"}

VARIABLES
    file,     \* state.json: the updates in each section
    lock,     \* the process inside withLock(state.json)
    pc,       \* where each process is
    seen,     \* what it read, and is going to write back
    missed,   \* history: the updates in the file that were not in what the daemon gave a pick
    before,   \* history: the disables finished when a "use" began
    crashes

vars == <<file, lock, pc, seen, missed, before, crashes>>

Sections == {"agents", "scheduler", "tui"}
Empty == [s \in Sections |-> {}]

Expired == "expired"   \* a disable of more than AT_DEACTIVATE_TTL ago
Disables == {Expired} \cup {p \in Procs : Kind[p] = "disable"}

\* The section a process updates.
Section(p) ==
    CASE Kind[p] = "pick" -> "scheduler"
      [] Kind[p] = "tui"  -> "tui"
      [] OTHER            -> "agents"

Init ==
    /\ file \in {Empty, [Empty EXCEPT !["agents"] = {Expired}]}
    /\ missed = [p \in Procs |-> {}]
    /\ lock = NoProc
    /\ pc = [p \in Procs |-> "idle"]
    /\ seen = [p \in Procs |-> Empty]
    /\ before = [p \in Procs |-> {}]
    /\ crashes = 0

Done == {p \in Procs : pc[p] = "done"}

\* Mutant: the lock of a living holder is taken too.
AcquireAnyway(p) ==
    /\ \/ pc[p] = "idle" /\ Kind[p] \in LockedKinds \ {"pick"}
       \/ pc[p] \in {"peeked", "fired"}
    /\ lock' = p
    /\ pc' = [pc EXCEPT ![p] = "locked"]
    /\ UNCHANGED <<file, seen, missed, before, crashes>>

\* withLock.
Acquire(p) ==
    /\ \/ pc[p] = "idle" /\ Kind[p] \in LockedKinds \ {"pick"}
       \/ pc[p] \in {"peeked", "fired"}
    /\ lock = NoProc
    /\ lock' = p
    /\ pc' = [pc EXCEPT ![p] = "locked"]
    /\ UNCHANGED <<file, seen, missed, before, crashes>>

\* loadHealth of run(), mcp or bridge, before the lock: filterHealthy prunes
\* this copy.  And the daemon's last read of the file before a pick asks it,
\* whoever had it read it: in mid-rewrite too, an empty file is {} to it.
Peek(p) ==
    /\ pc[p] = "idle" /\ Kind[p] \in {"prune", "pick"}
    /\ seen' = [seen EXCEPT ![p] = file]
    /\ pc' = [pc EXCEPT ![p] = "peeked"]
    /\ UNCHANGED <<file, lock, missed, before, crashes>>

\* Mutant: the other sections are not carried over.
ReadOwnSection(p) ==
    /\ \/ pc[p] = "locked"
       \/ pc[p] = "idle" /\ Kind[p] = "tui"
    /\ seen' = [seen EXCEPT ![p] = [Empty EXCEPT ![Section(p)] = file[Section(p)]]]
    /\ pc' = [pc EXCEPT ![p] = "read"]
    /\ UNCHANGED <<file, lock, missed, before, crashes>>

\* The read before the write: loadHealth, saveHealth and loadStateFile inside
\* the lock, the TUI without.  filterHealthy takes only the other sections from
\* here: its agents are those it peeked at.
Read(p) ==
    /\ \/ pc[p] = "locked"
       \/ pc[p] = "idle" /\ Kind[p] = "tui"
    /\ seen' = [seen EXCEPT ![p] =
                  IF Kind[p] = "prune" THEN [file EXCEPT !["agents"] = seen[p]["agents"]]
                                       ELSE file]
    /\ pc' = [pc EXCEPT ![p] = "read"]
    /\ UNCHANGED <<file, lock, missed, before, crashes>>

\* pickAgent asks the daemon first, inside the lock.  HotCache says when a hit is older than the
\* file; here it may always be.
ReadCached(p) ==
    /\ pc[p] = "locked" /\ Kind[p] = "pick"
    /\ missed' = [missed EXCEPT ![p] = {q \in Procs : q \in file[Section(q)] \ seen[p][Section(q)]}]
    /\ pc' = [pc EXCEPT ![p] = "read"]
    /\ UNCHANGED <<file, lock, seen, before, crashes>>

\* writeFileSync opens the file with O_TRUNC ...
Truncate(p) ==
    /\ pc[p] = "read"
    /\ file' = Empty
    /\ pc' = [pc EXCEPT ![p] = "truncated"]
    /\ UNCHANGED <<lock, seen, missed, before, crashes>>

\* ... and writes.  setDeactivated(false) deletes whatever disable it finds.
Write(p) ==
    /\ pc[p] = "truncated"
    /\ file' = [seen[p] EXCEPT ![Section(p)] =
                  (IF Kind[p] = "use" THEN @ \ Disables ELSE @) \cup {p}]
    /\ pc' = [pc EXCEPT ![p] = "written"]
    /\ UNCHANGED <<lock, seen, missed, before, crashes>>

\* releaseLock, and the caller is told; the TUI holds none.
Release(p) ==
    /\ pc[p] = "written"
    /\ lock' = IF lock = p THEN NoProc ELSE lock
    /\ pc' = [pc EXCEPT ![p] = "done"]
    /\ seen' = [seen EXCEPT ![p] = Empty]
    /\ UNCHANGED <<file, missed, before, crashes>>

\* run() reads the file without the lock, at any time after it was started.
StartUse(p) ==
    /\ pc[p] = "idle" /\ Kind[p] = "use"
    /\ before' = [before EXCEPT ![p] = {d \in Done : Kind[d] = "disable"}]
    /\ pc' = [pc EXCEPT ![p] = "started"]
    /\ UNCHANGED <<file, lock, seen, missed, crashes>>

\* A disable whose TTL has passed is none; it is taken away later, by a setDeactivated(false)
\* nobody waits for.  A newer disable has overwritten its time.
IsDeactivated(p) ==
    /\ pc[p] = "started"
    /\ seen' = [seen EXCEPT ![p] = file]
    /\ pc' = [pc EXCEPT ![p] = IF file["agents"] \cap Disables = {Expired} THEN "fired" ELSE "used"]
    /\ UNCHANGED <<file, lock, missed, before, crashes>>

\* Killed; the lock file of a dead process is stolen.
Crash(p) ==
    /\ pc[p] \notin {"idle", "done", "used", "crashed", "gone", "cut"}
    /\ crashes < MaxCrashes
    /\ crashes' = crashes + 1
    /\ lock' = IF lock = p THEN NoProc ELSE lock
    /\ pc' = [pc EXCEPT ![p] = CASE @ = "truncated" -> "cut"
                                 [] @ = "written"   -> "gone"
                                 [] OTHER           -> "crashed"]
    /\ seen' = [seen EXCEPT ![p] = Empty]
    /\ UNCHANGED <<file, missed, before>>

Next ==
    \E p \in Procs :
        \/ Peek(p) \/ Acquire(p) \/ Read(p) \/ ReadCached(p) \/ Truncate(p) \/ Write(p)
        \/ Release(p) \/ StartUse(p) \/ IsDeactivated(p) \/ Crash(p)

Spec == Init /\ [][Next]_vars

-----------------------------------------------------------------------------

\* Every variable has its type.
Contents == [Sections -> SUBSET (Procs \cup {Expired})]
TypeOK ==
    /\ file \in Contents
    /\ lock \in Procs \cup {NoProc}
    /\ pc \in [Procs -> {"idle", "peeked", "locked", "read", "truncated", "written",
                          "done", "started", "used", "fired", "crashed", "gone", "cut"}]
    /\ seen \in [Procs -> Contents]
    /\ missed \in [Procs -> SUBSET Procs]
    /\ before \in [Procs -> SUBSET Procs]
    /\ crashes \in Nat

\* Once a writer has begun to write, it may have undone an update: the TUI, which reads outside
\* the lock, any; filterHealthy, which prunes what it peeked at, those of the agents but its own;
\* a pick the daemon answered with an older content, those that it had not; and a use that
\* found an expired disable, a newer one.
Begun(q) == pc[q] \in {"truncated", "written", "done", "gone"}
MayUndo(q, p) ==
    \/ Kind[q] = "tui"
    \/ Kind[q] = "prune" /\ q # p /\ Section(p) = "agents"
    \/ p \in missed[q]
    \/ Kind[q] = "use" /\ Kind[p] = "disable"

\* docs/architecture.md: "All write operations on shared state files use
\* file-based mutex to prevent TOCTOU races".  An update whose caller was told
\* that it is done stays in the file, whatever writers of any section do
\* afterwards; while a writer rewrites the file it is in that writer's hands.
\* Only the four kinds of stale writers break this, each only as far as it may.
\* (A writer killed between truncation and text loses all.)
LostOnlyToStaleWriters ==
    (\A q \in Procs : pc[q] # "cut") =>
        \A p \in Procs : pc[p] = "done" =>
            \/ p \in file[Section(p)]
            \/ \E q \in Procs : pc[q] = "truncated" /\ p \in seen[q][Section(p)]
            \/ \E q \in Procs : Begun(q) /\ MayUndo(q, p)

\* commands/health.ts, `at disable`: "Deactivate an agent (cannot be used even
\* with -a)".  A use that begins after the disable was done misses it only when
\* it reads the file in mid-rewrite, or when a stale writer undid it.
DisableMissedOnlyMidRewrite ==
    (\A q \in Procs : pc[q] # "cut") =>
        \A u, d \in Procs :
            pc[u] \in {"used", "fired"} /\ Kind[d] = "disable" /\ d \in before[u] =>
                \/ d \in seen[u]["agents"] \/ seen[u] = Empty
                \/ \E q \in Procs : Begun(q) /\ MayUndo(q, d)
=============================================================================
