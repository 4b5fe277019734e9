----------------------------- MODULE ComposeJobs -----------------------------
(***************************************************************************)
(* `at compose --background`, `jobs`, `logs` and `stop`, for one job name:  *)
(* compose/background.ts, called at compose/cli.ts:440-580. A job is a     *)
(* detached `at compose` process; its record, <name>.json, is written by   *)
(* the starter after the spawn, with no lock, and is all that later        *)
(* commands know of it. Whether a job is alive is asked of its pid, which  *)
(* the system may have given to another process since.                     *)
(***************************************************************************)
EXTENDS Naturals

CONSTANTS Users, Pids

Missing == "missing"          \* no file, or one that does not parse
Idle == {"idle", "done", "refused"}

VARIABLES
  record,     \* the pid in the file, or Missing
  proc,       \* [Pids -> "free" | "job" | "ending" | "other"]
  pc, mine,   \* of each user's command: where it is, the pid it spawned or is to signal
  careless    \* history: a start began before another had written its record, or was cut short

vars == <<record, proc, pc, mine, careless>>

TypeOK == /\ record \in Pids \cup {Missing}
          /\ proc \in [Pids -> {"free", "job", "ending", "other"}]
          /\ pc \in [Users -> Idle \cup {"spawn", "open", "write", "term", "kill"}]
          /\ mine \in [Users -> Pids \cup {Missing}] /\ careless \in BOOLEAN

Init == /\ record = Missing /\ proc = [p \in Pids |-> "free"] /\ careless = FALSE
        /\ pc = [u \in Users |-> "idle"] /\ mine = [u \in Users |-> Missing]

\* readJob: the record if it parses, and isPidAlive of its pid.
AliveJob == record \in Pids /\ proc[record] # "free"

Step(u, from, to) == pc[u] \in from /\ pc' = [pc EXCEPT ![u] = to]

Starting == {u \in Users : pc[u] \in {"spawn", "open", "write"}}

StartRefused(u) == AliveJob /\ Step(u, Idle, "refused") /\ UNCHANGED <<record, proc, mine, careless>>

StartAllowed(u) == /\ ~AliveJob /\ Step(u, Idle, "spawn")
                   /\ careless' = (careless \/ Starting # {})
                   /\ UNCHANGED <<record, proc, mine>>

Spawn(u) == /\ Step(u, {"spawn"}, "open")
            /\ \E p \in Pids : /\ proc[p] = "free" /\ proc' = [proc EXCEPT ![p] = "job"]
                               /\ mine' = [mine EXCEPT ![u] = p]
            /\ UNCHANGED <<record, careless>>

\* writeFileSync empties the file before it fills it.
OpenRecord(u) == Step(u, {"open"}, "write") /\ record' = Missing /\ UNCHANGED <<proc, mine, careless>>
WriteRecord(u) == Step(u, {"write"}, "done") /\ record' = mine[u] /\ UNCHANGED <<proc, mine, careless>>

\* The starter is killed before its record is there.
StarterDies(u) == /\ Step(u, {"spawn", "open", "write"}, "idle") /\ careless' = TRUE
                  /\ UNCHANGED <<record, proc, mine>>

\* stopJob: a dead job is left alone; the signal goes to the pid read before.
StopReads(u, how) == /\ AliveJob /\ Step(u, Idle, how) /\ mine' = [mine EXCEPT ![u] = record]
                     /\ UNCHANGED <<record, proc, careless>>

\* A job ends its loop after the task in hand on the first SIGTERM, at once on the next.
AfterSignal(state, how) == IF how = "term" /\ state = "job" THEN "ending" ELSE "free"
StopSignals(u) ==
  /\ \E how \in {"term", "kill"} : pc[u] = how /\ Step(u, {how}, "done")
       /\ proc' = [proc EXCEPT ![mine[u]] = AfterSignal(@, how)]
  /\ UNCHANGED <<record, mine, careless>>

\* The loop ends by itself, or the system gives the pid to another process and takes it back.
Exits(p) == proc[p] # "free" /\ proc' = [proc EXCEPT ![p] = "free"] /\ UNCHANGED <<record, pc, mine, careless>>
Reused(p) == /\ proc[p] = "free" /\ proc' = [proc EXCEPT ![p] = "other"]
             /\ UNCHANGED <<record, pc, mine, careless>>

Next == \/ \E u \in Users : \/ StartRefused(u) \/ StartAllowed(u) \/ Spawn(u) \/ OpenRecord(u)
                            \/ WriteRecord(u) \/ StarterDies(u) \/ StopSignals(u)
                            \/ \E how \in {"term", "kill"} : StopReads(u, how)
        \/ \E p \in Pids : Exits(p) \/ Reused(p)

Spec == Init /\ [][Next]_vars

----------------------------------------------------------------------------
(* Properties *)

\* The starter that still has the record of job p to write.
AboutToRecord(p) == \E u \in Users : pc[u] \in {"open", "write"} /\ mine[u] = p

(* Every running job can be found, and so stopped, through the record, unless *)
(* two starts of the name overlapped or a starter was killed: a name started  *)
(* and stopped by one user at a time, however often and whatever becomes of   *)
(* the pids, has one loop at most.                                            *)
JobsAreFound ==
  ~careless => \A p \in Pids : proc[p] \in {"job", "ending"} => record = p \/ AboutToRecord(p)
=============================================================================
