---------------------------- MODULE ResourceGuard ----------------------------
(***************************************************************************)
(* scripts/resource-guard.py: a loop that polls /proc and stops, resumes    *)
(* and kills the process trees of agent work. One poll is one step; the     *)
(* readings it acts on are chosen anew each time. A time the guard keeps    *)
(* is an age in polls, none before it is set. Trees that fork while they    *)
(* are being killed show up as new ones at the next poll.                   *)
(***************************************************************************)
EXTENDS Integers, FiniteSets

CONSTANTS Trees,                  \* root pids, none used twice
          TempSustain, CpuSustain, AggSustain, PauseMax,    \* in polls
          MaxRestarts             \* bound

None == -1
Temps == {"cool", "warm", "pause", "kill"}   \* below RESUME_C, below PAUSE_C, below KILL_C, above

VARIABLES
  tree,      \* [Trees -> "new" | "runs" | "stopped" | "dead"]
  paused,    \* the trees whose processes the guard has stopped
  pausedFor, hotFor, overAgg, \* ages of paused_since, hot_since and over_agg
  overTree,  \* [Trees -> age], over_tree
  restarts

vars == <<tree, paused, pausedFor, hotFor, overAgg, overTree, restarts>>

Ages(max) == None..max
TypeOK == /\ tree \in [Trees -> {"new", "runs", "stopped", "dead"}] /\ paused \subseteq Trees
          /\ pausedFor \in Ages(PauseMax + 1) /\ hotFor \in Ages(TempSustain)
          /\ overAgg \in Ages(AggSustain) /\ overTree \in [Trees -> Ages(CpuSustain)]

Init == /\ tree = [t \in Trees |-> "new"] /\ paused = {} /\ pausedFor = None /\ hotFor = None
        /\ overAgg = None /\ overTree = [t \in Trees |-> None] /\ restarts = 0

----------------------------------------------------------------------------
(* A poll *)

Stats == {t \in Trees : tree[t] \in {"runs", "stopped"}}

Older(age, max) == IF age \in {None, max} THEN age ELSE age + 1
SinceNow(age) == IF age = None THEN 0 ELSE age

\* kill_tree: SIGTERM, a pause, SIGKILL, stopped or not.
Kill(S) == tree' = [t \in Trees |-> IF t \in S THEN "dead" ELSE tree[t]]

\* Time passes before the poll looks at anything.
Paused == Older(pausedFor, PauseMax + 1)
Hot == Older(hotFor, TempSustain)
Agg == Older(overAgg, AggSustain)
Over(t) == Older(overTree[t], CpuSustain)

KeepPause == paused' = paused /\ pausedFor' = Paused
KeepHot == hotFor' = Hot
KeepCpu == overAgg' = Agg /\ overTree' = [t \in Trees |-> Over(t)]
NoPause == paused' = {} /\ pausedFor' = None

\* 0 and 1: too many supervisors, or too little memory: some tree dies and nothing else is looked at.
Breaker == Stats # {} /\ \E S \in SUBSET Stats : S # {} /\ Kill(S)
           /\ KeepPause /\ KeepHot /\ KeepCpu

\* 2: the temperature. What is paused is forgotten as it is killed.
HotNow(temp) == IF temp = "kill" THEN SinceNow(Hot) ELSE None

KillHot(temp) == /\ HotNow(temp) >= TempSustain /\ Stats # {}
                 /\ Kill(Stats) /\ NoPause /\ hotFor' = None /\ KeepCpu
TooHot(temp) == HotNow(temp) >= TempSustain /\ Stats # {}

Pausing(temp) == temp \in {"pause", "kill"} /\ paused = {} /\ Stats # {}
Pause(temp) == /\ ~TooHot(temp) /\ Pausing(temp)
               /\ tree' = [t \in Trees |-> IF t \in Stats THEN "stopped" ELSE tree[t]]
               /\ paused' = Stats /\ pausedFor' = 0 /\ hotFor' = HotNow(temp) /\ KeepCpu

(* Mutant: a pause is only ended by the temperature. *)
PausedTooLongNever(age) == FALSE

PausedTooLong(age) == age > PauseMax

Resume(S) == tree' = [t \in Trees |-> IF t \in S /\ tree[t] = "stopped" THEN "runs" ELSE tree[t]]

\* While anything is paused no other limit is looked at, and trees that came later are left
\* running until they too are killed at the end of the longest pause.
InPause(temp) ==
  /\ ~TooHot(temp) /\ paused # {} /\ hotFor' = HotNow(temp) /\ KeepCpu
  /\ \/ temp = "cool" /\ Resume(paused) /\ NoPause
     \/ temp # "cool" /\ PausedTooLong(Paused) /\ Kill(Stats) /\ NoPause
     \/ temp # "cool" /\ ~PausedTooLong(Paused) /\ UNCHANGED tree /\ KeepPause

\* 3 and 4: one tree over its memory or, long enough, over its CPU; then all together.
Limits(temp, fat, busy, sum) ==
  LET now == [t \in Trees |-> IF t \in busy THEN SinceNow(Over(t)) ELSE None]
      due == fat \cup {t \in busy : now[t] >= CpuSustain}
      agg == IF sum = "cpu" THEN SinceNow(Agg) ELSE None
  IN  /\ ~TooHot(temp) /\ ~Pausing(temp) /\ paused = {}
      /\ hotFor' = HotNow(temp) /\ UNCHANGED <<paused, pausedFor>>
      /\ \/ \E t \in due : \E seen \in SUBSET (Stats \ due) :   \* the first due ends the loop
              /\ Kill({t}) /\ overAgg' = Agg
              /\ overTree' = [u \in Trees |-> IF u \in Stats \ (seen \cup {t}) THEN Over(u)
                                             ELSE IF u \in seen THEN now[u] ELSE None]
         \/ /\ due = {} /\ overTree' = now
            /\ IF sum = "memory" THEN (\E t \in Stats : Kill({t})) /\ overAgg' = Agg
               ELSE IF agg >= AggSustain /\ Stats # {}
                    THEN (\E t \in Stats : Kill({t})) /\ overAgg' = None
                    ELSE UNCHANGED tree /\ overAgg' = agg

Poll == /\ \/ Breaker
           \/ \E temp \in Temps :
                \/ KillHot(temp) \/ Pause(temp) \/ InPause(temp)
                \/ \E fat, busy \in SUBSET Stats, sum \in {"fine", "memory", "cpu"} :
                     Limits(temp, fat, busy, sum)
        /\ UNCHANGED restarts

----------------------------------------------------------------------------
(* Around the guard *)

Launch(t) == /\ tree[t] = "new" /\ tree' = [tree EXCEPT ![t] = "runs"]
             /\ UNCHANGED <<paused, pausedFor, hotFor, overAgg, overTree, restarts>>
Ends(t) == /\ tree[t] = "runs" /\ tree' = [tree EXCEPT ![t] = "dead"]
           /\ UNCHANGED <<paused, pausedFor, hotFor, overAgg, overTree, restarts>>

\* The guard is killed and started again: it remembers nothing, what it stopped stays stopped.
Restart == /\ restarts < MaxRestarts /\ restarts' = restarts + 1
           /\ NoPause /\ hotFor' = None /\ overAgg' = None
           /\ overTree' = [t \in Trees |-> None] /\ UNCHANGED tree

Next == Poll \/ Restart \/ \E t \in Trees : Launch(t) \/ Ends(t)

\* The loop goes on.
Spec == Init /\ [][Next]_vars /\ WF_vars(Poll)

----------------------------------------------------------------------------
(* Properties *)

Stopped(t) == tree[t] = "stopped"

(* What the guard has stopped it remembers, to resume or to kill it, through   *)
(* every order of hot, cool and starved polls, unless it was itself restarted. *)
StoppedIsRemembered == restarts = 0 => \A t \in Trees : Stopped(t) => t \in paused

(* Nothing stays stopped for ever under a guard that runs on: it cools down,   *)
(* or the longest pause ends, even if other emergencies interrupt the pause.   *)
PauseEnds == /\ []StoppedIsRemembered
             /\ \A t \in Trees : Stopped(t) ~> (~Stopped(t) \/ restarts > 0)
=============================================================================
