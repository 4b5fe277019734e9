----------------------------- MODULE NamingQueue -----------------------------
(***************************************************************************)
(* Naming of finished runs: naming.ts with the walk over the providers of  *)
(* namer/orchestrator.ts. A process names its own run under the namer lock,*)
(* after a drain of naming-queue.jsonl; if the lock does not come in time  *)
(* the run is appended to the queue, without a lock. `at status` only      *)
(* drains. A drain names what it read of the queue and then rewrites the   *)
(* file under the queue's lock, reading it again: that read, the           *)
(* truncation and the text are three steps an append can get between. The  *)
(* order of the jobs on file, in which a drain tries them, is left out; a   *)
(* job in it always has a prompt to be named from.                         *)
(***************************************************************************)
EXTENDS Naturals

CONSTANTS Runs,        \* finished runs, each with the process that names it
          Viewers,     \* processes of `at status`
          MaxCrashes

Procs == Runs \cup Viewers
Nobody == "nobody"

VARIABLES
  queue,     \* SUBSET Runs: the jobs on file
  namer,     \* holder of the namer lock
  rewriter,  \* holder of the queue's lock
  pc,        \* [Procs -> ...]
  todo,      \* [Procs -> SUBSET Runs]: jobs of the drain not tried yet
  done,      \* [Procs -> SUBSET Runs]: namedIds
  kept,      \* [Procs -> SUBSET Runs]: what the rewrite will write
  named,     \* [Runs -> 0..2]: how often the run was given a name, 2 for more than once
  deferred,  \* history: runs ever enqueued
  cut,       \* history: jobs appended while a rewrite was under way, or cut by a crash in it
  crashes

vars == <<queue, namer, rewriter, pc, todo, done, kept, named, deferred, cut, crashes>>

States == {"start", "drain", "naming", "rewrite", "truncate", "write", "own", "ownNaming", "enqueue",
           "end", "crashed"}

TypeOK ==
  /\ queue \subseteq Runs /\ namer \in Procs \cup {Nobody} /\ rewriter \in Procs \cup {Nobody}
  /\ pc \in [Procs -> States] /\ {todo, done, kept} \subseteq [Procs -> SUBSET Runs]
  /\ named \in [Runs -> 0..2] /\ deferred \subseteq Runs /\ cut \subseteq Runs

Init ==
  /\ queue = {} /\ namer = Nobody /\ rewriter = Nobody /\ pc = [p \in Procs |-> "start"]
  /\ todo = [p \in Procs |-> {}] /\ done = todo /\ kept = todo
  /\ named = [r \in Runs |-> 0] /\ deferred = {} /\ cut = {} /\ crashes = 0

Goto(p, s) == pc' = [pc EXCEPT ![p] = s]
Name(r) == [named EXCEPT ![r] = IF @ = 2 THEN 2 ELSE @ + 1]   \* updateRun
AfterDrain(p) == IF p \in Runs THEN "own" ELSE "end"
Rewriting == {p \in Procs : pc[p] \in {"truncate", "write"}}

----------------------------------------------------------------------------
(* The drain *)

\* The file is there from the first append on, be it empty.
DrainStart(p) ==
  /\ pc[p] = "start"
  /\ todo' = [todo EXCEPT ![p] = queue] /\ Goto(p, IF deferred = {} THEN AfterDrain(p) ELSE "drain")
  /\ UNCHANGED <<queue, namer, rewriter, done, kept, named, deferred, cut, crashes>>

\* nameQueuedJob: the lock is taken, or its timeout leaves the job for the next drain.
DrainJob(p) ==
  /\ pc[p] = "drain" /\ todo[p] # {}
  /\ \/ namer = Nobody /\ namer' = p /\ Goto(p, "naming") /\ UNCHANGED todo
     \/ /\ namer # Nobody /\ \E r \in todo[p] : todo' = [todo EXCEPT ![p] = @ \ {r}]
        /\ UNCHANGED <<namer, pc>>
  /\ UNCHANGED <<queue, rewriter, done, kept, named, deferred, cut, crashes>>

\* nameRunLocked: the first provider that answers, or none of them.
JobNamed(p) ==
  /\ pc[p] = "naming" /\ namer' = Nobody /\ Goto(p, "drain")
  /\ \E r \in todo[p] :
       /\ \/ named' = Name(r) /\ done' = [done EXCEPT ![p] = @ \cup {r}]
          \/ UNCHANGED <<named, done>>
       /\ todo' = [todo EXCEPT ![p] = @ \ {r}]
  /\ UNCHANGED <<queue, rewriter, kept, deferred, cut, crashes>>

DrainEnd(p) == /\ pc[p] = "drain" /\ todo[p] = {} /\ Goto(p, "rewrite")
               /\ UNCHANGED <<queue, namer, rewriter, todo, done, kept, named, deferred, cut, crashes>>

(* Mutant: nothing is kept, as if every job had been named. *)
KeptNone(p) == {}

Kept(p) == queue \ done[p]

\* withLock(queueFile): taken, with the second read, or timed out.
Reread(p) ==
  /\ pc[p] = "rewrite"
  /\ \/ /\ rewriter = Nobody /\ rewriter' = p
        /\ kept' = [kept EXCEPT ![p] = Kept(p)]
        /\ Goto(p, "truncate")
     \/ rewriter # Nobody /\ Goto(p, AfterDrain(p)) /\ UNCHANGED <<rewriter, kept>>
  /\ UNCHANGED <<queue, namer, todo, done, named, deferred, cut, crashes>>

Truncate(p) == /\ pc[p] = "truncate" /\ queue' = {} /\ Goto(p, "write")
               /\ UNCHANGED <<namer, rewriter, todo, done, kept, named, deferred, cut, crashes>>

\* The text goes to the start of the file, over what was appended since the truncation.
Write(p) ==
  /\ pc[p] = "write" /\ queue' = kept[p] /\ rewriter' = Nobody
  /\ done' = [done EXCEPT ![p] = {}] /\ kept' = [kept EXCEPT ![p] = {}]
  /\ Goto(p, AfterDrain(p))
  /\ UNCHANGED <<namer, todo, named, deferred, cut, crashes>>

----------------------------------------------------------------------------
(* The run's own name *)

\* withLock(namer): taken, or timed out.
OwnLock(r) ==
  /\ pc[r] = "own"
  /\ \/ namer = Nobody /\ namer' = r /\ Goto(r, "ownNaming")
     \/ namer # Nobody /\ Goto(r, "enqueue") /\ UNCHANGED namer
  /\ UNCHANGED <<queue, rewriter, todo, done, kept, named, deferred, cut, crashes>>

\* A run no provider could name is not queued.
OwnNamed(r) ==
  /\ pc[r] = "ownNaming" /\ namer' = Nobody /\ Goto(r, "end")
  /\ named' = Name(r) \/ UNCHANGED named
  /\ UNCHANGED <<queue, rewriter, todo, done, kept, deferred, cut, crashes>>

Enqueue(r) ==
  /\ pc[r] = "enqueue" /\ Goto(r, "end")
  /\ queue' = queue \cup {r} /\ deferred' = deferred \cup {r}
  /\ cut' = IF Rewriting = {} THEN cut ELSE cut \cup {r}
  /\ UNCHANGED <<namer, rewriter, todo, done, kept, named, crashes>>

\* A process dies; its locks are stolen. Between truncation and text the queue is gone.
Crash(p) ==
  /\ pc[p] \notin {"start", "end", "crashed"} /\ crashes < MaxCrashes /\ crashes' = crashes + 1
  /\ Goto(p, "crashed")
  /\ namer' = IF namer = p THEN Nobody ELSE namer
  /\ rewriter' = IF rewriter = p THEN Nobody ELSE rewriter
  /\ cut' = IF pc[p] = "write" THEN cut \cup kept[p] ELSE cut
  /\ UNCHANGED <<queue, todo, done, kept, named, deferred>>

\* `at status` is run again.
Again(p) == /\ p \in Viewers /\ pc[p] = "end" /\ Goto(p, "start")
            /\ UNCHANGED <<queue, namer, rewriter, todo, done, kept, named, deferred, cut, crashes>>

Next ==
  \/ \E p \in Procs : \/ DrainStart(p) \/ DrainJob(p) \/ JobNamed(p) \/ DrainEnd(p)
                      \/ Reread(p) \/ Truncate(p) \/ Write(p) \/ Crash(p) \/ Again(p)
  \/ \E r \in Runs : OwnLock(r) \/ OwnNamed(r) \/ Enqueue(r)

Spec == Init /\ [][Next]_vars

----------------------------------------------------------------------------
(* Properties *)

\* The jobs a rewrite in progress will put back.
BeingWritten == UNION {kept[p] : p \in {q \in Procs : pc[q] = "write"}}

(* A deferred run is named, or waits in the queue, or in the hands of the    *)
(* one process that rewrites it. The only ways to lose it are an append      *)
(* during a rewrite, which takes the queue's lock nowhere, and a crash       *)
(* between the truncation and the text.                                      *)
JobLostOnlyInRewrite ==
  /\ \A r \in deferred : named[r] > 0 \/ r \in queue \cup BeingWritten \cup cut
  /\ \A p, q \in Rewriting : p = q

(* A name is given twice only to a deferred run: by drains that read the   *)
(* queue before each other's rewrite.                                       *)
TwiceOnlyDeferred == \A r \in Runs : named[r] > 1 => r \in deferred

NoNameLost == JobLostOnlyInRewrite /\ TwiceOnlyDeferred
=============================================================================
