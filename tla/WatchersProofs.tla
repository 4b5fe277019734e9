--------------------------- MODULE WatchersProofs ---------------------------
(***************************************************************************)
(* Proofs about five of the watchers, for any number of requests, drains,  *)
(* runs, calls, process trees, hubs, clients and events: the offline queue *)
(* of the web page, the naming queue, the adapters of log lines, the       *)
(* resource guard and the event stream, which implements EventLog. A step  *)
(* of a behaviour is a step of one component, so each invariant is proved  *)
(* of its own component.                                                   *)
(***************************************************************************)
EXTENDS MC_Watchers, SequenceTheorems, WellFoundedInduction, TLAPS

-----------------------------------------------------------------------------
(* The offline queue *)

\* The drain has the request: it is to be sent, or sent and to be deleted.

Holds(q, d) == q \in todo[d] \/ sending[d] = q

\* A request that was never queued is nowhere in the queue, and was started once at most.
OnlyQueuedIsHeld ==
  \A q \in Requests : reqPage[q] # "queued" =>
    /\ q \notin store /\ \A d \in Drains : ~Holds(q, d)
    /\ starts[q] < 2 /\ (reqPage[q] # "ok" => starts[q] = 0)

\* What a drain is about to delete was started.
OnlyStartedIsDeleted ==
  \A d \in Drains : sending[d] # "none" =>
    Kind[sending[d]] = "run" /\ starts[sending[d]] > 0 /\ sending[d] \notin todo[d]

\* Unless two drains read it, one has it.
OneDrainEach ==
  \A q \in Requests \ shared : \A d, e \in Drains : Holds(q, d) /\ Holds(q, e) => d = e

\* A started run whose answer came is not to be sent again.
StartedIsNotReadAgain ==
  \A q \in Requests \ (unheard \cup shared) : starts[q] > 0 =>
    /\ \A d \in Drains : q \notin todo[d]
    /\ q \in store => \E d \in Drains : sending[d] = q

\* The inductive invariant of the queue.
QueueInv == /\ Offline!TypeOK /\ OnlyQueuedIsHeld /\ OnlyStartedIsDeleted /\ OneDrainEach
       /\ StartedIsNotReadAgain /\ Offline!QueuedIsKept

\* It holds at first.
LEMMA QueueInit == ASSUME Offline!Init PROVE QueueInv
  BY WatchersAssumption
     DEF Offline!Init, QueueInv, Offline!TypeOK, OnlyQueuedIsHeld, OnlyStartedIsDeleted,
         OneDrainEach, StartedIsNotReadAgain, Offline!QueuedIsKept, Holds

\* A request is made, or queued while offline.
LEMMA QueueSubmit == ASSUME QueueInv, NEW q \in Requests, Offline!Submit(q) PROVE QueueInv'
  BY WatchersAssumption
     DEF Offline!Submit, QueueInv, Offline!TypeOK, OnlyQueuedIsHeld, OnlyStartedIsDeleted,
         OneDrainEach, StartedIsNotReadAgain, Offline!QueuedIsKept, Holds

\* The page hears of its request, or does not.
LEMMA QueueAnswer ==
  ASSUME QueueInv, NEW q \in Requests, NEW x \in BOOLEAN, NEW h \in BOOLEAN,
         Offline!Answer(q, x, h)
  PROVE  QueueInv'
<1> USE WatchersAssumption DEF QueueInv, Offline!Answer, Offline!Succeeds, Offline!Started
<1>1. Offline!TypeOK'
  BY DEF Offline!TypeOK
<1>2. OnlyQueuedIsHeld'
  BY DEF Offline!TypeOK, OnlyQueuedIsHeld, Holds
<1>3. OnlyStartedIsDeleted'
  BY DEF Offline!TypeOK, OnlyStartedIsDeleted, OnlyQueuedIsHeld, Holds
<1>4. OneDrainEach'
  BY DEF Offline!TypeOK, OneDrainEach, Holds
<1>5. StartedIsNotReadAgain'
  BY DEF Offline!TypeOK, StartedIsNotReadAgain, OnlyQueuedIsHeld, Holds
<1>6. Offline!QueuedIsKept'
  BY DEF Offline!TypeOK, Offline!QueuedIsKept, OnlyQueuedIsHeld
<1> QED
  BY <1>1, <1>2, <1>3, <1>4, <1>5, <1>6

\* A drain reads what is stored; two of them share what they both read.
LEMMA QueueDrainStart ==
  ASSUME QueueInv, NEW d \in Drains, Offline!DrainStart(d)
  PROVE  QueueInv'
<1> USE WatchersAssumption DEF QueueInv, Offline!DrainStart
<1>1. Offline!TypeOK'
  BY DEF Offline!TypeOK
<1>2. OnlyQueuedIsHeld'
  BY DEF Offline!TypeOK, OnlyQueuedIsHeld, Holds
<1>3. OnlyStartedIsDeleted'
  BY DEF Offline!TypeOK, OnlyStartedIsDeleted
<1>4. OneDrainEach'
  BY DEF Offline!TypeOK, OneDrainEach, Holds
<1>5. StartedIsNotReadAgain'
  BY DEF Offline!TypeOK, StartedIsNotReadAgain
<1>6. Offline!QueuedIsKept'
  BY DEF Offline!TypeOK, Offline!QueuedIsKept
<1> QED
  BY <1>1, <1>2, <1>3, <1>4, <1>5, <1>6

\* A drain sends a request that no other has.
LEMMA QueueDrainSend ==
  ASSUME QueueInv, NEW d \in Drains, NEW q \in Requests, NEW x \in BOOLEAN,
         NEW h \in BOOLEAN, Offline!DrainSend(d, q, x, h)
  PROVE  QueueInv'
<1> USE WatchersAssumption
  DEF QueueInv, Offline!DrainSend, Offline!Keeps, Offline!Succeeds, Offline!Started
<1>1. Offline!TypeOK'
  BY DEF Offline!TypeOK
<1>2. OnlyQueuedIsHeld'
  BY DEF Offline!TypeOK, OnlyQueuedIsHeld, Holds
<1>3. OnlyStartedIsDeleted'
  BY DEF Offline!TypeOK, OnlyStartedIsDeleted
<1>4. OneDrainEach'
  BY DEF Offline!TypeOK, OneDrainEach, Holds
<1>5. StartedIsNotReadAgain'
  BY DEF Offline!TypeOK, StartedIsNotReadAgain, OneDrainEach, Holds
<1>6. Offline!QueuedIsKept'
  BY DEF Offline!TypeOK, Offline!QueuedIsKept, StartedIsNotReadAgain
<1> QED
  BY <1>1, <1>2, <1>3, <1>4, <1>5, <1>6

\* It deletes what it has sent.
LEMMA QueueDrainDelete ==
  ASSUME QueueInv, NEW d \in Drains, Offline!DrainDelete(d)
  PROVE  QueueInv'
  BY WatchersAssumption
     DEF Offline!DrainDelete, QueueInv, Offline!TypeOK, OnlyQueuedIsHeld, OnlyStartedIsDeleted,
         OneDrainEach, StartedIsNotReadAgain, Offline!QueuedIsKept, Holds

\* The worker ends; what it had not deleted is still stored.
LEMMA QueueWorkerDies == ASSUME QueueInv, Offline!WorkerDies PROVE QueueInv'
  BY WatchersAssumption
     DEF Offline!WorkerDies, QueueInv, Offline!TypeOK, OnlyQueuedIsHeld, OnlyStartedIsDeleted,
         OneDrainEach, StartedIsNotReadAgain, Offline!QueuedIsKept, Holds

\* The network and the steps of others change nothing here.
LEMMA QueueOther == ASSUME QueueInv, Offline!GoOffline \/ Offline!GoOnline \/ UNCHANGED offlineVars
                    PROVE QueueInv'
  BY DEF Offline!GoOffline, Offline!GoOnline, offlineVars, QueueInv, Offline!TypeOK,
     OnlyQueuedIsHeld, OnlyStartedIsDeleted, OneDrainEach, StartedIsNotReadAgain,
     Offline!QueuedIsKept, Holds

\* Every step of the queue preserves it.
LEMMA QueueInvInductive == QueueInv /\ [Offline!Next]_offlineVars => QueueInv'
<1> SUFFICES ASSUME QueueInv, [Offline!Next]_offlineVars PROVE QueueInv'
  OBVIOUS
<1>1. ASSUME NEW q \in Requests, Offline!Submit(q) PROVE QueueInv'
  BY <1>1, QueueSubmit
<1>2. ASSUME NEW q \in Requests, NEW x \in BOOLEAN, NEW h \in BOOLEAN, Offline!Answer(q, x, h)
      PROVE  QueueInv'
  BY <1>2, QueueAnswer
<1>3. ASSUME NEW d \in Drains, Offline!DrainStart(d) PROVE QueueInv'
  BY <1>3, QueueDrainStart
<1>4. ASSUME NEW d \in Drains, Offline!DrainDelete(d) PROVE QueueInv'
  BY <1>4, QueueDrainDelete
<1>5. ASSUME NEW d \in Drains, NEW q \in Requests, NEW x \in BOOLEAN, NEW h \in BOOLEAN,
             Offline!DrainSend(d, q, x, h)
      PROVE  QueueInv'
  BY <1>5, QueueDrainSend
<1>6. CASE Offline!WorkerDies
  BY <1>6, QueueWorkerDies
<1>7. CASE Offline!GoOffline \/ Offline!GoOnline \/ UNCHANGED offlineVars
  BY <1>7, QueueOther
<1> QED
  BY <1>1, <1>2, <1>3, <1>4, <1>5, <1>6, <1>7 DEF Offline!Next

-----------------------------------------------------------------------------
(* The resource guard *)

\* Its invariant: the property, and what a tree may be.
GuardInv == /\ tree \in [Trees -> {"new", "runs", "stopped", "dead"}]
            /\ restarts \in Nat
            /\ Guard!StoppedIsRemembered

\* A poll preserves it, whatever it reads.
LEMMA PollRemembers == GuardInv /\ Guard!Poll => GuardInv'
<1> SUFFICES ASSUME GuardInv, Guard!Poll PROVE GuardInv'
  OBVIOUS
<1>0. restarts' = restarts
  BY DEF Guard!Poll
<1> USE <1>0 DEF GuardInv, Guard!StoppedIsRemembered, Guard!Stopped
<1>1. CASE Guard!Breaker
  BY <1>1 DEF Guard!Breaker, Guard!Kill, Guard!KeepPause
<1>2. ASSUME NEW temp \in Guard!Temps, Guard!KillHot(temp) PROVE GuardInv'
  BY <1>2 DEF Guard!KillHot, Guard!Kill, Guard!Stats
<1>3. ASSUME NEW temp \in Guard!Temps, Guard!Pause(temp) PROVE GuardInv'
  BY <1>3 DEF Guard!Pause, Guard!Stats
<1>4. ASSUME NEW temp \in Guard!Temps, Guard!InPause(temp) PROVE GuardInv'
  <2>1. CASE Guard!Resume(paused) /\ Guard!NoPause
    BY <2>1 DEF Guard!Resume, Guard!NoPause
  <2>2. CASE Guard!Kill(Guard!Stats) /\ Guard!NoPause
    BY <2>2 DEF Guard!Kill, Guard!Stats, Guard!NoPause
  <2>3. CASE UNCHANGED tree /\ Guard!KeepPause
    BY <2>3 DEF Guard!KeepPause
  <2> QED
    BY <1>4, <2>1, <2>2, <2>3 DEF Guard!InPause
<1>5. ASSUME NEW temp \in Guard!Temps, NEW fat \in SUBSET Guard!Stats,
             NEW busy \in SUBSET Guard!Stats,
             NEW sum \in {"fine", "memory", "cpu"}, Guard!Limits(temp, fat, busy, sum)
      PROVE  GuardInv'
  <2>1. UNCHANGED paused
    BY <1>5 DEF Guard!Limits
  <2>2. UNCHANGED tree \/ \E t \in Trees : Guard!Kill({t})
    BY <1>5 DEF Guard!Limits, Guard!Stats
  <2> QED
    BY <2>1, <2>2 DEF Guard!Kill
<1> QED
  BY <1>1, <1>2, <1>3, <1>4, <1>5 DEF Guard!Poll

\* Every step of the guard preserves it.
LEMMA GuardInvInductive == GuardInv /\ [Guard!Next]_guardVars => GuardInv'
<1> SUFFICES ASSUME GuardInv, [Guard!Next]_guardVars PROVE GuardInv'
  OBVIOUS
<1> USE DEF GuardInv, Guard!StoppedIsRemembered, Guard!Stopped
<1>1. CASE UNCHANGED guardVars
  BY <1>1 DEF guardVars
<1>2. CASE Guard!Poll
  BY <1>2, PollRemembers
<1>3. CASE Guard!Restart
  BY <1>3 DEF Guard!Restart
<1>4. ASSUME NEW t \in Trees, Guard!Launch(t) \/ Guard!Ends(t) PROVE GuardInv'
  BY <1>4 DEF Guard!Launch, Guard!Ends
<1> QED
  BY <1>1, <1>2, <1>3, <1>4 DEF Guard!Next

-----------------------------------------------------------------------------
(* The naming queue *)

\* Who rewrites the queue holds its lock.
RewriterHolds == \A p \in Naming!Rewriting : rewriter = p

\* A job a drain is done with has its name.
DoneIsNamed == \A p \in Naming!Procs : \A r \in done[p] : named[r] > 0

\* Only deferred runs are on file and in the hands of drains.
OnlyDeferred ==
  /\ queue \subseteq deferred
  /\ \A p \in Naming!Procs : jobs[p] \subseteq deferred /\ kept[p] \subseteq deferred

\* Others are named by their own process, which does it last.
OwnNameOnce ==
  \A r \in Finished \ deferred : named[r] <= IF pc[r] \in {"end", "crashed"} THEN 1 ELSE 0

\* What is on file during a rewrite: before the truncation what it will put back, but for
\* what it named and what was appended since it read; then only such appends.
ReadAgain == \A p \in Naming!Procs :
  /\ pc[p] = "truncate" => \A r \in queue : r \in kept[p] \cup cut \/ named[r] > 0
  /\ pc[p] = "write" => queue \subseteq cut

\* The inductive invariant of the naming queue.
NamingInv == /\ Naming!TypeOK /\ RewriterHolds /\ DoneIsNamed /\ OnlyDeferred /\ OwnNameOnce
             /\ ReadAgain /\ Naming!JobLostOnlyInRewrite

\* The steps leave every variable of the naming queue with its type.
LEMMA NamingTyped == Naming!TypeOK /\ [Naming!Next]_namingVars => Naming!TypeOK'
<1> SUFFICES ASSUME Naming!TypeOK, [Naming!Next]_namingVars PROVE Naming!TypeOK'
  OBVIOUS
<1> USE DEF Naming!TypeOK, Naming!Procs, Naming!States, Naming!Goto, Naming!Name, Naming!AfterDrain
<1>1. CASE UNCHANGED namingVars
  BY <1>1 DEF namingVars
<1>2. ASSUME NEW p \in Naming!Procs, Naming!DrainStart(p) PROVE Naming!TypeOK'
  BY <1>2 DEF Naming!DrainStart
<1>3. ASSUME NEW p \in Naming!Procs, Naming!DrainJob(p) PROVE Naming!TypeOK'
  BY <1>3 DEF Naming!DrainJob
<1>4. ASSUME NEW p \in Naming!Procs, Naming!JobNamed(p) PROVE Naming!TypeOK'
  BY <1>4 DEF Naming!JobNamed
<1>5. ASSUME NEW p \in Naming!Procs, Naming!DrainEnd(p) \/ Naming!Truncate(p) \/ Naming!Again(p)
      PROVE  Naming!TypeOK'
  BY <1>5 DEF Naming!DrainEnd, Naming!Truncate, Naming!Again
<1>6. ASSUME NEW p \in Naming!Procs, Naming!Reread(p) PROVE Naming!TypeOK'
  BY <1>6 DEF Naming!Reread, Naming!Kept
<1>7. ASSUME NEW p \in Naming!Procs, Naming!Write(p) PROVE Naming!TypeOK'
  BY <1>7 DEF Naming!Write
<1>8. ASSUME NEW p \in Naming!Procs, Naming!Crash(p) PROVE Naming!TypeOK'
  BY <1>8 DEF Naming!Crash
<1>9. ASSUME NEW r \in Finished, Naming!OwnLock(r) \/ Naming!OwnNamed(r) \/ Naming!Enqueue(r)
      PROVE  Naming!TypeOK'
  BY <1>9 DEF Naming!OwnLock, Naming!OwnNamed, Naming!Enqueue
<1> QED
  BY <1>1, <1>2, <1>3, <1>4, <1>5, <1>6, <1>7, <1>8, <1>9 DEF Naming!Next

\* Every step of the naming queue preserves its invariant.
LEMMA NamingInvInductive == NamingInv /\ [Naming!Next]_namingVars => NamingInv'
<1> SUFFICES ASSUME NamingInv, [Naming!Next]_namingVars PROVE NamingInv'
  OBVIOUS
<1>t. Naming!TypeOK /\ Naming!TypeOK'
  BY NamingTyped DEF NamingInv
<1> USE <1>t, WatchersAssumption
    DEF NamingInv, RewriterHolds, DoneIsNamed, OnlyDeferred, OwnNameOnce, ReadAgain,
        Naming!JobLostOnlyInRewrite, Naming!Rewriting, Naming!BeingWritten, Naming!Procs,
        Naming!Goto, Naming!Name, Naming!AfterDrain, Naming!Nobody, Naming!TypeOK
<1>1. CASE UNCHANGED namingVars
  BY <1>1 DEF namingVars
<1>2. ASSUME NEW p \in Naming!Procs, Naming!DrainStart(p) PROVE NamingInv'
  BY <1>2 DEF Naming!DrainStart
<1>3. ASSUME NEW p \in Naming!Procs, Naming!DrainJob(p) PROVE NamingInv'
  BY <1>3 DEF Naming!DrainJob
<1>4. ASSUME NEW p \in Naming!Procs, Naming!JobNamed(p) PROVE NamingInv'
  <2>1. /\ UNCHANGED <<queue, rewriter, kept, deferred, cut>> /\ pc[p] = "naming"
        /\ pc' = [pc EXCEPT ![p] = "drain"]
    BY <1>4 DEF Naming!JobNamed
  <2>2. PICK r \in jobs[p] :
          /\ \/ named' = Naming!Name(r) /\ done' = [done EXCEPT ![p] = @ \cup {r}]
             \/ UNCHANGED <<named, done>>
          /\ jobs' = [jobs EXCEPT ![p] = @ \ {r}]
    BY <1>4 DEF Naming!JobNamed
  <2>3. r \in Finished /\ r \in deferred
    OBVIOUS
  <2>4. \A s \in Finished : named'[s] >= named[s] /\ (s # r => named'[s] = named[s])
    BY <2>2, <2>3
  <2>5. DoneIsNamed'
    BY <2>2, <2>3, <2>4
  <2>6. OnlyDeferred'
    BY <2>1, <2>2
  <2>7. OwnNameOnce'
    BY <2>1, <2>3, <2>4
  <2>8. RewriterHolds' /\ ReadAgain'
    BY <2>1, <2>4
  <2>9. Naming!JobLostOnlyInRewrite'
    BY <2>1, <2>4
  <2> QED
    BY <2>5, <2>6, <2>7, <2>8, <2>9
<1>5. ASSUME NEW p \in Naming!Procs, Naming!DrainEnd(p) \/ Naming!Again(p)
      PROVE  NamingInv'
  BY <1>5 DEF Naming!DrainEnd, Naming!Again
<1>51. ASSUME NEW p \in Naming!Procs, Naming!Truncate(p)
      PROVE  NamingInv'
  BY <1>51 DEF Naming!Truncate
<1>6. ASSUME NEW p \in Naming!Procs, Naming!Reread(p) PROVE NamingInv'
  BY <1>6 DEF Naming!Reread, Naming!Kept
<1>7. ASSUME NEW p \in Naming!Procs, Naming!Write(p) PROVE NamingInv'
  BY <1>7 DEF Naming!Write
<1>8. ASSUME NEW p \in Naming!Procs, Naming!Crash(p) PROVE NamingInv'
  BY <1>8 DEF Naming!Crash
<1>9. ASSUME NEW r \in Finished, Naming!OwnLock(r) PROVE NamingInv'
  BY <1>9 DEF Naming!OwnLock
<1>10. ASSUME NEW r \in Finished, Naming!OwnNamed(r) PROVE NamingInv'
  <2>1. /\ UNCHANGED <<queue, rewriter, jobs, done, kept, deferred, cut>>
        /\ pc[r] = "ownNaming" /\ pc' = [pc EXCEPT ![r] = "end"]
    BY <1>10 DEF Naming!OwnNamed
  <2>2. named' = named \/ named' = Naming!Name(r)
    BY <1>10 DEF Naming!OwnNamed
  <2>3. \A s \in Finished : /\ named'[s] >= named[s] /\ named'[s] <= named[s] + 1
                            /\ s # r => named'[s] = named[s]
    BY <2>2
  <2>4. DoneIsNamed' /\ OnlyDeferred'
    BY <2>1, <2>3
  <2>5. OwnNameOnce'
    BY <2>1, <2>3
  <2>6. RewriterHolds' /\ ReadAgain'
    BY <2>1, <2>3
  <2>7. Naming!JobLostOnlyInRewrite'
    BY <2>1, <2>3
  <2> QED
    BY <2>4, <2>5, <2>6, <2>7
<1>11. ASSUME NEW r \in Finished, Naming!Enqueue(r) PROVE NamingInv'
  BY <1>11 DEF Naming!Enqueue
<1> QED
  BY <1>1, <1>2, <1>3, <1>4, <1>5, <1>51, <1>6, <1>7, <1>8, <1>9, <1>10, <1>11 DEF Naming!Next

-----------------------------------------------------------------------------
(* The lines of several runs *)

\* An event tells lines of its run, or those the log adapter held of another one.
OwnLines(ev) ==
  \A e \in ev : \A l \in e.lines :
    l[1] # e.run => adapter[l[1]] = "log" /\ adapter[e.run] = "log" /\ {l[1], e.run} \in beside

\* Of the lines S, those of the log adapter are said once or held; the held ones are of no run
\* that is over.
Gathered(ev, hold, S) ==
  /\ hold \subseteq S /\ \A e \in ev : e.lines \subseteq S
  /\ \A e, f \in ev : \A l \in e.lines \cap f.lines : adapter[l[1]] = "log" => e = f
  /\ \A e \in ev : e.lines \cap hold = {}
  /\ \A l \in S : adapter[l[1]] = "log" => l \in hold \/ \E e \in ev : l \in e.lines
  /\ \A l \in hold : adapter[l[1]] = "log" /\ l[1] \in Heard!On

\* A text of cline other than l that was said.
ToldBeside(l, ev, S) ==
  \E k \in S \ {l} : Heard!Throttled(k) /\ Heard!Event(k[1], "message", {k}) \in ev

\* The other lines of S are said, and the texts of cline or another one.
Worded(ev, S) ==
  \A l \in S : adapter[l[1]] # "log" =>
    \A t \in Heard!Structured[adapter[l[1]]][Heard!Form(l)] :
      Heard!Event(l[1], t, {l}) \in ev \/ (Heard!Throttled(l) /\ ToldBeside(l, ev, S))

\* Cline's adapter waits after it has said one.
LastTold(ev, rec, S) ==
  "cline" \in rec => \E k \in S : Heard!Throttled(k) /\ Heard!Event(k[1], "message", {k}) \in ev

\* What the adapters and the hub know of the lines S.
Know(p, S) ==
  OwnLines(p.events) /\ Gathered(p.events, p.buffer, S) /\ Worded(p.events, S)
  /\ LastTold(p.events, p.recent, S)

Known == [events |-> events, buffer |-> held, recent |-> recent]

\* Runs of which a tailer is on have met, and no line is read before it is written.
HeardTyped ==
  /\ adapter \in [Calls -> Heard!Adapters]
  /\ tailer \in [Calls -> {"none", "on", "stopped", "left"}] /\ read \in [Calls -> Nat]
  /\ lines \in [Calls -> Seq(UNION {Heard!Forms(a) : a \in Heard!Adapters})]
  /\ \A r \in Calls : read[r] <= Len(lines[r])
  /\ \A r, s \in Heard!On : r # s => {r, s} \in beside

HeardInv == HeardTyped /\ Know(Known, Heard!Seen)

\* An event has the fields it is made of.
LEMMA EventFields ==
  ASSUME NEW r, NEW t, NEW ls
  PROVE  Heard!Event(r, t, ls).run = r /\ Heard!Event(r, t, ls).lines = ls
  BY DEF Heard!Event

\* A set of lines of one run is empty or has a first one.
LEMMA FirstExists ==
  ASSUME NEW r, NEW ls, ls # {}, \A l \in ls : \E n \in Nat : l = <<r, n>>
  PROVE  Heard!First(ls) # {}
<1> DEFINE R == {x \in Nat \X Nat : x[1] < x[2]}
           N == {n \in Nat : <<r, n>> \in ls}
<1>1. IsWellFoundedOn(R, Nat)
  BY NatLessThanWellFounded DEF OpToRel
<1>2. N # {}
  OBVIOUS
<1>3. PICK n \in N : \A m \in N : ~(<<m, n>> \in R)
  <2> HIDE DEF R
  <2> QED
    BY <1>1, <1>2, WFMin, Zenon
<1>4. \A m \in N : n <= m
  <2> SUFFICES ASSUME NEW m \in N, m < n PROVE FALSE
    OBVIOUS
  <2>1. <<m, n>> \in R
    OBVIOUS
  <2> QED
    BY <2>1, <1>3
<1>5. <<r, n>> \in Heard!First(ls)
  BY <1>4 DEF Heard!First
<1> QED
  BY <1>5

\* The lines read after a step of r are those before and its unread ones.
LEMMA SeenGrows ==
  ASSUME HeardTyped, NEW r \in Calls, read' = [read EXCEPT ![r] = Len(lines[r])]
  PROVE  Heard!Seen' = Heard!Seen \cup Heard!Unread(r)
  BY DEF Heard!Seen, Heard!Unread, HeardTyped

\* They were not read before.
LEMMA UnreadIsNew ==
  ASSUME HeardTyped, NEW r \in Calls
  PROVE  /\ Heard!Unread(r) \cap Heard!Seen = {}
         /\ \A l \in Heard!Unread(r) : l[1] = r /\ \E n \in Nat : l = <<r, n>>
  BY DEF Heard!Seen, Heard!Unread, HeardTyped

\* A text of cline becomes a message.
LEMMA TextIsMessage ==
  ASSUME NEW l, Heard!Throttled(l)
  PROVE  Heard!Structured[adapter[l[1]]][Heard!Form(l)] = {"message"} /\ adapter[l[1]] # "log"
  BY DEF Heard!Throttled, Heard!Structured, Heard!ClineAdapter

\* The lines of a structured agent are said or hushed; the log adapter's are as they were.
LEMMA StructuredKnows ==
  ASSUME HeardInv, NEW r \in Heard!On, adapter[r] # "log"
  PROVE  Know(Heard!ParseStructured(r, Heard!Unread(r)), Heard!Seen \cup Heard!Unread(r))
<1> DEFINE ls == Heard!Unread(r)
           S == Heard!Seen
           through == Heard!LetThrough(ls)
           said == {l \in ls : ~Heard!Throttled(l)} \cup through
           new == UNION {{Heard!Event(r, t, {l}) : t \in Heard!Structured[adapter[r]][Heard!Form(l)]} : l \in said}
           p == Heard!ParseStructured(r, ls)
<1>1. /\ p.events = events \cup new /\ p.buffer = held
      /\ p.recent = IF through = {} THEN recent ELSE recent \cup {"cline"}
  BY DEF Heard!ParseStructured
<1>2. r \in Calls
  BY DEF Heard!On
<1>3. /\ ls \cap S = {} /\ through \subseteq ls
      /\ \A l \in ls : l[1] = r /\ \E n \in Nat : l = <<r, n>>
  BY <1>2, UnreadIsNew DEF HeardInv, Heard!LetThrough, Heard!First
<1>31. said \subseteq ls
  BY <1>3
<1>4. \A e \in new : e.run = r /\ \E l \in ls : e.lines = {l}
  <2> SUFFICES ASSUME NEW e \in new PROVE e.run = r /\ \E l \in ls : e.lines = {l}
    OBVIOUS
  <2>1. PICK l \in said :
          \E t \in Heard!Structured[adapter[r]][Heard!Form(l)] : e = Heard!Event(r, t, {l})
    OBVIOUS
  <2> QED
    BY <2>1, <1>31, EventFields
<1>5. \A l \in said : \A t \in Heard!Structured[adapter[l[1]]][Heard!Form(l)] :
        Heard!Event(l[1], t, {l}) \in new
  <2> SUFFICES ASSUME NEW l \in said,
                      NEW t \in Heard!Structured[adapter[l[1]]][Heard!Form(l)]
               PROVE  Heard!Event(l[1], t, {l}) \in new
    OBVIOUS
  <2>1. l[1] = r
    BY <1>3, <1>31
  <2>2. t \in Heard!Structured[adapter[r]][Heard!Form(l)]
    BY <2>1
  <2>3. Heard!Event(r, t, {l}) \in {Heard!Event(r, u, {l}) : u \in Heard!Structured[adapter[r]][Heard!Form(l)]}
    BY <2>2
  <2>4. Heard!Event(r, t, {l}) \in new
    BY <2>3
  <2> QED
    BY <2>1, <2>4
<1>6. /\ OwnLines(events) /\ Gathered(events, held, S)
      /\ Worded(events, S) /\ LastTold(events, recent, S)
  BY DEF HeardInv, Know, Known
<1>7. \A l \in through : Heard!Throttled(l) /\ Heard!Event(l[1], "message", {l}) \in new
  <2>1. \A l \in through : Heard!Throttled(l)
    BY DEF Heard!LetThrough, Heard!First
  <2> QED
    BY <2>1, <1>5, TextIsMessage
<1> HIDE DEF new, said, through, p, ls, S
<1>8. OwnLines(events \cup new)
  BY <1>3, <1>4, <1>6 DEF OwnLines
<1>9. Gathered(events \cup new, held, S \cup ls)
  BY <1>3, <1>4, <1>6 DEF Gathered
<1>10. LastTold(events \cup new, p.recent, S \cup ls)
  <2>1. CASE through = {}
    BY <2>1, <1>1, <1>6 DEF LastTold
  <2>2. CASE through # {}
    BY <2>2, <1>3, <1>7 DEF LastTold
  <2> QED
    BY <2>1, <2>2
<1>11. ASSUME NEW l \in ls \ said
       PROVE  Heard!Throttled(l) /\ ToldBeside(l, events \cup new, S \cup ls)
  <2>1. Heard!Throttled(l) /\ l \notin through
    BY <1>11 DEF said
  <2>2. CASE "cline" \in recent
    <3>1. PICK k \in S : Heard!Throttled(k) /\ Heard!Event(k[1], "message", {k}) \in events
      BY <2>2, <1>6 DEF LastTold
    <3> QED
      BY <3>1, <2>1, <1>3 DEF ToldBeside
  <2>3. CASE "cline" \notin recent
    <3>1. through # {}
      BY <2>1, <2>3, <1>3, FirstExists DEF through, Heard!LetThrough
    <3>2. PICK k \in through : TRUE
      BY <3>1
    <3> QED
      BY <3>2, <2>1, <1>3, <1>7 DEF ToldBeside
  <2> QED
    BY <2>2, <2>3
<1>12. Worded(events \cup new, S \cup ls)
  <2> SUFFICES ASSUME NEW l \in S \cup ls, adapter[l[1]] # "log",
                      NEW t \in Heard!Structured[adapter[l[1]]][Heard!Form(l)]
               PROVE  \/ Heard!Event(l[1], t, {l}) \in events \cup new
                      \/ Heard!Throttled(l) /\ ToldBeside(l, events \cup new, S \cup ls)
    BY DEF Worded
  <2>1. CASE l \in S
    BY <2>1, <1>6 DEF Worded, ToldBeside
  <2>2. CASE l \in said
    BY <2>2, <1>5
  <2>3. CASE l \in ls \ said
    BY <2>3, <1>11
  <2> QED
    BY <2>1, <2>2, <2>3
<1> QED
  BY <1>1, <1>8, <1>9, <1>10, <1>12 DEF Know, p, ls, S

\* The log adapter's lines are said or held; those of structured agents are as they were.
LEMMA TextKnows ==
  ASSUME HeardInv, NEW r \in Heard!On, adapter[r] = "log"
  PROVE  Know(Heard!ParseText(r, Heard!Unread(r)), Heard!Seen \cup Heard!Unread(r))
<1> DEFINE ls == Heard!Unread(r)
           S == Heard!Seen
           first == Heard!First(ls)
           new == Heard!Event(r, "message", held \cup first)
           p == Heard!ParseText(r, ls)
<1>1. r \in Calls
  BY DEF Heard!On
<1>2. /\ ls \cap S = {} /\ first \subseteq ls
      /\ \A l \in ls : l[1] = r /\ adapter[l[1]] = "log"
  BY <1>1, UnreadIsNew DEF HeardInv, Heard!First
<1>3. /\ OwnLines(events) /\ Gathered(events, held, S)
      /\ Worded(events, S) /\ LastTold(events, recent, S)
  BY DEF HeardInv, Know, Known
<1>4. \A l \in ls : ~Heard!Throttled(l)
  BY <1>2 DEF Heard!Throttled
<1>5. CASE "log" \in recent \/ ls = {}
  <2>1. p.events = events /\ p.buffer = held \cup ls /\ p.recent = recent
    BY <1>5 DEF Heard!ParseText
  <2>2. Gathered(events, held \cup ls, S \cup ls)
    BY <1>2, <1>3 DEF Gathered
  <2>3. Worded(events, S \cup ls) /\ LastTold(events, recent, S \cup ls)
    BY <1>2, <1>3 DEF Worded, ToldBeside, LastTold
  <2> QED
    BY <2>1, <2>2, <2>3, <1>3 DEF Know
<1>6. CASE ~("log" \in recent \/ ls = {})
  <2>1. p.events = events \cup {new} /\ p.buffer = ls \ first /\ p.recent = recent \cup {"log"}
    BY <1>6 DEF Heard!ParseText
  <2>2. new.run = r /\ new.lines = held \cup first
    BY EventFields
  <2> HIDE DEF new, first, ls, S, p
  <2>3. OwnLines(events \cup {new})
    <3>1. \A l \in new.lines : l[1] # r => adapter[l[1]] = "log" /\ {l[1], r} \in beside
      BY <2>2, <1>2, <1>3 DEF Gathered, HeardInv, HeardTyped
    <3> QED
      BY <3>1, <2>2, <1>3 DEF OwnLines
  <2>4. Gathered(events \cup {new}, ls \ first, S \cup ls)
    BY <2>2, <1>2, <1>3 DEF Gathered
  <2>5. Worded(events \cup {new}, S \cup ls) /\ LastTold(events \cup {new}, recent \cup {"log"}, S \cup ls)
    BY <1>2, <1>3 DEF Worded, ToldBeside, LastTold
  <2> QED
    BY <2>1, <2>3, <2>4, <2>5 DEF Know, p, ls, S
<1> QED
  BY <1>5, <1>6

\* So does a last flush, after which nothing is held.
LEMMA FlushKnows ==
  ASSUME HeardInv, NEW r \in Heard!On, NEW p, NEW S, Know(p, S),
         p = [events |-> p.events, buffer |-> p.buffer, recent |-> p.recent]
  PROVE  /\ Know(Heard!FlushBuffer(r, p), S)
         /\ adapter[r] = "log" => Heard!FlushBuffer(r, p).buffer = {}
<1>1. CASE adapter[r] # "log" \/ p.buffer = {}
  BY <1>1 DEF Heard!FlushBuffer
<1>2. CASE ~(adapter[r] # "log" \/ p.buffer = {})
  <2> DEFINE new == Heard!Event(r, "message", p.buffer)
             q == Heard!FlushBuffer(r, p)
  <2>1. q.events = p.events \cup {new} /\ q.buffer = {} /\ q.recent = p.recent
    <3>1. q = [events |-> p.events \cup {new}, buffer |-> {}, recent |-> p.recent]
      BY <1>2 DEF Heard!FlushBuffer
    <3> QED
      BY <3>1
  <2>2. new.run = r /\ new.lines = p.buffer
    BY EventFields
  <2> HIDE DEF new, q
  <2>3. OwnLines(p.events \cup {new})
    <3>1. \A l \in new.lines : l[1] # r => adapter[l[1]] = "log" /\ {l[1], r} \in beside
      BY <2>2 DEF Know, Gathered, HeardInv, HeardTyped
    <3> QED
      BY <3>1, <2>2, <1>2 DEF OwnLines, Know
  <2>4. Gathered(p.events \cup {new}, {}, S)
    BY <2>2 DEF Gathered, Know
  <2>5. Worded(p.events \cup {new}, S) /\ LastTold(p.events \cup {new}, p.recent, S)
    BY DEF Worded, ToldBeside, LastTold, Know
  <2> QED
    BY <2>1, <2>3, <2>4, <2>5 DEF Know, q
<1> QED
  BY <1>1, <1>2

\* The outcome of reading is a record, and right.
LEMMA ParseKnows ==
  ASSUME HeardInv, NEW r \in Heard!On
  PROVE  LET p == Heard!Parse(r) IN
         /\ Know(p, Heard!Seen \cup Heard!Unread(r))
         /\ p = [events |-> p.events, buffer |-> p.buffer, recent |-> p.recent]
<1>1. CASE adapter[r] = "log"
  <2>1. Heard!Parse(r) = Heard!ParseText(r, Heard!Unread(r))
    BY <1>1 DEF Heard!Parse
  <2>2. Know(Heard!Parse(r), Heard!Seen \cup Heard!Unread(r))
    BY <2>1, <1>1, TextKnows
  <2>3. \E ev, hold, rec : Heard!ParseText(r, Heard!Unread(r)) = [events |-> ev, buffer |-> hold, recent |-> rec]
    BY DEF Heard!ParseText
  <2> QED
    BY <2>1, <2>2, <2>3
<1>2. CASE adapter[r] # "log"
  <2>1. Heard!Parse(r) = Heard!ParseStructured(r, Heard!Unread(r))
    BY <1>2 DEF Heard!Parse
  <2> QED
    BY <2>1, <1>2, StructuredKnows DEF Heard!ParseStructured
<1> QED
  BY <1>1, <1>2

\* What is known stays so while the lines S are those that have been read.
LEMMA KnownRemains ==
  ASSUME HeardInv, HeardTyped', UNCHANGED <<adapter, read, held, events>>,
         \A r \in Calls : tailer[r] \in {"on", "left"} => tailer'[r] \in {"on", "left"},
         \A r \in Calls : \A n \in 1..read[r] : lines'[r][n] = lines[r][n],
         beside \subseteq beside', recent' \subseteq recent
  PROVE  HeardInv'
<1>1. Heard!Seen' = Heard!Seen
  BY DEF Heard!Seen
<1>2. \A l \in Heard!Seen : Heard!Form(l)' = Heard!Form(l) /\ (Heard!Throttled(l)' <=> Heard!Throttled(l))
  BY DEF Heard!Seen, Heard!Form, Heard!Throttled
<1>3. Heard!On \subseteq Heard!On'
  BY DEF Heard!On
<1>4. /\ OwnLines(events) /\ Gathered(events, held, Heard!Seen)
      /\ Worded(events, Heard!Seen) /\ LastTold(events, recent, Heard!Seen)
  BY DEF HeardInv, Know, Known
<1>5. OwnLines(events)'
  BY <1>4 DEF OwnLines
<1>6. Gathered(events, held, Heard!Seen)'
  BY <1>1, <1>3, <1>4 DEF Gathered
<1>7. Worded(events, Heard!Seen)'
  BY <1>1, <1>2, <1>4 DEF Worded, ToldBeside, Heard!Event
<1>8. LastTold(events, recent, Heard!Seen)'
  BY <1>1, <1>2, <1>4 DEF LastTold, Heard!Event
<1> QED
  BY <1>5, <1>6, <1>7, <1>8 DEF HeardInv, Know, Known

\* After a step that reads, what is known of the lines read is known of those seen.
LEMMA KnownAfter ==
  ASSUME HeardInv, NEW r \in Calls, NEW p, Heard!Becomes(r, p),
         Know(p, Heard!Seen \cup Heard!Unread(r)), UNCHANGED <<adapter, lines, beside>>,
         tailer' \in [Calls -> {"none", "on", "stopped", "left"}],
         \A s \in Calls \ {r} : tailer'[s] = tailer[s],
         tailer'[r] \in {"on", "left"} => tailer[r] \in {"on", "left"},
         tailer'[r] \notin {"on", "left"} => \A l \in p.buffer : l[1] # r
  PROVE  HeardInv'
<1>1. Heard!Seen' = Heard!Seen \cup Heard!Unread(r)
  BY SeenGrows DEF Heard!Becomes, HeardInv
<1>2. HeardTyped'
  <2>1. \A s \in Heard!On' : s \in Heard!On
    BY DEF Heard!On
  <2>2. \A s, t \in Heard!On' : s # t => {s, t} \in beside'
    BY <2>1 DEF HeardInv, HeardTyped
  <2>3. read' \in [Calls -> Nat] /\ \A s \in Calls : read'[s] <= Len(lines'[s])
    BY DEF HeardInv, HeardTyped, Heard!Becomes
  <2> QED
    BY <2>2, <2>3 DEF HeardInv, HeardTyped
<1>3. \A l : Heard!Form(l)' = Heard!Form(l) /\ (Heard!Throttled(l)' <=> Heard!Throttled(l))
  BY DEF Heard!Form, Heard!Throttled
<1>4. OwnLines(events)'
  BY DEF OwnLines, Know, Heard!Becomes
<1>5. Gathered(events, held, Heard!Seen)'
  BY <1>1 DEF Gathered, Know, Heard!Becomes, Heard!On
<1>6. Worded(events, Heard!Seen)'
  BY <1>1, <1>3 DEF Worded, ToldBeside, Know, Heard!Becomes, Heard!Event
<1>7. LastTold(events, recent, Heard!Seen)'
  BY <1>1, <1>3 DEF LastTold, Know, Heard!Becomes, Heard!Event
<1> QED
  BY <1>2, <1>4, <1>5, <1>6, <1>7 DEF HeardInv, Know, Known

\* Every step of the adapters and of those who use them preserves it.
LEMMA HeardInvInductive == HeardInv /\ [Heard!Next]_heardVars => HeardInv'
<1> SUFFICES ASSUME HeardInv, [Heard!Next]_heardVars PROVE HeardInv'
  OBVIOUS
<1>1. ASSUME NEW r \in Calls, Heard!Start(r) PROVE HeardInv'
  <2>1. Heard!On' = Heard!On \cup {r}
    BY <1>1 DEF HeardInv, HeardTyped, Heard!Start, Heard!On
  <2>2. \A s, t \in Heard!On' : s # t => {s, t} \in beside'
    <3>1. \A s \in Heard!On : {r, s} \in beside'
      BY <1>1 DEF Heard!Start
    <3>2. \A s \in Heard!On : {s, r} = {r, s}
      OBVIOUS
    <3> QED
      BY <1>1, <2>1, <3>1, <3>2 DEF Heard!Start, HeardInv, HeardTyped
  <2>3. HeardTyped'
    BY <1>1, <2>2 DEF HeardInv, HeardTyped, Heard!Start
  <2> QED
    BY <1>1, <2>3, KnownRemains DEF HeardInv, HeardTyped, Heard!Start
<1>2. ASSUME NEW r \in Calls, Heard!Write(r) PROVE HeardInv'
  <2>1. PICK f \in Heard!Forms(adapter[r]) : lines' = [lines EXCEPT ![r] = Append(@, f)]
    BY <1>2 DEF Heard!Write
  <2> DEFINE all == UNION {Heard!Forms(a) : a \in Heard!Adapters}
  <2>2. f \in all /\ lines \in [Calls -> Seq(all)]
    BY <2>1 DEF HeardInv, HeardTyped
  <2> HIDE DEF all
  <2>3. lines' \in [Calls -> Seq(all)] /\ \A s \in Calls : Len(lines[s]) <= Len(lines'[s])
    BY <2>1, <2>2
  <2>4. /\ UNCHANGED <<adapter, tailer, read, beside>> /\ read \in [Calls -> Nat]
        /\ \A s \in Calls : read[s] <= Len(lines[s])
    BY <1>2 DEF HeardInv, HeardTyped, Heard!Write
  <2>5. \A s \in Calls : read[s] <= Len(lines'[s])
    <3>1. \A s \in Calls : Len(lines[s]) \in Nat /\ Len(lines'[s]) \in Nat
      BY <2>2, <2>3
    <3> QED
      BY <3>1, <2>3, <2>4
  <2>6. HeardTyped'
    BY <2>3, <2>4, <2>5 DEF HeardInv, HeardTyped, Heard!On, all
  <2>7. \A s \in Calls : \A n \in 1..read[s] : lines'[s][n] = lines[s][n]
    BY <2>1 DEF HeardInv, HeardTyped
  <2> QED
    BY <1>2, <2>6, <2>7, KnownRemains DEF Heard!Write
<1>3. ASSUME NEW r \in Calls, Heard!Tick(r) PROVE HeardInv'
  <2>1. r \in Heard!On
    BY <1>3 DEF Heard!Tick
  <2>2. Know(Heard!Parse(r), Heard!Seen \cup Heard!Unread(r))
    BY <2>1, ParseKnows
  <2> QED
    BY <1>3, <2>1, <2>2, KnownAfter DEF Heard!Tick, Heard!On, HeardInv, HeardTyped
<1>4. ASSUME NEW r \in Calls, Heard!Stop(r) PROVE HeardInv'
  <2> DEFINE p == Heard!FlushBuffer(r, Heard!Parse(r))
  <2>1. r \in Heard!On
    BY <1>4 DEF Heard!Stop, Heard!On
  <2>2. /\ Know(p, Heard!Seen \cup Heard!Unread(r))
        /\ adapter[r] = "log" => p.buffer = {}
    BY <2>1, ParseKnows, FlushKnows
  <2>3. \A l \in p.buffer : l[1] # r
    BY <2>2 DEF Know, Gathered
  <2>4. Heard!Becomes(r, p) /\ tailer' = [tailer EXCEPT ![r] = "stopped"]
        /\ UNCHANGED <<adapter, lines, beside>>
    BY <1>4 DEF Heard!Stop
  <2> HIDE DEF p
  <2> QED
    BY <2>2, <2>3, <2>4, KnownAfter DEF HeardInv, HeardTyped
<1>5. ASSUME NEW r \in Calls, Heard!Leave(r) PROVE HeardInv'
  <2>1. HeardTyped'
    BY <1>5 DEF HeardInv, HeardTyped, Heard!Leave, Heard!On
  <2> QED
    BY <1>5, <2>1, KnownRemains DEF HeardInv, HeardTyped, Heard!Leave
<1>6. ASSUME NEW a \in {"log", "cline"}, Heard!TimePasses(a) PROVE HeardInv'
  <2>1. HeardTyped'
    BY <1>6 DEF HeardInv, HeardTyped, Heard!TimePasses, Heard!On
  <2> QED
    BY <1>6, <2>1, KnownRemains DEF Heard!TimePasses
<1>7. CASE UNCHANGED heardVars
  <2>1. HeardTyped'
    BY <1>7 DEF heardVars, HeardInv, HeardTyped, Heard!On
  <2> QED
    BY <1>7, <2>1, KnownRemains DEF heardVars
<1> QED
  BY <1>1, <1>2, <1>3, <1>4, <1>5, <1>6, <1>7 DEF Heard!Next

\* It holds at first, when nothing was read.
LEMMA HeardInitially == ASSUME Heard!Init PROVE HeardInv
<1>1. Heard!Seen = {}
  BY DEF Heard!Init, Heard!Seen
<1>2. adapter \in [Calls -> Heard!Adapters]
  <2>1. DOMAIN Heard!Structured =
          {"claude", "qwen", "pi", "codex", "kimi", "opencode", "kilo", "kiro", "cline"}
    BY DEF Heard!Structured
  <2>2. Heard!Adapters = Agents
    BY <2>1 DEF Heard!Adapters, Agents
  <2> QED
    BY <2>2, WatchersAssumption DEF Heard!Init
<1> QED
  BY <1>1, <1>2 DEF Heard!Init, HeardInv, HeardTyped, Know, Known, OwnLines, Gathered, Worded,
     LastTold, Heard!On

\* It says what the run checks.
LEMMA HeardSays == HeardInv => Heard!LinesKeepTheirRun
<1> SUFFICES ASSUME HeardInv PROVE Heard!LinesKeepTheirRun
  OBVIOUS
<1>1. /\ OwnLines(events) /\ Gathered(events, held, Heard!Seen) /\ Worded(events, Heard!Seen)
  BY DEF HeardInv, Know, Known
<1>2. Heard!OnlyOwnLines
  BY <1>1 DEF Heard!OnlyOwnLines, OwnLines
<1>3. Heard!GatheredOnce
  BY <1>1 DEF Heard!GatheredOnce, Gathered, Heard!On
<1>4. Heard!WordsAreHeard
  BY <1>1 DEF Heard!WordsAreHeard, Worded, ToldBeside
<1> QED
  BY <1>2, <1>3, <1>4 DEF Heard!LinesKeepTheirRun

-----------------------------------------------------------------------------
(* Induction over the naturals, for sets of them *)

\* The order of the naturals, as a relation.
Smaller == {p \in Nat \X Nat : p[1] < p[2]}

\* No sequence of naturals descends for ever.
LEMMA SmallerWellFounded == IsWellFoundedOn(Smaller, Nat)
<1>1. OpToRel(<, Nat) = Smaller
  BY DEF OpToRel, Smaller
<1> QED
  BY <1>1, NatLessThanWellFounded

\* A set of naturals that is not empty has a least element.
LEMMA LeastNatural ==
  ASSUME NEW T \in SUBSET Nat, T # {}
  PROVE  \E x \in T : \A y \in T : x <= y
<1>1. PICK x \in T : \A y \in T : <<y, x>> \notin Smaller
  BY SmallerWellFounded, WFMin
<1>2. ASSUME NEW y \in T PROVE x <= y
  <2>1. x \in Nat /\ y \in Nat /\ <<y, x>> \notin Smaller
    BY <1>1
  <2>2. ~(y < x)
    BY <2>1 DEF Smaller
  <2> QED
    BY <2>1, <2>2
<1> QED
  BY <1>2

\* A finite stretch of naturals has a largest element in every part of it that is not empty.
LEMMA LargestNatural ==
  ASSUME NEW n \in Nat, NEW T \in SUBSET (0..n), T # {}
  PROVE  \E x \in T : \A y \in T : y <= x
<1> DEFINE U == {n - x : x \in T}
<1>1. U \in SUBSET Nat /\ U # {}
  OBVIOUS
<1> HIDE DEF U
<1>2. PICK u \in U : \A v \in U : u <= v
  BY <1>1, LeastNatural
<1>3. PICK x \in T : u = n - x
  BY <1>2 DEF U
<1>4. ASSUME NEW y \in T PROVE y <= x
  <2>1. n - y \in U
    BY DEF U
  <2> QED
    BY <1>2, <1>3, <2>1
<1> QED
  BY <1>4

\* What holds of zero and of the next number holds of all.
LEMMA Induction ==
  ASSUME NEW T, 0 \in T, \A n \in Nat : n \in T => n + 1 \in T
  PROVE  Nat \subseteq T
<1> DEFINE B == {n \in Nat : n \notin T}
<1>1. SUFFICES ASSUME B # {} PROVE FALSE
  OBVIOUS
<1>2. PICK x \in B : \A y \in B : x <= y
  BY <1>1, LeastNatural
<1>3. x # 0 /\ x - 1 \in Nat /\ x - 1 \notin B
  BY <1>2
<1> QED
  BY <1>3

-----------------------------------------------------------------------------
(* The event stream *)

\* An event as a hub stores and sends it.
Event == [run : Logs, at : Nat, seq : Nat, by : Hubs]

StreamTypes ==
    /\ file \in [Logs -> Seq(Event)]
    /\ \A r \in Logs : \A i \in 1..Len(file[r]) : file[r][i].run = r /\ file[r][i].at = i
    /\ \A r \in Logs : \A i \in 1..Len(file[r]) : file[r][i].seq <= i
    /\ counter \in [Hubs -> [Logs -> Nat]]
    /\ \A h \in Hubs, r \in Logs : counter[h][r] <= Len(file[r]) + 1
    /\ es \in [Clients -> {"none", "connecting", "open"}]
    /\ lastId \in [Clients -> Nat] /\ since \in [Clients -> Nat] /\ base \in [Clients -> Nat]
    /\ wire \in [Clients -> Seq(Event)] /\ got \in [Clients -> Seq(Event)]

\* What a client was sent is stored, and while it is connected it was sent what it is owed.
Served(c) ==
    /\ \A i \in 1..Len(wire[c]) : wire[c][i] \in Stream!Stored
    /\ \A i \in 1..Len(got[c]) : got[c][i] \in Stream!Stored
    /\ base[c] <= Len(got[c])
    /\ es[c] # "open" => wire[c] = <<>>
    /\ es[c] = "open" => /\ Stream!Owed(c) \subseteq Stream!ToSet(Stream!OnThisConnection(c))
                         /\ Stream!IsInjective(Stream!OnThisConnection(c))

\* The events of the run with one writer have the numbers of their places, which its hub knows,
\* or will read from the file.
SoleIsNumbered ==
    /\ \A i \in 1..Len(file[Stream!Sole]) : file[Stream!Sole][i].seq = i
    /\ \A h \in Hubs : <<h, Stream!Sole>> \in Publishes =>
         counter[h][Stream!Sole] \in {0, Len(file[Stream!Sole]) + 1}

\* A client of it has seen the first of them, and the next are on their way.
InOrder(c) ==
    /\ lastId[c] = Len(got[c]) /\ Len(got[c]) <= Len(file[Stream!Sole])
    /\ \A i \in 1..Len(got[c]) : got[c][i].seq = i
    /\ \A i \in 1..Len(wire[c]) : wire[c][i].seq = Len(got[c]) + i
    /\ es[c] = "open" => Len(got[c]) + Len(wire[c]) = Len(file[Stream!Sole])

StreamInv ==
    /\ StreamTypes /\ SoleIsNumbered
    /\ \A c \in Clients : Served(c)
    /\ \A c \in Stream!SoundReaders : InOrder(c)

LEMMA SoleIsOne == Stream!Sole \in Logs /\ Stream!HasOneWriter(Stream!Sole)
<1>1. \E r \in Logs : Stream!HasOneWriter(r)
  BY StreamAssumption DEF Stream!HasOneWriter, Stream!Writers
<1> QED
  BY <1>1 DEF Stream!Sole

LEMMA StoredIs ==
    ASSUME NEW f \in [Logs -> Seq(Event)]
    PROVE  \A e : e \in UNION {Stream!ToSet(f[r]) : r \in Logs}
                   <=> \E r \in Logs : \E i \in 1..Len(f[r]) : e = f[r][i]
<1>1. \A r \in Logs : f[r] \in Seq(Event)
  OBVIOUS
<1>2. \A r \in Logs : DOMAIN f[r] = 1..Len(f[r])
  BY <1>1, LenProperties
<1> QED
  BY <1>2 DEF Stream!ToSet

\* What was dispatched since the connect and what is to be dispatched.
Joined(g, b, w) == SubSeq(g, b + 1, Len(g)) \o w

LEMMA JoinedIs ==
    ASSUME NEW g \in Seq(Event), NEW w \in Seq(Event), NEW b \in Nat, b <= Len(g)
    PROVE  /\ Joined(g, b, w) \in Seq(Event) /\ Len(Joined(g, b, w)) = Len(g) - b + Len(w)
           /\ DOMAIN Joined(g, b, w) = 1..Len(Joined(g, b, w))
           /\ \A i \in 1..Len(Joined(g, b, w)) :
                Joined(g, b, w)[i] = IF i <= Len(g) - b THEN g[b + i] ELSE w[i - (Len(g) - b)]
<1>1. /\ SubSeq(g, b + 1, Len(g)) \in Seq(Event) /\ Len(SubSeq(g, b + 1, Len(g))) = Len(g) - b
      /\ \A i \in 1..(Len(g) - b) : SubSeq(g, b + 1, Len(g))[i] = g[b + i]
  BY SubSeqProperties
<1> HIDE DEF Event
<1> QED
  BY <1>1 DEF Joined

LEMMA JoinedHas ==
    ASSUME NEW g \in Seq(Event), NEW w \in Seq(Event), NEW b \in Nat, b <= Len(g),
           NEW i \in 1..Len(Joined(g, b, w))
    PROVE  \/ \E j \in 1..Len(g) : Joined(g, b, w)[i] = g[j]
           \/ \E j \in 1..Len(w) : Joined(g, b, w)[i] = w[j]
<1>1. /\ Joined(g, b, w) \in Seq(Event) /\ Len(Joined(g, b, w)) = Len(g) - b + Len(w)
      /\ Joined(g, b, w)[i] = IF i <= Len(g) - b THEN g[b + i] ELSE w[i - (Len(g) - b)]
  BY JoinedIs
<1>2. CASE i <= Len(g) - b
  <2>1. b + i \in 1..Len(g)
    BY <1>1, <1>2
  <2> QED
    BY <1>1, <1>2, <2>1
<1>3. CASE i > Len(g) - b
  <2>1. i - (Len(g) - b) \in 1..Len(w)
    BY <1>1, <1>3
  <2> QED
    BY <1>1, <1>3, <2>1
<1> QED
  BY <1>1, <1>2, <1>3

LEMMA DispatchKeeps ==
    ASSUME NEW g \in Seq(Event), NEW w \in Seq(Event), NEW b \in Nat, b <= Len(g), w # <<>>
    PROVE  Joined(Append(g, Head(w)), b, Tail(w)) = Joined(g, b, w)
<1> DEFINE x == Head(w)
           s == Joined(Append(g, x), b, Tail(w))
           t == Joined(g, b, w)
<1>1. x \in Event /\ x = w[1] /\ Tail(w) \in Seq(Event) /\ Len(Tail(w)) = Len(w) - 1
      /\ \A i \in 1..Len(Tail(w)) : Tail(w)[i] = w[i + 1]
  BY HeadTailProperties
<1> HIDE DEF x
<1>2. /\ Append(g, x) \in Seq(Event) /\ Len(Append(g, x)) = Len(g) + 1 /\ Append(g, x)[Len(g) + 1] = x
      /\ \A i \in 1..Len(g) : Append(g, x)[i] = g[i]
  BY <1>1
<1>3. /\ s \in Seq(Event) /\ Len(s) = Len(g) + 1 - b + (Len(w) - 1)
      /\ \A i \in 1..Len(s) : s[i] = IF i <= Len(g) + 1 - b THEN Append(g, x)[b + i]
                                     ELSE Tail(w)[i - (Len(g) + 1 - b)]
  <2>1. PICK a \in Seq(Event) : a = Append(g, x) /\ Len(a) = Len(g) + 1
    BY <1>2
  <2>2. PICK v \in Seq(Event) : v = Tail(w) /\ Len(v) = Len(w) - 1
    BY <1>1
  <2>3. PICK q \in Seq(Event) : q = s /\ q = Joined(a, b, v)
    <3>1. b <= Len(a)
      BY <2>1
    <3> QED
      BY <2>1, <2>2, <3>1, JoinedIs
  <2> HIDE DEF s
  <2>4. /\ Len(q) = Len(a) - b + Len(v)
        /\ \A i \in 1..Len(q) : q[i] = IF i <= Len(a) - b THEN a[b + i] ELSE v[i - (Len(a) - b)]
    <3>1. b <= Len(a)
      BY <2>1
    <3>2. /\ Len(Joined(a, b, v)) = Len(a) - b + Len(v)
          /\ \A i \in 1..Len(Joined(a, b, v)) :
               Joined(a, b, v)[i] = IF i <= Len(a) - b THEN a[b + i] ELSE v[i - (Len(a) - b)]
      BY <3>1, JoinedIs
    <3> QED
      BY <2>3, <3>2
  <2>5. s \in Seq(Event) /\ Len(s) = Len(g) + 1 - b + (Len(w) - 1)
    BY <2>1, <2>2, <2>3, <2>4
  <2>6. \A i \in 1..Len(s) : s[i] = IF i <= Len(g) + 1 - b THEN a[b + i] ELSE v[i - (Len(g) + 1 - b)]
    BY <2>1, <2>3, <2>4
  <2> QED
    BY <2>1, <2>2, <2>5, <2>6
<1>4. /\ t \in Seq(Event) /\ Len(t) = Len(g) - b + Len(w)
      /\ \A i \in 1..Len(t) : t[i] = IF i <= Len(g) - b THEN g[b + i] ELSE w[i - (Len(g) - b)]
  BY JoinedIs
<1> HIDE DEF s, t
<1>5. Len(s) = Len(t)
  BY <1>3, <1>4
<1>6. ASSUME NEW i \in 1..Len(s) PROVE s[i] = t[i]
  <2>1. i \in 1..Len(t) /\ Len(g) \in Nat /\ Len(w) \in Nat /\ i \in Nat
    BY <1>3, <1>5
  <2>2. CASE i <= Len(g) - b
    BY <1>2, <1>3, <1>4, <2>1, <2>2
  <2>3. CASE i = Len(g) - b + 1
    BY <1>1, <1>2, <1>3, <1>4, <2>1, <2>3
  <2>4. CASE i > Len(g) - b + 1
    <3>1. i - (Len(g) + 1 - b) \in 1..Len(Tail(w)) /\ (i - (Len(g) + 1 - b)) + 1 = i - (Len(g) - b)
      BY <1>1, <1>4, <2>1, <2>4
    <3> QED
      BY <1>1, <1>3, <1>4, <2>1, <2>4, <3>1
  <2> QED
    BY <2>1, <2>2, <2>3, <2>4
<1> QED
  BY <1>3, <1>4, <1>5, <1>6, SeqEqual DEF s, t, x

LEMMA ConcatAppend ==
    ASSUME NEW p \in Seq(Event), NEW w \in Seq(Event), NEW e \in Event
    PROVE  p \o Append(w, e) = Append(p \o w, e)
<1> DEFINE s == p \o Append(w, e)
           t == Append(p \o w, e)
<1> HIDE DEF Event
<1>1. /\ s \in Seq(Event) /\ t \in Seq(Event) /\ Len(s) = Len(t) /\ \A i \in 1..Len(s) : s[i] = t[i]
  OBVIOUS
<1> HIDE DEF s, t
<1> QED
  BY <1>1, SeqEqual DEF s, t

\* A client nothing happened to is served as before.
LEMMA ServedStays ==
    ASSUME NEW c \in Clients, Served(c), Stream!Stored \subseteq Stream!Stored',
           wire'[c] = wire[c], got'[c] = got[c], base'[c] = base[c],
           es'[c] # "open" => wire[c] = <<>>,
           es'[c] = "open" => /\ es[c] = "open"
                              /\ Stream!Owed(c)' \subseteq Stream!Owed(c)
    PROVE  Served(c)'
<1>1. Stream!OnThisConnection(c)' = Stream!OnThisConnection(c)
  BY DEF Stream!OnThisConnection
<1>2. es'[c] = "open" => /\ Stream!Owed(c)' \subseteq Stream!ToSet(Stream!OnThisConnection(c)')
                         /\ Stream!IsInjective(Stream!OnThisConnection(c)')
  BY <1>1 DEF Served
<1> QED
  BY <1>2 DEF Served, Stream!ToSet, Stream!IsInjective

LEMMA NextSeqIs ==
    ASSUME StreamTypes, SoleIsNumbered, NEW h \in Hubs, NEW r \in Logs, <<h, r>> \in Publishes
    PROVE  LET n == Stream!NextSeq(h, r)
           IN  n \in Nat /\ n <= Len(file[r]) + 1 /\ (r = Stream!Sole => n = Len(file[r]) + 1)
<1> DEFINE S == {e.seq : e \in Stream!ToSet(file[r])} \cup {0}
<1>0. file[r] \in Seq(Event) /\ Len(file[r]) \in Nat /\ DOMAIN file[r] = 1..Len(file[r])
  BY LenProperties DEF StreamTypes
<1>1. S = {file[r][i].seq : i \in 1..Len(file[r])} \cup {0}
  BY <1>0 DEF Stream!ToSet
<1>2. S \in SUBSET (0..Len(file[r])) /\ S # {}
  <2>1. ASSUME NEW i \in 1..Len(file[r]) PROVE file[r][i].seq \in 0..Len(file[r])
    <3>1. file[r][i] \in Event /\ file[r][i].seq <= i
      BY <1>0 DEF StreamTypes
    <3>2. file[r][i].seq \in Nat
      BY <3>1 DEF Event
    <3> QED
      BY <1>0, <3>1, <3>2
  <2> QED
    BY <1>1, <2>1
<1>3. r = Stream!Sole /\ Len(file[r]) # 0 => Len(file[r]) \in S
  BY <1>0, <1>1 DEF SoleIsNumbered
<1>4. Stream!MaxSeqForRun(r) = Stream!Max(S)
  BY DEF Stream!MaxSeqForRun
<1> HIDE DEF S
<1>5. Stream!Max(S) \in S /\ \A y \in S : y <= Stream!Max(S)
  BY <1>0, <1>2, LargestNatural DEF Stream!Max
<1>6. Stream!Max(S) \in 0..Len(file[r]) /\ (r = Stream!Sole => Stream!Max(S) = Len(file[r]))
  <2> DEFINE m == Stream!Max(S)
  <2>1. m \in 0..Len(file[r])
    BY <1>2, <1>5
  <2>2. ASSUME r = Stream!Sole, Len(file[r]) # 0 PROVE Len(file[r]) <= m
    BY <1>3, <1>5, <2>2
  <2> HIDE DEF m
  <2> QED
    BY <1>0, <2>1, <2>2 DEF m
<1>7. counter[h][r] \in Nat /\ counter[h][r] <= Len(file[r]) + 1
  BY DEF StreamTypes
<1>8. r = Stream!Sole => counter[h][r] \in {0, Len(file[r]) + 1}
  BY DEF SoleIsNumbered
<1> QED
  BY <1>0, <1>4, <1>6, <1>7, <1>8 DEF Stream!NextSeq

LEMMA StreamPublish ==
    ASSUME StreamInv, NEW h \in Hubs, NEW r \in Logs, Stream!Publish(h, r)
    PROVE  StreamInv'
<1> DEFINE n == Stream!NextSeq(h, r)
<1>1. n \in Nat /\ n <= Len(file[r]) + 1 /\ (r = Stream!Sole => n = Len(file[r]) + 1)
  BY NextSeqIs DEF StreamInv, Stream!Publish
<1> HIDE DEF n
<1>2. PICK e \in Event : e = [run |-> r, at |-> Len(file[r]) + 1, seq |-> n, by |-> h]
  <2>1. Len(file[r]) + 1 \in Nat
    BY DEF StreamInv, StreamTypes
  <2> QED
    BY <1>1, <2>1 DEF Event
<1>3. /\ <<h, r>> \in Publishes /\ file' = [file EXCEPT ![r] = Append(@, e)]
      /\ counter' = [counter EXCEPT ![h][r] = e.seq + 1]
      /\ wire' = [c \in Clients |-> IF es[c] = "open" /\ At[c] = h /\ Stream!Watches(c, r)
                                    THEN Append(wire[c], e) ELSE wire[c]]
      /\ UNCHANGED <<es, lastId, since, got, base>>
  BY <1>2 DEF Stream!Publish, n
<1>4. /\ file'[r] \in Seq(Event) /\ Len(file'[r]) = Len(file[r]) + 1 /\ Len(file[r]) \in Nat
      /\ file'[r][Len(file[r]) + 1] = e
      /\ \A i \in 1..Len(file[r]) : file'[r][i] = file[r][i]
      /\ \A i \in 1..Len(file'[r]) : i \in 1..Len(file[r]) \/ i = Len(file[r]) + 1
      /\ \A q \in Logs : q # r => file'[q] = file[q]
      /\ file' \in [Logs -> Seq(Event)]
  BY <1>3 DEF StreamInv, StreamTypes
<1>5. e.run = r /\ e.at = Len(file[r]) + 1 /\ e.seq = n /\ e.by = h
  BY <1>2
<1>6. StreamTypes'
  <2>1. counter' \in [Hubs -> [Logs -> Nat]]
    BY <1>1, <1>3, <1>5 DEF StreamInv, StreamTypes
  <2>2. wire' \in [Clients -> Seq(Event)]
    BY <1>3 DEF StreamInv, StreamTypes
  <2>3. ASSUME NEW q \in Logs, NEW i \in 1..Len(file'[q])
        PROVE  file'[q][i].run = q /\ file'[q][i].at = i /\ file'[q][i].seq <= i
    <3>1. CASE q = r
      <4>1. CASE i \in 1..Len(file[r])
        <5>1. file'[q][i] = file[r][i]
          BY <1>4, <3>1, <4>1
        <5>2. file[r][i].run = r /\ file[r][i].at = i /\ file[r][i].seq <= i
          BY <4>1 DEF StreamInv, StreamTypes
        <5> QED
          BY <3>1, <5>1, <5>2
      <4>2. CASE i = Len(file[r]) + 1
        BY <1>1, <1>4, <1>5, <3>1, <4>2
      <4> QED
        BY <1>4, <3>1, <4>1, <4>2
    <3>2. CASE q # r
      BY <1>4, <3>2 DEF StreamInv, StreamTypes
    <3> QED
      BY <3>1, <3>2
  <2>4. ASSUME NEW g \in Hubs, NEW q \in Logs PROVE counter'[g][q] <= Len(file'[q]) + 1
    <3>1. CASE q = r
      BY <1>1, <1>3, <1>4, <1>5, <3>1 DEF StreamInv, StreamTypes
    <3>2. CASE q # r
      BY <1>3, <1>4, <3>2 DEF StreamInv, StreamTypes
    <3> QED
      BY <3>1, <3>2
  <2> QED
    BY <1>3, <1>4, <2>1, <2>2, <2>3, <2>4 DEF StreamInv, StreamTypes
<1>7. \A d : d \in Stream!Stored' <=> d \in Stream!Stored \/ d = e
  <2>1. \A d : d \in Stream!Stored' <=> \E q \in Logs : \E i \in 1..Len(file'[q]) : d = file'[q][i]
    BY <1>4, StoredIs DEF Stream!Stored
  <2>2. \A d : d \in Stream!Stored <=> \E q \in Logs : \E i \in 1..Len(file[q]) : d = file[q][i]
    BY StoredIs DEF Stream!Stored, StreamInv, StreamTypes
  <2>3. ASSUME NEW d \in Stream!Stored PROVE d \in Stream!Stored'
    <3>1. PICK q \in Logs : \E i \in 1..Len(file[q]) : d = file[q][i]
      BY <2>2
    <3>2. PICK i \in 1..Len(file[q]) : d = file[q][i]
      BY <3>1
    <3>3. i \in 1..Len(file'[q]) /\ d = file'[q][i]
      BY <1>4, <3>2
    <3> QED
      BY <2>1, <3>3
  <2>4. e \in Stream!Stored'
    <3>1. Len(file[r]) + 1 \in 1..Len(file'[r])
      BY <1>4
    <3> QED
      BY <1>4, <2>1, <3>1
  <2>5. ASSUME NEW d \in Stream!Stored' PROVE d \in Stream!Stored \/ d = e
    <3>1. PICK q \in Logs : \E i \in 1..Len(file'[q]) : d = file'[q][i]
      BY <2>1
    <3>2. PICK i \in 1..Len(file'[q]) : d = file'[q][i]
      BY <3>1
    <3>3. CASE q = r
      BY <1>4, <2>2, <3>2, <3>3
    <3>4. CASE q # r
      BY <1>4, <2>2, <3>2, <3>4
    <3> QED
      BY <3>3, <3>4
  <2> QED
    BY <2>3, <2>4, <2>5
<1>8. e \notin Stream!Stored
  <2> SUFFICES ASSUME NEW q \in Logs, NEW i \in 1..Len(file[q]), e = file[q][i] PROVE FALSE
    <3>1. \A d : d \in Stream!Stored <=> \E q \in Logs : \E i \in 1..Len(file[q]) : d = file[q][i]
      BY StoredIs DEF Stream!Stored, StreamInv, StreamTypes
    <3> QED
      BY <3>1
  <2>1. file[q][i].run = q /\ file[q][i].at = i
    BY DEF StreamInv, StreamTypes
  <2> QED
    BY <1>4, <1>5, <2>1
<1>9. ASSUME NEW c \in Clients PROVE Served(c)'
  <2>0. Served(c)
    BY DEF StreamInv
  <2>1. CASE es[c] = "open" /\ At[c] = h /\ Stream!Watches(c, r)
    <3> DEFINE o == Stream!OnThisConnection(c)
    <3>1. /\ wire'[c] = Append(wire[c], e) /\ got'[c] = got[c] /\ base'[c] = base[c] /\ since'[c] = since[c]
          /\ wire[c] \in Seq(Event) /\ got[c] \in Seq(Event) /\ base[c] \in Nat /\ base[c] <= Len(got[c])
      BY <1>3, <2>0, <2>1 DEF StreamInv, StreamTypes, Served
    <3>2. /\ o \in Seq(Event) /\ DOMAIN o = 1..Len(o)
          /\ \A i \in 1..Len(o) : \/ \E j \in 1..Len(got[c]) : o[i] = got[c][j]
                                  \/ \E j \in 1..Len(wire[c]) : o[i] = wire[c][j]
      <4>1. o = Joined(got[c], base[c], wire[c])
        BY DEF Stream!OnThisConnection, Joined
      <4> HIDE DEF o
      <4>2. PICK g \in Seq(Event), w \in Seq(Event), b \in Nat : g = got[c] /\ w = wire[c] /\ b = base[c]
        BY <3>1
      <4>3. b <= Len(g) /\ o = Joined(g, b, w)
        BY <3>1, <4>1, <4>2
      <4>4. /\ o \in Seq(Event)
            /\ \A i \in 1..Len(o) : \/ \E j \in 1..Len(g) : o[i] = g[j]
                                    \/ \E j \in 1..Len(w) : o[i] = w[j]
        BY <4>3, JoinedIs, JoinedHas
      <4> QED
        BY <4>2, <4>4, LenProperties
    <3>3. Stream!OnThisConnection(c)' = Append(o, e)
      <4>1. SubSeq(got[c], base[c] + 1, Len(got[c])) \in Seq(Event)
        BY <3>1, SubSeqProperties
      <4>2. Stream!OnThisConnection(c)' = SubSeq(got[c], base[c] + 1, Len(got[c])) \o Append(wire[c], e)
        BY <3>1 DEF Stream!OnThisConnection
      <4>3. o = SubSeq(got[c], base[c] + 1, Len(got[c])) \o wire[c]
        BY DEF Stream!OnThisConnection
      <4> HIDE DEF o
      <4> QED
        BY <3>1, <4>1, <4>2, <4>3, ConcatAppend
    <3> HIDE DEF o
    <3>4. ASSUME NEW i \in 1..Len(o) PROVE o[i] \in Stream!Stored
      BY <2>0, <3>2 DEF Served
    <3>5. /\ DOMAIN Append(o, e) = 1..(Len(o) + 1) /\ Append(o, e)[Len(o) + 1] = e
          /\ \A i \in 1..Len(o) : Append(o, e)[i] = o[i]
      BY <3>2
    <3>6. Stream!IsInjective(o) /\ Stream!Owed(c) \subseteq Stream!ToSet(o)
      BY <2>0, <2>1 DEF Served, o
    <3>7. Stream!IsInjective(Append(o, e))
      BY <1>8, <3>2, <3>4, <3>5, <3>6 DEF Stream!IsInjective
    <3>8. Stream!Owed(c)' \subseteq Stream!Owed(c) \cup {e}
      BY <1>7, <3>1 DEF Stream!Owed, Stream!Watches
    <3>9. Stream!Owed(c)' \subseteq Stream!ToSet(Append(o, e))
      BY <3>2, <3>5, <3>6, <3>8 DEF Stream!ToSet
    <3>10. \A i \in 1..Len(wire'[c]) : wire'[c][i] \in Stream!Stored'
      BY <1>7, <2>0, <3>1 DEF Served
    <3>11. \A i \in 1..Len(got'[c]) : got'[c][i] \in Stream!Stored'
      BY <1>7, <2>0, <3>1 DEF Served
    <3>12. Stream!Owed(c)' \subseteq Stream!ToSet(Stream!OnThisConnection(c)')
           /\ Stream!IsInjective(Stream!OnThisConnection(c)')
      BY <3>3, <3>7, <3>9
    <3> QED
      BY <1>3, <2>1, <3>1, <3>10, <3>11, <3>12 DEF Served, Stream!ToSet, Stream!IsInjective
  <2>2. CASE ~(es[c] = "open" /\ At[c] = h /\ Stream!Watches(c, r))
    <3>1. wire'[c] = wire[c] /\ got'[c] = got[c] /\ base'[c] = base[c] /\ es'[c] = es[c]
      BY <1>3, <2>2
    <3>2. es[c] = "open" => Stream!Owed(c)' \subseteq Stream!Owed(c)
      BY <1>3, <1>5, <1>7, <2>2 DEF Stream!Owed, Stream!Watches
    <3> QED
      BY <1>7, <2>0, <3>1, <3>2, ServedStays DEF Served
  <2> QED
    BY <2>1, <2>2
<1> DEFINE l == Stream!Sole
<1>s. l \in Logs /\ l' = l /\ \E g \in Hubs : Stream!Writers(l) = {g}
  BY SoleIsOne DEF Stream!HasOneWriter, Stream!Sole
<1>10. SoleIsNumbered'
  <2>1. CASE l = r
    <3>1. \A i \in 1..Len(file'[l]) : file'[l][i].seq = i
      BY <1>1, <1>4, <1>5, <2>1 DEF StreamInv, SoleIsNumbered
    <3>2. \A g \in Hubs : <<g, l>> \in Publishes => g = h
      BY <1>3, <1>s, <2>1 DEF Stream!Writers
    <3>3. counter'[h][l] = Len(file'[l]) + 1
      BY <1>1, <1>3, <1>4, <1>5, <2>1 DEF StreamInv, StreamTypes
    <3> QED
      BY <3>1, <3>2, <3>3 DEF SoleIsNumbered
  <2>2. CASE l # r
    BY <1>3, <1>4, <1>s, <2>2 DEF StreamInv, StreamTypes, SoleIsNumbered
  <2> QED
    BY <2>1, <2>2
<1>11. ASSUME NEW c \in Stream!SoundReaders PROVE InOrder(c)'
  <2>0. InOrder(c) /\ c \in Clients /\ Watch[c] = l /\ Stream!Writers(l) = {At[c]} /\ l # "all"
    BY <1>s, StreamAssumption DEF StreamInv, Stream!SoundReaders
  <2>1. CASE l = r
    <3>1. At[c] = h /\ Stream!Watches(c, r)
      BY <1>3, <2>0, <2>1 DEF Stream!Writers, Stream!Watches
    <3>2. wire'[c] = IF es[c] = "open" THEN Append(wire[c], e) ELSE wire[c]
      BY <1>3, <2>0, <3>1
    <3>3. wire[c] \in Seq(Event) /\ got[c] \in Seq(Event)
      BY <2>0 DEF StreamInv, StreamTypes
    <3>4. /\ Len(got[c]) \in Nat /\ Len(wire[c]) \in Nat /\ Len(file[l]) \in Nat
      BY <1>4, <2>1, <3>3
    <3>w. PICK w \in Seq(Event) : /\ w = Append(wire[c], e) /\ Len(w) = Len(wire[c]) + 1
                                  /\ w[Len(wire[c]) + 1] = e
                                  /\ \A i \in 1..Len(wire[c]) : w[i] = wire[c][i]
      <4>1. PICK v \in Seq(Event) : v = wire[c]
        BY <3>3
      <4>2. /\ Append(v, e) \in Seq(Event) /\ Len(Append(v, e)) = Len(v) + 1
            /\ Append(v, e)[Len(v) + 1] = e /\ \A i \in 1..Len(v) : Append(v, e)[i] = v[i]
        OBVIOUS
      <4> QED
        BY <4>1, <4>2
    <3>5. /\ \A i \in 1..Len(wire[c]) : wire[c][i].seq = Len(got[c]) + i
          /\ es[c] = "open" => Len(got[c]) + Len(wire[c]) = Len(file[l])
          /\ Len(got[c]) <= Len(file[l])
      BY <2>0 DEF InOrder
    <3>6. e.seq = Len(file[l]) + 1 /\ Len(file'[l]) = Len(file[l]) + 1
      BY <1>1, <1>4, <1>5, <2>1
    <3>7. \A i \in 1..Len(wire'[c]) : wire'[c][i].seq = Len(got[c]) + i
      <4>1. CASE es[c] = "open"
        <5>1. wire'[c] = w /\ Len(got[c]) + Len(wire[c]) + 1 = e.seq
          BY <3>2, <3>4, <3>5, <3>6, <3>w, <4>1
        <5>2. \A i \in 1..Len(w) : i \in 1..Len(wire[c]) \/ i = Len(wire[c]) + 1
          BY <3>4, <3>w
        <5>3. w[Len(wire[c]) + 1].seq = Len(got[c]) + (Len(wire[c]) + 1)
          <6>1. w[Len(wire[c]) + 1] = e
            BY <3>w
          <6>2. PICK x \in Nat, y \in Nat : x = Len(got[c]) /\ y = Len(wire[c])
            BY <3>4
          <6>3. e.seq = x + y + 1
            BY <5>1, <6>2
          <6>4. e.seq = x + (y + 1)
            BY <6>3
          <6> QED
            BY <6>1, <6>2, <6>4
        <5> QED
          BY <3>5, <3>w, <5>1, <5>2, <5>3
      <4>2. CASE es[c] # "open"
        BY <3>2, <3>5, <4>2
      <4> QED
        BY <4>1, <4>2
    <3>8. es[c] = "open" => Len(got[c]) + Len(wire'[c]) = Len(file'[l])
      <4>1. PICK x \in Nat, y \in Nat, z \in Nat : x = Len(got[c]) /\ y = Len(wire[c]) /\ z = Len(file[l])
        BY <3>4
      <4>2. x + y = z => x + (y + 1) = z + 1
        OBVIOUS
      <4> QED
        BY <3>2, <3>5, <3>6, <3>w, <4>1, <4>2
    <3>9. Len(got[c]) <= Len(file'[l])
      BY <3>4, <3>5, <3>6
    <3> QED
      BY <1>3, <1>s, <2>0, <3>7, <3>8, <3>9 DEF InOrder
  <2>2. CASE l # r
    <3>1. wire'[c] = wire[c] /\ file'[l] = file[l]
      BY <1>3, <1>4, <1>s, <2>0, <2>2 DEF Stream!Watches
    <3> QED
      BY <1>3, <2>0, <3>1 DEF InOrder
  <2> QED
    BY <2>1, <2>2
<1> QED
  BY <1>6, <1>9, <1>10, <1>11 DEF StreamInv, Stream!SoundReaders

\* A connection ends, a hub stops or starts, or nothing happens.
LEMMA StreamEnds ==
    ASSUME StreamInv, UNCHANGED <<file, lastId, since, got, base>>,
           counter' \in [Hubs -> [Logs -> Nat]], es' \in [Clients -> {"none", "connecting", "open"}],
           wire' \in [Clients -> Seq(Event)],
           \A h \in Hubs, r \in Logs : counter'[h][r] \in {0, counter[h][r]},
           \A c \in Clients : \/ es'[c] = es[c] /\ wire'[c] = wire[c]
                              \/ es'[c] # "open" /\ wire'[c] = <<>>
    PROVE  StreamInv'
<1>1. StreamTypes'
  <2>1. ASSUME NEW h \in Hubs, NEW r \in Logs PROVE counter'[h][r] <= Len(file[r]) + 1
    <3>1. PICK l \in Nat : l = Len(file[r])
      BY DEF StreamInv, StreamTypes
    <3>2. counter[h][r] <= l + 1 /\ counter'[h][r] \in {0, counter[h][r]}
      BY <3>1 DEF StreamInv, StreamTypes
    <3>3. 0 <= l + 1
      BY <3>1
    <3>4. counter'[h][r] <= l + 1
      BY <3>2, <3>3
    <3> QED
      BY <3>1, <3>4
  <2> QED
    BY <2>1 DEF StreamInv, StreamTypes
<1>2. Stream!Stored' = Stream!Stored
  BY DEF Stream!Stored
<1>3. ASSUME NEW c \in Clients PROVE Served(c)'
  <2>1. CASE es'[c] = es[c] /\ wire'[c] = wire[c]
    <3>1. Stream!Owed(c)' = Stream!Owed(c)
      BY <1>2 DEF Stream!Owed, Stream!Watches
    <3>2. Served(c)
      BY DEF StreamInv
    <3> QED
      BY <1>2, <2>1, <3>1, <3>2, ServedStays DEF Served
  <2>2. CASE es'[c] # "open" /\ wire'[c] = <<>>
    BY <1>2, <2>2 DEF StreamInv, Served
  <2> QED
    BY <2>1, <2>2
<1>4. SoleIsNumbered'
  BY SoleIsOne DEF StreamInv, SoleIsNumbered, Stream!Sole
<1>5. ASSUME NEW c \in Stream!SoundReaders PROVE InOrder(c)'
  <2>1. c \in Clients /\ InOrder(c)
    BY DEF StreamInv, Stream!SoundReaders
  <2>2. CASE es'[c] = es[c] /\ wire'[c] = wire[c]
    BY <2>1, <2>2 DEF InOrder, Stream!Sole
  <2>3. CASE es'[c] # "open" /\ wire'[c] = <<>>
    <3>1. \A i \in 1..Len(wire'[c]) : FALSE
      BY <2>3
    <3> QED
      BY <2>1, <2>3, <3>1 DEF InOrder, Stream!Sole
  <2> QED
    BY <2>1, <2>2, <2>3
<1> QED
  BY <1>1, <1>3, <1>4, <1>5 DEF StreamInv, Stream!SoundReaders

LEMMA StreamStop == ASSUME StreamInv, NEW h \in Hubs, Stream!Stop(h) PROVE StreamInv'
<1> DEFINE hit == {c \in Clients : At[c] = h /\ es[c] = "open"}
<1>1. /\ counter' = [counter EXCEPT ![h] = [r \in Logs |-> 0]]
      /\ es' = [c \in Clients |-> IF c \in hit THEN "connecting" ELSE es[c]]
      /\ wire' = [c \in Clients |-> IF c \in hit THEN <<>> ELSE wire[c]]
      /\ UNCHANGED <<file, lastId, since, got, base>>
  BY DEF Stream!Stop
<1> HIDE DEF hit
<1>2. counter' \in [Hubs -> [Logs -> Nat]] /\ \A g \in Hubs, r \in Logs : counter'[g][r] \in {0, counter[g][r]}
  BY <1>1 DEF StreamInv, StreamTypes
<1>3. es' \in [Clients -> {"none", "connecting", "open"}]
  BY <1>1 DEF StreamInv, StreamTypes
<1>4. wire' \in [Clients -> Seq(Event)]
  BY <1>1 DEF StreamInv, StreamTypes
<1>5. ASSUME NEW c \in Clients
      PROVE  (es'[c] = es[c] /\ wire'[c] = wire[c]) \/ (es'[c] # "open" /\ wire'[c] = <<>>)
  BY <1>1
<1> QED
  BY <1>1, <1>2, <1>3, <1>4, <1>5, StreamEnds

LEMMA StreamBreak == ASSUME StreamInv, NEW c \in Clients, Stream!Break(c) \/ Stream!GiveUp(c) PROVE StreamInv'
<1>1. UNCHANGED <<file, counter, lastId, since, got, base>>
  BY DEF Stream!Break, Stream!GiveUp, Stream!fvars
<1>2. CASE Stream!Break(c)
  <2>1. es' = [es EXCEPT ![c] = "connecting"] /\ wire' = [wire EXCEPT ![c] = <<>>]
    BY <1>2 DEF Stream!Break
  <2>2. wire' \in [Clients -> Seq(Event)] /\ es' \in [Clients -> {"none", "connecting", "open"}]
    BY <2>1 DEF StreamInv, StreamTypes
  <2>3. ASSUME NEW d \in Clients
        PROVE  (es'[d] = es[d] /\ wire'[d] = wire[d]) \/ (es'[d] # "open" /\ wire'[d] = <<>>)
    BY <2>1 DEF StreamInv, StreamTypes
  <2> QED
    BY <1>1, <2>2, <2>3, StreamEnds DEF StreamInv, StreamTypes
<1>3. CASE Stream!GiveUp(c)
  <2>1. es' = [es EXCEPT ![c] = "none"] /\ wire' = wire /\ es[c] = "connecting"
    BY <1>3 DEF Stream!GiveUp
  <2>2. wire' \in [Clients -> Seq(Event)] /\ es' \in [Clients -> {"none", "connecting", "open"}]
    BY <2>1 DEF StreamInv, StreamTypes
  <2>3. ASSUME NEW d \in Clients
        PROVE  (es'[d] = es[d] /\ wire'[d] = wire[d]) \/ (es'[d] # "open" /\ wire'[d] = <<>>)
    BY <2>1 DEF StreamInv, StreamTypes, Served
  <2> QED
    BY <1>1, <2>2, <2>3, StreamEnds DEF StreamInv, StreamTypes
<1> QED
  BY <1>2, <1>3

\* A fresh source starts over.
LEMMA StreamReopen == ASSUME StreamInv, NEW c \in Clients, Stream!Reopen(c) PROVE StreamInv'
<1>1. /\ es[c] = "none" /\ es' = [es EXCEPT ![c] = "connecting"]
      /\ lastId' = [lastId EXCEPT ![c] = 0] /\ got' = [got EXCEPT ![c] = <<>>]
      /\ base' = [base EXCEPT ![c] = 0] /\ UNCHANGED <<file, counter, since, wire>>
  BY DEF Stream!Reopen, Stream!fvars
<1>2. StreamTypes'
  BY <1>1 DEF StreamInv, StreamTypes
<1>3. Stream!Stored' = Stream!Stored
  BY <1>1 DEF Stream!Stored
<1>4. ASSUME NEW d \in Clients PROVE Served(d)'
  <2>0. Served(d)
    BY DEF StreamInv
  <2>1. CASE d = c
    BY <1>1, <1>3, <2>0, <2>1 DEF StreamInv, StreamTypes, Served
  <2>2. CASE d # c
    <3>1. es'[d] = es[d] /\ got'[d] = got[d] /\ base'[d] = base[d] /\ wire'[d] = wire[d]
      BY <1>1, <2>2 DEF StreamInv, StreamTypes
    <3>2. Stream!Owed(d)' = Stream!Owed(d)
      BY <1>1, <1>3 DEF Stream!Owed, Stream!Watches
    <3> QED
      BY <1>3, <2>0, <3>1, <3>2, ServedStays DEF Served
  <2> QED
    BY <2>1, <2>2
<1>5. SoleIsNumbered'
  BY <1>1 DEF StreamInv, SoleIsNumbered, Stream!Sole
<1>6. ASSUME NEW d \in Stream!SoundReaders PROVE InOrder(d)'
  <2>0. d \in Clients /\ InOrder(d) /\ Served(d)
    BY DEF StreamInv, Stream!SoundReaders
  <2>00. Stream!Sole \in Logs /\ Len(file[Stream!Sole]) \in Nat
    BY SoleIsOne DEF StreamInv, StreamTypes
  <2>1. CASE d = c
    BY <1>1, <2>0, <2>00, <2>1 DEF StreamInv, StreamTypes, InOrder, Served, Stream!Sole
  <2>2. CASE d # c
    <3>1. es'[d] = es[d] /\ got'[d] = got[d] /\ lastId'[d] = lastId[d] /\ wire'[d] = wire[d]
      BY <1>1, <2>0, <2>2 DEF StreamInv, StreamTypes
    <3> QED
      BY <1>1, <2>0, <3>1 DEF InOrder, Stream!Sole
  <2> QED
    BY <2>1, <2>2
<1> QED
  BY <1>2, <1>4, <1>5, <1>6 DEF StreamInv, Stream!SoundReaders

\* Numbers above n and up to l that rise and leave none out.
Rise(a, n, m, l) ==
    /\ a \in [1..m -> Nat] /\ n <= l
    /\ \A i \in 1..m : n < a[i] /\ a[i] <= l
    /\ \A i, k \in 1..m : i < k => a[i] < a[k]
    /\ \A j \in (n + 1)..l : \E i \in 1..m : a[i] = j

\* They are counted through.
LEMMA Counted ==
    ASSUME NEW n \in Nat, NEW m \in Nat, NEW l \in Nat, NEW a, Rise(a, n, m, l)
    PROVE  n + m = l /\ \A i \in 1..m : a[i] = n + i
<1>0. /\ a \in [1..m -> Nat] /\ n <= l
      /\ \A i \in 1..m : n < a[i] /\ a[i] <= l
      /\ \A i, k \in 1..m : i < k => a[i] < a[k]
      /\ \A j \in (n + 1)..l : \E i \in 1..m : a[i] = j
  BY DEF Rise
<1> DEFINE Good == {k \in Nat : \A i \in 1..m : i <= k => a[i] = n + i}
<1>1. 0 \in Good
  OBVIOUS
<1>2. ASSUME NEW k \in Nat, k \in Good, k + 1 <= m PROVE a[k + 1] = n + (k + 1)
  <2>1. n + k < a[k + 1]
    <3>1. CASE k = 0
      BY <1>0, <1>2, <3>1
    <3>2. CASE k # 0
      <4>1. k \in 1..m /\ k + 1 \in 1..m /\ a[k] = n + k /\ k < k + 1
        BY <1>2, <3>2
      <4> QED
        BY <1>0, <4>1
    <3> QED
      BY <3>1, <3>2
  <2>2. k + 1 \in 1..m /\ a[k + 1] \in Nat /\ a[k + 1] <= l
    BY <1>0, <1>2
  <2>3. PICK i \in 1..m : a[i] = n + (k + 1)
    <3>1. n + (k + 1) \in (n + 1)..l
      BY <2>1, <2>2
    <3> QED
      BY <1>0, <3>1
  <2>4. ~(i <= k)
    BY <1>2, <2>3
  <2>5. ~(k + 1 < i)
    BY <1>0, <2>1, <2>2, <2>3
  <2> QED
    BY <2>2, <2>3, <2>4, <2>5
<1>3. ASSUME NEW k \in Nat, k \in Good PROVE k + 1 \in Good
  <2>1. ASSUME NEW i \in 1..m, i <= k + 1 PROVE a[i] = n + i
    <3>1. CASE i <= k
      BY <1>3, <3>1
    <3>2. CASE i = k + 1
      <4>1. k + 1 <= m
        BY <3>2
      <4>2. a[k + 1] = n + (k + 1)
        BY <1>2, <1>3, <4>1
      <4> QED
        BY <3>2, <4>2
    <3> QED
      BY <2>1, <3>1, <3>2
  <2> QED
    BY <2>1
<1> HIDE DEF Good
<1>4. Nat \subseteq Good
  BY <1>1, <1>3, Induction
<1>5. \A i \in 1..m : a[i] = n + i
  <2> SUFFICES ASSUME NEW i \in 1..m PROVE a[i] = n + i
    OBVIOUS
  <2>1. m \in Good
    BY <1>4
  <2> QED
    BY <2>1 DEF Good
<1>6. n + m <= l
  BY <1>0, <1>5
<1>7. ~(n + m < l)
  <2> SUFFICES ASSUME n + m < l PROVE FALSE
    OBVIOUS
  <2>1. n + m + 1 \in (n + 1)..l
    OBVIOUS
  <2>2. PICK i \in 1..m : a[i] = n + m + 1
    BY <1>0, <2>1
  <2> QED
    BY <1>5, <2>2
<1> QED
  BY <1>5, <1>6, <1>7

\* What is replayed is all that is due, once, and of one run in order.
LEMMA ReplaysAre ==
    ASSUME StreamInv, NEW c \in Clients, NEW n \in Nat, NEW s \in Stream!Replays(c, n)
    PROVE  /\ s \in Seq(Event) /\ DOMAIN s = 1..Len(s) /\ Stream!ToSet(s) = Stream!Since(c, n)
           /\ \A i \in 1..Len(s) : s[i] \in Stream!Since(c, n)
           /\ \A i, k \in 1..Len(s) : i # k => s[i] # s[k]
           /\ Watch[c] # "all" => \A i, k \in 1..Len(s) : i < k => s[i].at < s[k].at
<1>1. Stream!Since(c, n) \subseteq Event
  <2>1. \A d : d \in Stream!Stored <=> \E r \in Logs : \E i \in 1..Len(file[r]) : d = file[r][i]
    BY StoredIs DEF Stream!Stored, StreamInv, StreamTypes
  <2>2. \A r \in Logs : \A i \in 1..Len(file[r]) : file[r][i] \in Event
    BY DEF StreamInv, StreamTypes
  <2> QED
    BY <2>1, <2>2 DEF Stream!Since
<1>2. PICK m \in Nat : s \in [1..m -> Stream!Since(c, n)]
  BY StreamAssumption DEF Stream!Replays, Stream!SeqOf
<1>3. s \in Seq(Event) /\ DOMAIN s = 1..Len(s) /\ Len(s) = m
  BY <1>1, <1>2
<1>4. PICK dir \in [Logs -> 0..MaxEvents] :
        \A i, k \in DOMAIN s : i < k => Stream!Precedes(c, dir, s[i], s[k])
  BY DEF Stream!Replays
<1>5. ASSUME NEW i \in 1..Len(s), NEW k \in 1..Len(s), i < k
      PROVE  s[i] # s[k] /\ (Watch[c] # "all" => s[i].at < s[k].at)
  <2>1. Stream!Precedes(c, dir, s[i], s[k])
    BY <1>3, <1>4, <1>5
  <2>2. s[i] \in Event /\ s[k] \in Event /\ s[i] \in Stream!Since(c, n) /\ s[k] \in Stream!Since(c, n)
    BY <1>2, <1>3
  <2>3. /\ s[i].seq \in Nat /\ s[i].at \in Nat /\ s[k].at \in Nat
        /\ dir[s[i].run] \in Nat /\ dir[s[k].run] \in Nat
    BY <1>4, <2>2, StreamAssumption DEF Event
  <2>4. Watch[c] # "all" => s[i].run = s[k].run
    BY <2>2 DEF Stream!Since, Stream!Watches
  <2>5. s[i] # s[k]
    BY <2>1, <2>3 DEF Stream!Precedes
  <2> QED
    BY <2>1, <2>3, <2>4, <2>5 DEF Stream!Precedes
<1>6. \A i, k \in 1..Len(s) : i # k => s[i] # s[k]
  <2> SUFFICES ASSUME NEW i \in 1..Len(s), NEW k \in 1..Len(s), i # k PROVE s[i] # s[k]
    OBVIOUS
  <2>1. i < k \/ k < i
    OBVIOUS
  <2> QED
    BY <1>5, <2>1
<1> QED
  BY <1>2, <1>3, <1>5, <1>6 DEF Stream!Replays

\* A client that connects is sent what it is owed.
LEMMA StreamConnect == ASSUME StreamInv, NEW c \in Clients, Stream!Connect(c) PROVE StreamInv'
<1>0. PICK n \in Nat, g \in Seq(Event), k \in Nat : n = lastId[c] /\ g = got[c] /\ k = Len(g)
  BY DEF StreamInv, StreamTypes
<1>1. PICK s \in Stream!Replays(c, n) : wire' = [wire EXCEPT ![c] = s]
  BY <1>0 DEF Stream!Connect
<1>2. /\ es' = [es EXCEPT ![c] = "open"] /\ since' = [since EXCEPT ![c] = n]
      /\ base' = [base EXCEPT ![c] = k] /\ UNCHANGED <<file, counter, lastId, got>>
  BY <1>0 DEF Stream!Connect
<1>3. /\ s \in Seq(Event) /\ DOMAIN s = 1..Len(s) /\ Stream!ToSet(s) = Stream!Since(c, n)
      /\ \A i \in 1..Len(s) : s[i] \in Stream!Since(c, n)
      /\ \A i, j \in 1..Len(s) : i # j => s[i] # s[j]
      /\ Watch[c] # "all" => \A i, j \in 1..Len(s) : i < j => s[i].at < s[j].at
  BY ReplaysAre
<1>4. /\ es'[c] = "open" /\ since'[c] = n /\ base'[c] = k /\ wire'[c] = s /\ got'[c] = g
      /\ \A d \in Clients : d # c => /\ es'[d] = es[d] /\ since'[d] = since[d] /\ base'[d] = base[d]
                                     /\ wire'[d] = wire[d] /\ got'[d] = got[d]
  BY <1>0, <1>1, <1>2 DEF StreamInv, StreamTypes
<1>5. StreamTypes'
  BY <1>0, <1>1, <1>2, <1>3 DEF StreamInv, StreamTypes
<1>6. Stream!Stored' = Stream!Stored
  BY <1>2 DEF Stream!Stored
<1>7. ASSUME NEW d \in Clients PROVE Served(d)'
  <2>0. Served(d)
    BY DEF StreamInv
  <2>1. CASE d = c
    <3>1. Joined(g, k, s) = s
      <4>1. /\ Joined(g, k, s) \in Seq(Event) /\ Len(Joined(g, k, s)) = Len(s)
            /\ \A i \in 1..Len(Joined(g, k, s)) : Joined(g, k, s)[i] = s[i]
        <5>1. k <= Len(g) /\ Len(g) - k = 0 /\ Len(s) \in Nat
          BY <1>0, <1>3
        <5>2. /\ Joined(g, k, s) \in Seq(Event) /\ Len(Joined(g, k, s)) = Len(g) - k + Len(s)
              /\ \A i \in 1..Len(Joined(g, k, s)) :
                   Joined(g, k, s)[i] = IF i <= Len(g) - k THEN g[k + i] ELSE s[i - (Len(g) - k)]
          BY <1>3, <5>1, JoinedIs
        <5> QED
          BY <5>1, <5>2
      <4> QED
        BY <1>3, <4>1, SeqEqual
    <3>2. Stream!OnThisConnection(c)' = s
      BY <1>4, <3>1 DEF Stream!OnThisConnection, Joined
    <3>3. Stream!Owed(c)' \subseteq Stream!Since(c, n)
      BY <1>4, <1>6 DEF Stream!Owed, Stream!Since, Stream!Watches
    <3>4. Stream!IsInjective(s)
      BY <1>3 DEF Stream!IsInjective
    <3>5. \A i \in 1..Len(s) : s[i] \in Stream!Stored
      BY <1>3 DEF Stream!Since
    <3>6. \A i \in 1..Len(got'[c]) : got'[c][i] \in Stream!Stored
      BY <1>0, <1>4, <2>0, <2>1 DEF Served
    <3>7. base'[c] <= Len(got'[c])
      BY <1>0, <1>4
    <3>8. /\ Stream!Owed(c)' \subseteq Stream!ToSet(Stream!OnThisConnection(c)')
          /\ Stream!IsInjective(Stream!OnThisConnection(c)')
      BY <1>3, <3>2, <3>3, <3>4
    <3> QED
      BY <1>4, <1>6, <2>1, <3>5, <3>6, <3>7, <3>8 DEF Served, Stream!ToSet, Stream!IsInjective
  <2>2. CASE d # c
    <3>1. Stream!Owed(d)' = Stream!Owed(d)
      BY <1>4, <1>6, <2>2 DEF Stream!Owed, Stream!Watches
    <3> QED
      BY <1>4, <1>6, <2>0, <2>2, <3>1, ServedStays DEF Served
  <2> QED
    BY <2>1, <2>2
<1>8. SoleIsNumbered'
  BY <1>2 DEF StreamInv, SoleIsNumbered, Stream!Sole
<1>9. ASSUME NEW d \in Stream!SoundReaders PROVE InOrder(d)'
  <2>0. InOrder(d) /\ d \in Clients /\ Stream!Sole' = Stream!Sole
    BY DEF StreamInv, Stream!SoundReaders, Stream!Sole
  <2>1. CASE d = c
    <3> DEFINE f == file[Stream!Sole]
    <3>1. f \in Seq(Event) /\ Watch[c] = Stream!Sole /\ Watch[c] # "all" /\ Stream!Sole \in Logs
      BY <2>1, SoleIsOne, StreamAssumption DEF StreamInv, StreamTypes, Stream!SoundReaders
    <3>2. PICK l \in Nat : l = Len(f)
      BY <3>1
    <3>3. n = k /\ k <= l
      BY <1>0, <2>0, <2>1, <3>2 DEF InOrder
    <3>4. \A i \in 1..l : f[i].run = Stream!Sole /\ f[i].at = i /\ f[i].seq = i
      BY <3>1, <3>2 DEF StreamInv, StreamTypes, SoleIsNumbered
    <3>5. \A e : e \in Stream!Since(c, n) <=> \E i \in 1..l : i > n /\ e = f[i]
      <4>1. \A d2 : d2 \in Stream!Stored <=> \E r \in Logs : \E i \in 1..Len(file[r]) : d2 = file[r][i]
        BY StoredIs DEF Stream!Stored, StreamInv, StreamTypes
      <4>2. ASSUME NEW e \in Stream!Since(c, n) PROVE \E i \in 1..l : i > n /\ e = f[i]
        <5>1. e \in Stream!Stored /\ e.run = Stream!Sole /\ e.seq > n
          BY <3>1 DEF Stream!Since, Stream!Watches
        <5>2. PICK r \in Logs : \E i \in 1..Len(file[r]) : e = file[r][i]
          BY <4>1, <5>1
        <5>3. PICK i \in 1..Len(file[r]) : e = file[r][i]
          BY <5>2
        <5>4. e.run = r
          BY <5>3 DEF StreamInv, StreamTypes
        <5> QED
          BY <3>2, <3>4, <5>1, <5>3, <5>4
      <4>3. ASSUME NEW i \in 1..l, i > n PROVE f[i] \in Stream!Since(c, n)
        BY <3>1, <3>2, <3>4, <4>1, <4>3 DEF Stream!Since, Stream!Watches
      <4> QED
        BY <4>2, <4>3
    <3> HIDE DEF f
    <3>6. PICK m \in Nat : m = Len(s)
      <4>1. Len(s) \in Nat
        BY <1>3, LenProperties
      <4> QED
        BY <4>1
    <3> DEFINE a == [i \in 1..m |-> s[i].seq]
    <3>7. ASSUME NEW i \in 1..m
          PROVE  \E j \in 1..l : j > n /\ s[i] = f[j] /\ s[i].seq = j /\ s[i].at = j
      BY <1>3, <3>4, <3>5, <3>6
    <3>8. a \in [1..m -> Nat] /\ \A i \in 1..m : n < a[i] /\ a[i] <= l
      BY <3>7
    <3>9. \A i, j \in 1..m : i < j => a[i] < a[j]
      BY <1>3, <3>1, <3>6, <3>7
    <3>10. \A j \in (n + 1)..l : \E i \in 1..m : a[i] = j
      <4> SUFFICES ASSUME NEW j \in (n + 1)..l PROVE \E i \in 1..m : a[i] = j
        OBVIOUS
      <4>1. j \in 1..l /\ j > n
        OBVIOUS
      <4>2. f[j] \in Stream!ToSet(s)
        BY <1>3, <3>5, <4>1
      <4>3. PICK i \in 1..m : s[i] = f[j]
        BY <1>3, <3>6, <4>2 DEF Stream!ToSet
      <4> QED
        BY <3>4, <4>1, <4>3
    <3> HIDE DEF a
    <3>11. n + m = l /\ \A i \in 1..m : a[i] = n + i
      <4>1. n <= l
        BY <3>3
      <4>2. Rise(a, n, m, l)
        BY <3>8, <3>9, <3>10, <4>1 DEF Rise
      <4> QED
        BY <4>2, Counted
    <3>12. \A i \in 1..m : s[i].seq = n + i
      BY <3>11 DEF a
    <3>13. lastId'[c] = Len(got'[c]) /\ Len(got'[c]) <= Len(file'[Stream!Sole])
           /\ \A i \in 1..Len(got'[c]) : got'[c][i].seq = i
      BY <1>2, <2>0, <2>1 DEF InOrder
    <3>14. /\ \A i \in 1..Len(wire'[c]) : wire'[c][i].seq = Len(got'[c]) + i
           /\ Len(got'[c]) + Len(wire'[c]) = Len(file'[Stream!Sole])
      <4>1. wire'[c] = s /\ Len(got'[c]) = n /\ Len(s) = m /\ Len(file'[Stream!Sole]) = l
        BY <1>0, <1>2, <1>4, <3>2, <3>3, <3>6 DEF f
      <4> QED
        BY <3>11, <3>12, <4>1
    <3> QED
      BY <2>0, <2>1, <3>13, <3>14 DEF InOrder
  <2>2. CASE d # c
    BY <1>2, <1>4, <2>0, <2>2 DEF InOrder
  <2> QED
    BY <2>1, <2>2
<1> QED
  BY <1>5, <1>7, <1>8, <1>9 DEF StreamInv, Stream!SoundReaders

\* A client that takes the next frame moves it from what is on its way to what it got.
LEMMA StreamDispatch == ASSUME StreamInv, NEW c \in Clients, Stream!Dispatch(c) PROVE StreamInv'
<1>0. PICK g \in Seq(Event), w \in Seq(Event), b \in Nat : g = got[c] /\ w = wire[c] /\ b = base[c]
  BY DEF StreamInv, StreamTypes
<1>1. /\ w # <<>> /\ Head(w) \in Event /\ Head(w) = w[1] /\ Tail(w) \in Seq(Event) /\ Len(Tail(w)) = Len(w) - 1
      /\ \A i \in 1..Len(Tail(w)) : Tail(w)[i] = w[i + 1]
  BY <1>0, HeadTailProperties DEF Stream!Dispatch
<1>2. PICK x \in Event : x = Head(w)
  BY <1>1
<1>3. /\ es[c] = "open" /\ got' = [got EXCEPT ![c] = Append(g, x)] /\ lastId' = [lastId EXCEPT ![c] = x.seq]
      /\ wire' = [wire EXCEPT ![c] = Tail(w)] /\ UNCHANGED <<file, counter, es, since, base>>
  BY <1>0, <1>2 DEF Stream!Dispatch, Stream!fvars, StreamInv, StreamTypes
<1>4. /\ lastId'[c] = x.seq /\ wire'[c] = Tail(w) /\ got'[c] = Append(g, x)
      /\ \A d \in Clients : d # c => wire'[d] = wire[d] /\ got'[d] = got[d] /\ lastId'[d] = lastId[d]
  BY <1>3 DEF StreamInv, StreamTypes
<1>5. x.seq \in Nat
  BY DEF Event
<1>6. StreamTypes'
  <2>1. got' \in [Clients -> Seq(Event)]
    <3>1. Append(g, x) \in Seq(Event)
      OBVIOUS
    <3> QED
      BY <1>3, <3>1 DEF StreamInv, StreamTypes
  <2>2. wire' \in [Clients -> Seq(Event)]
    BY <1>1, <1>3 DEF StreamInv, StreamTypes
  <2>3. lastId' \in [Clients -> Nat]
    BY <1>3, <1>5 DEF StreamInv, StreamTypes
  <2> QED
    BY <1>3, <2>1, <2>2, <2>3 DEF StreamInv, StreamTypes
<1>7. Stream!Stored' = Stream!Stored
  BY <1>3 DEF Stream!Stored
<1>8. PICK n \in Nat, m \in Nat : n = Len(g) /\ m = Len(w)
  OBVIOUS
<1>9. /\ Len(Append(g, x)) = n + 1 /\ Append(g, x)[n + 1] = x
      /\ \A i \in 1..(n + 1) : (i \in 1..n /\ Append(g, x)[i] = g[i]) \/ i = n + 1
  BY <1>8
<1>10. m > 0 /\ Len(Tail(w)) = m - 1 /\ x = w[1] /\ \A i \in 1..(m - 1) : Tail(w)[i] = w[i + 1] /\ i + 1 \in 1..m
  <2>1. m # 0
    BY <1>1, <1>8, EmptySeq
  <2> QED
    BY <1>1, <1>2, <1>8, <2>1
<1>11. ASSUME NEW d \in Clients PROVE Served(d)'
  <2>0. Served(d)
    BY DEF StreamInv
  <2>1. CASE d = c
    <3>0. b <= n
      BY <1>0, <1>8, <2>0, <2>1 DEF Served
    <3>1. Joined(Append(g, x), b, Tail(w)) = Joined(g, b, w)
      BY <1>1, <1>2, <1>8, <3>0, DispatchKeeps
    <3>2. Stream!OnThisConnection(c)' = Stream!OnThisConnection(c)
      BY <1>0, <1>3, <1>4, <3>1 DEF Stream!OnThisConnection, Joined
    <3>3. Stream!Owed(c)' = Stream!Owed(c)
      BY <1>3, <1>7 DEF Stream!Owed, Stream!Watches
    <3>4. x \in Stream!Stored
      BY <1>0, <1>8, <1>10, <2>0, <2>1 DEF Served
    <3>5. \A i \in 1..Len(got'[c]) : got'[c][i] \in Stream!Stored
      BY <1>0, <1>4, <1>8, <1>9, <2>0, <2>1, <3>4 DEF Served
    <3>6. \A i \in 1..Len(wire'[c]) : wire'[c][i] \in Stream!Stored
      BY <1>0, <1>4, <1>8, <1>10, <2>0, <2>1 DEF Served
    <3>7. base'[c] <= Len(got'[c])
      BY <1>0, <1>3, <1>4, <1>9, <3>0
    <3>8. /\ Stream!Owed(c)' \subseteq Stream!ToSet(Stream!OnThisConnection(c)')
          /\ Stream!IsInjective(Stream!OnThisConnection(c)')
      BY <1>3, <2>0, <2>1, <3>2, <3>3 DEF Served
    <3> QED
      BY <1>3, <1>7, <2>1, <3>5, <3>6, <3>7, <3>8 DEF Served, Stream!ToSet, Stream!IsInjective
  <2>2. CASE d # c
    <3>1. Stream!Owed(d)' = Stream!Owed(d)
      BY <1>3, <1>7 DEF Stream!Owed, Stream!Watches
    <3> QED
      BY <1>3, <1>4, <1>7, <2>0, <2>2, <3>1, ServedStays DEF Served
  <2> QED
    BY <2>1, <2>2
<1>12. SoleIsNumbered'
  BY <1>3 DEF StreamInv, SoleIsNumbered, Stream!Sole
<1>13. ASSUME NEW d \in Stream!SoundReaders PROVE InOrder(d)'
  <2>0. InOrder(d) /\ d \in Clients /\ Stream!Sole' = Stream!Sole /\ file' = file
    BY <1>3 DEF StreamInv, Stream!SoundReaders, Stream!Sole
  <2>1. CASE d = c
    <3>1. PICK l \in Nat : l = Len(file[Stream!Sole])
      BY SoleIsOne DEF StreamInv, StreamTypes
    <3>2. /\ \A i \in 1..n : g[i].seq = i
          /\ \A i \in 1..m : w[i].seq = n + i
          /\ n + m = l
      BY <1>0, <1>3, <1>8, <2>0, <2>1, <3>1 DEF InOrder
    <3>3. x.seq = n + 1
      BY <1>10, <3>2
    <3>4. \A i \in 1..(n + 1) : Append(g, x)[i].seq = i
      BY <1>9, <3>2, <3>3
    <3>5. \A i \in 1..(m - 1) : Tail(w)[i].seq = n + 1 + i
      <4> SUFFICES ASSUME NEW i \in 1..(m - 1) PROVE Tail(w)[i].seq = n + 1 + i
        OBVIOUS
      <4>1. Tail(w)[i] = w[i + 1] /\ i + 1 \in 1..m
        BY <1>10
      <4>2. w[i + 1].seq = n + (i + 1)
        BY <3>2, <4>1
      <4>3. n + (i + 1) = n + 1 + i
        OBVIOUS
      <4> QED
        BY <4>1, <4>2, <4>3
    <3>6. n + 1 <= l /\ n + 1 + (m - 1) = l
      BY <1>10, <3>2
    <3>7. Len(got'[c]) = n + 1 /\ Len(wire'[c]) = m - 1 /\ lastId'[c] = n + 1 /\ Len(file'[Stream!Sole]) = l
      BY <1>4, <1>9, <1>10, <2>0, <3>1, <3>3
    <3> QED
      BY <1>4, <2>0, <2>1, <3>4, <3>5, <3>6, <3>7 DEF InOrder
  <2>2. CASE d # c
    BY <1>3, <1>4, <2>0, <2>2 DEF InOrder
  <2> QED
    BY <2>1, <2>2
<1> QED
  BY <1>6, <1>11, <1>12, <1>13 DEF StreamInv, Stream!SoundReaders

LEMMA StreamInitially == Stream!Init => StreamInv
<1> SUFFICES ASSUME Stream!Init PROVE StreamInv
  OBVIOUS
<1>1. /\ file = [r \in Logs |-> <<>>] /\ counter = [h \in Hubs |-> [r \in Logs |-> 0]]
      /\ es = [c \in Clients |-> "connecting"] /\ lastId = [c \in Clients |-> 0]
      /\ since = lastId /\ base = lastId /\ wire = [c \in Clients |-> <<>>] /\ got = wire
  BY DEF Stream!Init
<1>2. StreamTypes
  BY <1>1 DEF StreamTypes
<1>3. SoleIsNumbered
  BY <1>1, SoleIsOne, StreamAssumption DEF SoleIsNumbered
<1>4. ASSUME NEW c \in Clients PROVE Served(c)
  BY <1>1 DEF Served
<1>5. ASSUME NEW c \in Stream!SoundReaders PROVE InOrder(c)
  BY <1>1, SoleIsOne DEF InOrder, Stream!SoundReaders
<1> QED
  BY <1>2, <1>3, <1>4, <1>5 DEF StreamInv

LEMMA StreamInvInductive == StreamInv /\ [Stream!Next]_streamVars => StreamInv'
<1> SUFFICES ASSUME StreamInv, [Stream!Next]_streamVars PROVE StreamInv'
  OBVIOUS
<1>1. ASSUME UNCHANGED <<file, counter, es, lastId, since, wire, got, base>> PROVE StreamInv'
  BY <1>1, StreamEnds DEF StreamInv, StreamTypes
<1>2. CASE UNCHANGED streamVars
  BY <1>1, <1>2 DEF streamVars
<1>3. CASE \E h \in Hubs, r \in Logs : Stream!Publish(h, r)
  BY <1>3, StreamPublish
<1>4. CASE \E h \in Hubs : Stream!Stop(h)
  BY <1>4, StreamStop
<1>5. CASE \E h \in Hubs : Stream!Start(h)
  BY <1>1, <1>5 DEF Stream!Start, Stream!fvars, Stream!cvars
<1>6. ASSUME NEW c \in Clients,
             \/ Stream!Connect(c) \/ Stream!Dispatch(c) \/ Stream!Break(c) \/ Stream!GiveUp(c) \/ Stream!Reopen(c)
      PROVE  StreamInv'
  BY <1>6, StreamConnect, StreamDispatch, StreamBreak, StreamReopen
<1> QED
  BY <1>2, <1>3, <1>4, <1>5, <1>6 DEF Stream!Next

LEMMA NumbersAre ==
    ASSUME NEW s \in Seq(Event)
    PROVE  /\ Stream!Numbers(s) \in Seq(Nat) /\ Len(Stream!Numbers(s)) = Len(s)
           /\ \A i \in 1..Len(s) : Stream!Numbers(s)[i] = s[i].seq
<1>1. DOMAIN s = 1..Len(s) /\ Len(s) \in Nat /\ \A i \in 1..Len(s) : s[i].seq \in Nat
  <2>1. DOMAIN s = 1..Len(s) /\ Len(s) \in Nat /\ \A i \in 1..Len(s) : s[i] \in Event
    BY LenProperties
  <2> QED
    BY <2>1 DEF Event
<1> QED
  BY <1>1 DEF Stream!Numbers

LEMMA NumbersGrow ==
    ASSUME NEW s \in Seq(Event), NEW e \in Event
    PROVE  Stream!Numbers(Append(s, e)) = Append(Stream!Numbers(s), e.seq)
<1>1. e.seq \in Nat
  BY DEF Event
<1>2. PICK n \in Nat : n = Len(s)
  OBVIOUS
<1>3. PICK t \in Seq(Event) : t = Append(s, e)
  <2>1. Append(s, e) \in Seq(Event)
    OBVIOUS
  <2> QED
    BY <2>1
<1>4. /\ Len(t) = n + 1 /\ t[n + 1] = e
      /\ \A i \in 1..(n + 1) : (i \in 1..n /\ t[i] = s[i]) \/ i = n + 1
  BY <1>2, <1>3
<1>5. PICK u \in Seq(Nat) : u = Stream!Numbers(s) /\ Len(u) = n /\ \A i \in 1..n : u[i] = s[i].seq
  BY <1>2, NumbersAre
<1>6. PICK v \in Seq(Nat) : v = Stream!Numbers(t) /\ Len(v) = n + 1 /\ \A i \in 1..(n + 1) : v[i] = t[i].seq
  BY <1>4, NumbersAre
<1>7. PICK y \in Seq(Nat) : /\ y = Append(u, e.seq) /\ Len(y) = n + 1 /\ y[n + 1] = e.seq
                            /\ \A i \in 1..n : y[i] = u[i]
  <2>1. PICK q \in Nat : q = e.seq
    BY <1>1
  <2>2. /\ Append(u, q) \in Seq(Nat) /\ Len(Append(u, q)) = Len(u) + 1 /\ Append(u, q)[Len(u) + 1] = q
        /\ \A i \in 1..Len(u) : Append(u, q)[i] = u[i]
    OBVIOUS
  <2> QED
    BY <1>5, <2>1, <2>2
<1>8. v = y
  <2>1. Len(v) = Len(y)
    BY <1>6, <1>7
  <2>2. ASSUME NEW i \in 1..Len(v) PROVE v[i] = y[i]
    <3>1. i \in 1..(n + 1)
      BY <1>6
    <3>2. CASE i = n + 1
      BY <1>4, <1>6, <1>7, <3>1, <3>2
    <3>3. CASE i \in 1..n
      <4>1. t[i] = s[i]
        BY <1>4, <3>1, <3>3
      <4>2. v[i] = s[i].seq /\ y[i] = s[i].seq
        BY <1>5, <1>6, <1>7, <3>1, <3>3, <4>1
      <4> QED
        BY <4>2
    <3> QED
      BY <1>4, <3>1, <3>2, <3>3
  <2> QED
    BY <2>1, <2>2, SeqEqual
<1> QED
  BY <1>3, <1>5, <1>6, <1>7, <1>8

\* A step of the stream is a step of the log its readers are promised, or is none to them.
LEMMA StreamStep ==
    StreamInv /\ [Stream!Next]_streamVars =>
      [Stream!Log!Next]_<<Stream!Numbers(file[Stream!Sole]),
                          [c \in Stream!SoundReaders |-> Stream!Numbers(got[c])]>>
<1> SUFFICES ASSUME StreamInv, [Stream!Next]_streamVars
             PROVE  [Stream!Log!Next]_<<Stream!Numbers(file[Stream!Sole]),
                          [c \in Stream!SoundReaders |-> Stream!Numbers(got[c])]>>
  OBVIOUS
<1>0. PICK l \in Logs : l = Stream!Sole /\ Stream!Sole' = l
  BY SoleIsOne DEF Stream!Sole
<1>1. Stream!SoundReaders' = Stream!SoundReaders
  BY DEF Stream!SoundReaders, Stream!Sole, Stream!Writers
<1>2. PICK f \in Seq(Event) : f = file[l]
  BY DEF StreamInv, StreamTypes
<1>3. ASSUME file'[l] = file[l], got' = got
      PROVE  UNCHANGED <<Stream!Numbers(file[Stream!Sole]),
                         [c \in Stream!SoundReaders |-> Stream!Numbers(got[c])]>>
  BY <1>0, <1>1, <1>3 DEF Stream!Numbers
<1>4. CASE UNCHANGED streamVars
  BY <1>3, <1>4 DEF streamVars
<1>5. ASSUME NEW h \in Hubs, NEW r \in Logs, Stream!Publish(h, r)
      PROVE  \/ Stream!Log!Next
             \/ UNCHANGED <<Stream!Numbers(file[Stream!Sole]),
                            [c \in Stream!SoundReaders |-> Stream!Numbers(got[c])]>>
  <2>1. CASE r = l
    <3>1. PICK n \in Nat : n = Stream!NextSeq(h, r) /\ n = Len(f) + 1
      BY <1>0, <1>2, <1>5, <2>1, NextSeqIs DEF StreamInv, Stream!Publish
    <3>2. PICK e \in Event : e = [run |-> r, at |-> Len(file[r]) + 1, seq |-> n, by |-> h] /\ e.seq = n
      <4> DEFINE e == [run |-> r, at |-> Len(file[r]) + 1, seq |-> n, by |-> h]
      <4>1. Len(file[r]) + 1 \in Nat
        BY <1>2, <2>1
      <4>2. e \in Event /\ e.seq = n
        BY <4>1 DEF Event
      <4> QED
        BY <4>2
    <3>3. file' = [file EXCEPT ![r] = Append(@, e)] /\ got' = got
      BY <1>5, <3>1, <3>2 DEF Stream!Publish
    <3>4. file'[l] = Append(f, e)
      BY <1>2, <2>1, <3>3 DEF StreamInv, StreamTypes
    <3>5. Stream!Numbers(Append(f, e)) = Append(Stream!Numbers(f), Len(Stream!Numbers(f)) + 1)
      BY <3>1, <3>2, NumbersGrow, NumbersAre
    <3>6. Stream!Log!Extend
      BY <1>0, <1>1, <1>2, <3>3, <3>4, <3>5 DEF Stream!Log!Extend, Stream!Numbers
    <3> QED
      BY <3>6 DEF Stream!Log!Next
  <2>2. CASE r # l
    <3>1. file'[l] = file[l] /\ got' = got
      BY <1>5, <2>2 DEF Stream!Publish, StreamInv, StreamTypes
    <3> QED
      BY <1>3, <3>1
  <2> QED
    BY <2>1, <2>2
<1>6. ASSUME NEW c \in Clients, Stream!Dispatch(c)
      PROVE  \/ Stream!Log!Next
             \/ UNCHANGED <<Stream!Numbers(file[Stream!Sole]),
                            [d \in Stream!SoundReaders |-> Stream!Numbers(got[d])]>>
  <2>1. file' = file /\ got' = [got EXCEPT ![c] = Append(@, Head(wire[c]))] /\ wire[c] # <<>>
        /\ wire[c] \in Seq(Event) /\ got[c] \in Seq(Event) /\ es[c] = "open"
    BY <1>6 DEF Stream!Dispatch, Stream!fvars, StreamInv, StreamTypes
  <2>2. CASE c \in Stream!SoundReaders
    <3>1. PICK g \in Seq(Event), w \in Seq(Event) : g = got[c] /\ w = wire[c]
      BY <2>1
    <3>2. PICK n \in Nat, m \in Nat : n = Len(g) /\ m = Len(w)
      OBVIOUS
    <3>3. Head(w) \in Event /\ Head(w) = w[1] /\ m # 0
      BY <2>1, <3>1, <3>2, HeadTailProperties, EmptySeq
    <3>4. PICK x \in Event : x = Head(w) /\ x = w[1]
      BY <3>3
    <3>5. InOrder(c)
      BY <2>2 DEF StreamInv
    <3>6. n + m = Len(f) /\ x.seq = n + 1
      <4>1. \A i \in 1..m : w[i].seq = n + i
        BY <1>0, <3>1, <3>2, <3>5 DEF InOrder
      <4>2. n + m = Len(f)
        BY <1>0, <1>2, <2>1, <3>1, <3>2, <3>5 DEF InOrder
      <4>3. 1 \in 1..m
        BY <3>3
      <4> QED
        BY <3>4, <4>1, <4>2, <4>3
    <3>7. n + 1 \in 1..Len(f) /\ f[n + 1].seq = n + 1
      <4>1. n + 1 \in 1..Len(f)
        BY <3>3, <3>6
      <4> QED
        BY <1>0, <1>2, <4>1 DEF StreamInv, SoleIsNumbered
    <3>8. /\ Len(Stream!Numbers(g)) = n /\ Stream!Numbers(f)[n + 1] = x.seq
          /\ Len(Stream!Numbers(g)) < Len(Stream!Numbers(f))
      BY <3>2, <3>6, <3>7, NumbersAre
    <3>9. Stream!Numbers(Append(g, x)) = Append(Stream!Numbers(g), Stream!Numbers(f)[Len(Stream!Numbers(g)) + 1])
      BY <3>8, NumbersGrow
    <3>10. ASSUME NEW d \in Stream!SoundReaders
           PROVE  Stream!Numbers(got'[d]) = IF d = c THEN Stream!Numbers(Append(g, x)) ELSE Stream!Numbers(got[d])
      <4>1. got'[d] = IF d = c THEN Append(g, x) ELSE got[d]
        BY <2>1, <3>1, <3>4 DEF StreamInv, StreamTypes, Stream!SoundReaders
      <4> QED
        BY <4>1
    <3>11. Stream!Log!See(c)
      <4> DEFINE Seen == [d \in Stream!SoundReaders |-> Stream!Numbers(got[d])]
      <4>1. Seen' = [Seen EXCEPT ![c] = Append(@, Stream!Numbers(f)[Len(@) + 1])]
        <5>1. Seen' = [d \in Stream!SoundReaders |-> Stream!Numbers(got'[d])]
          BY <1>1 DEF Stream!Numbers
        <5>2. Seen[c] = Stream!Numbers(g)
          BY <2>2, <3>1
        <5> QED
          BY <3>9, <3>10, <5>1, <5>2
      <4>2. Len(Seen[c]) < Len(Stream!Numbers(f))
        BY <2>2, <3>1, <3>8
      <4>3. UNCHANGED Stream!Numbers(file[Stream!Sole])
        BY <1>0, <2>1 DEF Stream!Numbers
      <4> HIDE DEF Seen
      <4>4. /\ Len(Seen[c]) < Len(Stream!Numbers(file[Stream!Sole]))
            /\ Seen' = [Seen EXCEPT ![c] = Append(@, Stream!Numbers(file[Stream!Sole])[Len(@) + 1])]
        BY <1>0, <1>2, <4>1, <4>2
      <4> QED
        BY <4>3, <4>4 DEF Stream!Log!See, Seen
    <3> QED
      BY <2>2, <3>11 DEF Stream!Log!Next
  <2>3. CASE c \notin Stream!SoundReaders
    <3>1. \A d \in Stream!SoundReaders : got'[d] = got[d]
      BY <2>1, <2>3 DEF StreamInv, StreamTypes, Stream!SoundReaders
    <3> QED
      <4>1. [d \in Stream!SoundReaders |-> Stream!Numbers(got[d])]'
            = [d \in Stream!SoundReaders |-> Stream!Numbers(got'[d])]
        BY <1>1 DEF Stream!Numbers
      <4>2. UNCHANGED [d \in Stream!SoundReaders |-> Stream!Numbers(got[d])]
        BY <3>1, <4>1
      <4>3. UNCHANGED Stream!Numbers(file[Stream!Sole])
        BY <1>0, <2>1 DEF Stream!Numbers
      <4> QED
        BY <4>2, <4>3
  <2> QED
    BY <2>2, <2>3
<1>7. ASSUME NEW c \in Clients, Stream!Reopen(c)
      PROVE  \/ Stream!Log!Next
             \/ UNCHANGED <<Stream!Numbers(file[Stream!Sole]),
                            [d \in Stream!SoundReaders |-> Stream!Numbers(got[d])]>>
  <2>1. file' = file /\ got' = [got EXCEPT ![c] = <<>>] /\ got \in [Clients -> Seq(Event)]
    BY <1>7 DEF Stream!Reopen, Stream!fvars, StreamInv, StreamTypes
  <2>2. Stream!Numbers(<<>>) = <<>>
    <3>1. <<>> \in Seq(Event) /\ Len(<<>>) = 0
      OBVIOUS
    <3>2. Stream!Numbers(<<>>) \in Seq(Nat) /\ Len(Stream!Numbers(<<>>)) = 0
      BY <3>1, NumbersAre
    <3> QED
      BY <3>2, EmptySeq
  <2>3. ASSUME NEW d \in Stream!SoundReaders
        PROVE  Stream!Numbers(got'[d]) = IF d = c THEN <<>> ELSE Stream!Numbers(got[d])
    <3>1. got'[d] = IF d = c THEN <<>> ELSE got[d]
      BY <2>1 DEF Stream!SoundReaders
    <3> QED
      BY <2>2, <3>1
  <2>4. CASE c \in Stream!SoundReaders
    <3>1. Stream!Log!StartOver(c)
      BY <1>0, <1>1, <2>1, <2>3 DEF Stream!Log!StartOver, Stream!Numbers
    <3> QED
      BY <2>4, <3>1 DEF Stream!Log!Next
  <2>5. CASE c \notin Stream!SoundReaders
    BY <1>0, <1>1, <2>1, <2>3, <2>5 DEF Stream!Numbers
  <2> QED
    BY <2>4, <2>5
<1>8. ASSUME NEW c \in Clients, Stream!Connect(c) \/ Stream!Break(c) \/ Stream!GiveUp(c)
      PROVE  file' = file /\ got' = got
  BY <1>8 DEF Stream!Connect, Stream!Break, Stream!GiveUp, Stream!fvars
<1>9. ASSUME NEW h \in Hubs, Stream!Stop(h) \/ Stream!Start(h)
      PROVE  file' = file /\ got' = got
  BY <1>9 DEF Stream!Stop, Stream!Start, Stream!fvars, Stream!cvars
<1> QED
  BY <1>3, <1>4, <1>5, <1>6, <1>7, <1>8, <1>9 DEF Stream!Next

LEMMA StreamLogInitially == Stream!Init => Stream!Log!Init
<1> SUFFICES ASSUME Stream!Init PROVE Stream!Log!Init
  OBVIOUS
<1>1. Stream!Numbers(<<>>) = <<>>
  <2>1. <<>> \in Seq(Event) /\ Len(<<>>) = 0
    OBVIOUS
  <2>2. Stream!Numbers(<<>>) \in Seq(Nat) /\ Len(Stream!Numbers(<<>>)) = 0
    BY <2>1, NumbersAre
  <2> QED
    BY <2>2, EmptySeq
<1>2. file = [r \in Logs |-> <<>>] /\ got = [c \in Clients |-> <<>>]
  BY DEF Stream!Init
<1>3. file[Stream!Sole] = <<>> /\ \A c \in Stream!SoundReaders : got[c] = <<>>
  BY <1>2, SoleIsOne DEF Stream!SoundReaders
<1> QED
  BY <1>1, <1>3 DEF Stream!Log!Init

-----------------------------------------------------------------------------
(* The five in one behaviour *)

WatchersInv == QueueInv /\ NamingInv /\ HeardInv /\ GuardInv /\ StreamInv

\* The invariants hold at first.
LEMMA WatchersInitially == Init => WatchersInv
<1> SUFFICES ASSUME Offline!Init, Naming!Init, Heard!Init, Guard!Init, Stream!Init PROVE WatchersInv
  BY DEF Init
<1>1. QueueInv
  BY QueueInit
<1>2. NamingInv
  BY WatchersAssumption
  DEF Naming!Init, NamingInv, Naming!TypeOK, Naming!States, RewriterHolds, DoneIsNamed,
      OnlyDeferred, OwnNameOnce, ReadAgain, Naming!JobLostOnlyInRewrite, Naming!Rewriting,
      Naming!Procs
<1>3. GuardInv
  BY DEF Guard!Init, GuardInv, Guard!StoppedIsRemembered, Guard!Stopped
<1>4. HeardInv
  BY HeardInitially
<1>5. StreamInv
  BY StreamInitially
<1> QED
  BY <1>1, <1>2, <1>3, <1>4, <1>5 DEF WatchersInv

\* A step is one of the component that is followed, and leaves the others.
LEMMA EachInTurn ==
  [Next]_vars =>
    /\ [Offline!Next]_offlineVars /\ [Naming!Next]_namingVars
    /\ [Heard!Next]_heardVars /\ [Guard!Next]_guardVars /\ [Stream!Next]_streamVars
  BY DEF Next, vars, ButStream, ButReaders, ButHeard, ButFilter, ButLogger, ButView, ButOffline,
     ButNaming, ButGuard

\* So every step preserves what is known of the five.
LEMMA WatchersAlways == Spec => []WatchersInv
<1>1. WatchersInv /\ [Next]_vars => WatchersInv'
  BY EachInTurn, QueueInvInductive, NamingInvInductive, HeardInvInductive, GuardInvInductive,
     StreamInvInductive DEF WatchersInv
<1> QED
  BY <1>1, WatchersInitially, PTL DEF Spec

\* A request the page was told is queued is still stored, or was started; a run is started twice
\* only where an answer was lost or two drains read it; and what is no run stays stored.
THEOREM QueueKeeps == Spec => []QueuedIsKept
<1>1. WatchersInv => QueuedIsKept
  BY DEF WatchersInv, QueueInv, QueuedIsKept
<1> QED
  BY <1>1, WatchersAlways, PTL

\* A run whose naming was deferred is named, on file, about to be put back, or was appended while
\* the queue was rewritten, which one process does at a time; none but deferred runs are named twice.
THEOREM NamesAreKept == Spec => []NoNameLost
<1>1. WatchersInv => NoNameLost
  <2>1. NamingInv => Naming!TwiceOnlyDeferred
    BY DEF NamingInv, OwnNameOnce, Naming!TwiceOnlyDeferred, Naming!TypeOK
  <2> QED
    BY <2>1 DEF WatchersInv, NamingInv, NoNameLost, Naming!NoNameLost
<1> QED
  BY <1>1, WatchersAlways, PTL

\* The hub is given the lines of a run as its own, or of one that was on beside it when both go
\* by the log adapter; that adapter tells each line once, and holds none of a run that is over;
\* the other adapters tell all their forms say, but for texts of cline that another one hushes.
THEOREM LinesAreOfTheRun == Spec => []LinesKeepTheirRun
<1>1. WatchersInv => LinesKeepTheirRun
  BY HeardSays DEF WatchersInv, LinesKeepTheirRun
<1> QED
  BY <1>1, WatchersAlways, PTL

\* A tree of processes the guard has stopped is among the paused ones, unless the guard itself
\* was started again.
THEOREM GuardRemembers == Spec => []Guard!StoppedIsRemembered
<1>1. WatchersInv => Guard!StoppedIsRemembered
  BY DEF WatchersInv, GuardInv
<1> QED
  BY <1>1, WatchersAlways, PTL

\* While a client is connected it was sent, or is about to be, each once, all its hub published
\* above the Last-Event-ID it came with; and a client of the one run with one writer sees what
\* EventLog promises: its events by number from 1, none left out, doubled or out of order.
THEOREM StreamAlwaysALog == Spec => StreamIsALog
<1>1. Init => Stream!Log!Init
  BY StreamLogInitially DEF Init
<1>2. WatchersInv /\ [Next]_vars =>
        [Stream!Log!Next]_<<Stream!Numbers(file[Stream!Sole]),
                            [c \in Stream!SoundReaders |-> Stream!Numbers(got[c])]>>
  BY EachInTurn, StreamStep DEF WatchersInv
<1>3. WatchersInv => (part = "stream" => Stream!NothingMissedAbove)
  BY DEF WatchersInv, StreamInv, Served, Stream!NothingMissedAbove
<1> QED
  BY <1>1, <1>2, <1>3, WatchersAlways, PTL
  DEF Spec, StreamIsALog, Stream!IsAnEventLog, Stream!Log!Spec
=============================================================================
