---------------------------- MODULE HelpersProofs ----------------------------
(***************************************************************************)
(* Proofs about eleven of the helpers, for any number of daemons, calls,   *)
(* users, pids, readers, clients, processes and ids: the Go daemon's       *)
(* process, the background jobs of compose, the hot cache, the kanban      *)
(* board, the hub daemon that clients ask over a socket, the writers of    *)
(* state.json, the health of agents, the breaker of triage, the line of    *)
(* agents, the thread between an agent and its host and the feedback file. *)
(* What is folded over a sequence is proved by an induction on its length, *)
(* with a set of lengths where the library's theorems have an operator.    *)
(* None of the properties is inductive as it stands: each comes with an    *)
(* invariant that says what the component still remembers of how it got    *)
(* here. A step of a behaviour is a step of one component and leaves the   *)
(* others, so each invariant is proved of its own component.               *)
(***************************************************************************)
EXTENDS MC_Helpers, SequencesExt, SequenceTheorems, FiniteSetTheorems, WellFoundedInduction,
        TLAPS

-----------------------------------------------------------------------------
(* The Go daemon's process *)

\* The types that matter to it.
AtdTypes == /\ st \in [Atds -> {"off", "checked", "bound", "up", "deaf", "dead"}]
         /\ rivals \in [Atds -> BOOLEAN]

Alone(d) == Atd!Alive(d) /\ ~rivals[d]

\* A daemon without a rival is the only one alive, and finds what it left.
AloneOwns ==
    \A d \in Atds : Alone(d) =>
        /\ \A e \in Atds : Atd!Alive(e) => e = d
        /\ st[d] = "checked" => sock = Atd!None
        /\ st[d] \in {"bound", "up"} => sock = d
        /\ st[d] = "up" => pidFile = d

AtdInv == AtdTypes /\ AloneOwns

\* Every step preserves it.
LEMMA AtdInvInductive == AtdInv /\ [Atd!Next]_atdVars => AtdInv'
<1> SUFFICES ASSUME AtdInv, [Atd!Next]_atdVars PROVE AtdInv'
  OBVIOUS
<1> USE DEF AtdInv, AtdTypes, AloneOwns, Alone, Atd!Alive
<1>1. CASE UNCHANGED atdVars
  BY <1>1 DEF atdVars
<1>2. ASSUME NEW d \in Atds, Atd!Start(d) PROVE AtdInv'
  <2>1. AtdTypes'
    BY <1>2 DEF Atd!Start
  <2>2. ASSUME NEW e \in Atds, Alone(e)' PROVE e = d
    BY <1>2, <2>2 DEF Atd!Start
  <2>3. Alone(d)' => \A f \in Atds : Atd!Alive(f)' => f = d
    BY <1>2 DEF Atd!Start
  <2>4. st'[d] = "checked" /\ sock' = Atd!None
    BY <1>2 DEF Atd!Start
  <2> QED
    BY <2>1, <2>2, <2>3, <2>4
<1>3. ASSUME NEW d \in Atds, Atd!Bind(d) PROVE AtdInv'
  BY <1>3 DEF Atd!Bind
<1>4. ASSUME NEW d \in Atds, Atd!Serve(d) PROVE AtdInv'
  BY <1>4 DEF Atd!Serve
<1>5. ASSUME NEW d \in Atds, Atd!IdleExit(d) PROVE AtdInv'
  BY <1>5 DEF Atd!IdleExit
<1>6. ASSUME NEW d \in Atds, Atd!Exit(d) PROVE AtdInv'
  BY <1>6 DEF Atd!Exit, Atd!Listens
<1>7. ASSUME NEW c \in Callers, Atd!Connect(c) \/ Atd!GiveUp(c) PROVE AtdInv'
  BY <1>7 DEF Atd!Connect, Atd!GiveUp
<1>8. ASSUME NEW c \in Callers, Atd!Handle(c) PROVE AtdInv'
  BY <1>8 DEF Atd!Handle
<1>9. ASSUME NEW c \in Callers, Atd!Get(c) PROVE AtdInv'
  BY <1>9 DEF Atd!Get
<1> QED
  BY <1>1, <1>2, <1>3, <1>4, <1>5, <1>6, <1>7, <1>8, <1>9 DEF Atd!Next

-----------------------------------------------------------------------------
(* Background jobs *)

Live(p) == proc[p] \in {"job", "ending"}

\* One start at a time; before its spawn no job is alive, after it only its own.
StartsAlone ==
  /\ \A u, v \in Jobs!Starting : u = v
  /\ \A u \in Starters : userPc[u] = "spawn" => \A p \in JobPids : ~Live(p)
  /\ \A u \in Starters :
       userPc[u] \in {"open", "write"} => \A p \in JobPids : Live(p) => p = mine[u]
  /\ Jobs!Starting = {} => \A p \in JobPids : Live(p) => p = record

JobsInv == Jobs!TypeOK /\ (~careless => StartsAlone)

\* The steps leave every variable with its type.
LEMMA JobsTypeInductive == Jobs!TypeOK /\ [Jobs!Next]_jobVars => Jobs!TypeOK'
<1> SUFFICES ASSUME Jobs!TypeOK, [Jobs!Next]_jobVars PROVE Jobs!TypeOK'
  OBVIOUS
<1> USE DEF Jobs!TypeOK, Jobs!Idle, Jobs!Step
<1>1. CASE UNCHANGED jobVars
  BY <1>1 DEF jobVars
<1>2. ASSUME NEW u \in Starters, Jobs!StartRefused(u) \/ Jobs!StartAllowed(u) PROVE Jobs!TypeOK'
  BY <1>2 DEF Jobs!StartRefused, Jobs!StartAllowed
<1>21. ASSUME NEW u \in Starters, Jobs!Spawn(u) PROVE Jobs!TypeOK'
  BY <1>21 DEF Jobs!Spawn
<1>3. ASSUME NEW u \in Starters, Jobs!OpenRecord(u) \/ Jobs!WriteRecord(u) \/ Jobs!StarterDies(u)
      PROVE Jobs!TypeOK'
  BY <1>3 DEF Jobs!OpenRecord, Jobs!WriteRecord, Jobs!StarterDies
<1>4. ASSUME NEW u \in Starters, Jobs!StopSignals(u) PROVE Jobs!TypeOK'
  <2>1. proc' \in [JobPids -> {"free", "job", "ending", "other"}]
    BY <1>4 DEF Jobs!StopSignals, Jobs!AfterSignal
  <2> QED
    BY <1>4, <2>1 DEF Jobs!StopSignals
<1>5. ASSUME NEW u \in Starters, NEW how \in {"term", "kill"}, Jobs!StopReads(u, how)
      PROVE Jobs!TypeOK'
  BY <1>5 DEF Jobs!StopReads
<1>6. ASSUME NEW p \in JobPids, Jobs!Exits(p) \/ Jobs!Reused(p) PROVE Jobs!TypeOK'
  BY <1>6 DEF Jobs!Exits, Jobs!Reused
<1> QED
  BY <1>1, <1>2, <1>21, <1>3, <1>4, <1>5, <1>6 DEF Jobs!Next

\* Every step preserves the strengthened invariant.
LEMMA JobsInvInductive == JobsInv /\ [Jobs!Next]_jobVars => JobsInv'
<1> SUFFICES ASSUME JobsInv, [Jobs!Next]_jobVars, ~careless' PROVE StartsAlone'
  BY JobsTypeInductive DEF JobsInv
<1>0. Jobs!TypeOK /\ Jobs!TypeOK'
  BY JobsTypeInductive DEF JobsInv
<1>1. CASE UNCHANGED jobVars
  BY <1>1 DEF jobVars, JobsInv, StartsAlone, Live, Jobs!Starting
<1>2. ASSUME NEW u \in Starters, Jobs!StartRefused(u) PROVE StartsAlone'
  BY <1>0, <1>2
     DEF Jobs!StartRefused, JobsInv, StartsAlone, Live, Jobs!Starting, Jobs!Step, Jobs!Idle,
       Jobs!TypeOK
<1>3. ASSUME NEW u \in Starters, Jobs!StartAllowed(u) PROVE StartsAlone'
  <2>1. ~careless /\ Jobs!Starting = {} /\ StartsAlone
    BY <1>3 DEF Jobs!StartAllowed, JobsInv
  <2>2. \A p \in JobPids : ~Live(p)
    BY <1>0, <1>3, <2>1 DEF Jobs!StartAllowed, Jobs!AliveJob, StartsAlone, Live, Jobs!TypeOK
  <2>3. Jobs!Starting' = {u} /\ userPc'[u] = "spawn" /\ \A p \in JobPids : ~Live(p)'
    BY <1>0, <1>3, <2>1, <2>2 DEF Jobs!StartAllowed, Jobs!Starting, Jobs!Step, Live, Jobs!TypeOK
  <2> QED
    BY <2>3 DEF StartsAlone, Jobs!Starting
<1>4. ASSUME NEW u \in Starters, Jobs!Spawn(u) PROVE StartsAlone'
  <2>1. ~careless /\ userPc[u] = "spawn" /\ StartsAlone /\ u \in Jobs!Starting
    BY <1>4 DEF Jobs!Spawn, Jobs!Step, JobsInv, Jobs!Starting
  <2>2. userPc' = [userPc EXCEPT ![u] = "open"] /\ Jobs!Starting' = Jobs!Starting
    BY <1>0, <1>4, <2>1 DEF Jobs!Spawn, Jobs!Step, Jobs!Starting, Jobs!TypeOK
  <2>3. \A v \in Jobs!Starting : v = u
    BY <2>1 DEF StartsAlone
  <2>4. \A p \in JobPids : Live(p)' => p = mine'[u]
    BY <1>0, <1>4, <2>1 DEF Jobs!Spawn, StartsAlone, Live, Jobs!TypeOK
  <2>5. \A v \in Starters : userPc'[v] \in {"spawn", "open", "write"} => v = u
    BY <2>2, <2>3 DEF Jobs!Starting
  <2>6. userPc'[u] = "open" /\ Jobs!Starting' # {}
    BY <1>0, <2>1, <2>2 DEF Jobs!TypeOK
  <2> QED
    BY <2>2, <2>3, <2>4, <2>5, <2>6 DEF StartsAlone
<1>5. ASSUME NEW u \in Starters, Jobs!OpenRecord(u) PROVE StartsAlone'
  <2>1. ~careless /\ userPc[u] = "open" /\ StartsAlone /\ u \in Jobs!Starting
    BY <1>5 DEF Jobs!OpenRecord, Jobs!Step, JobsInv, Jobs!Starting
  <2>2. userPc' = [userPc EXCEPT ![u] = "write"] /\ Jobs!Starting' = Jobs!Starting
    BY <1>0, <1>5, <2>1 DEF Jobs!OpenRecord, Jobs!Step, Jobs!Starting, Jobs!TypeOK
  <2>3. \A v \in Starters : userPc'[v] \in {"spawn", "open", "write"} => v = u
    BY <2>1, <2>2 DEF Jobs!Starting, StartsAlone
  <2>4. \A p \in JobPids : Live(p)' => p = mine'[u]
    BY <1>5, <2>1 DEF Jobs!OpenRecord, StartsAlone, Live
  <2>5. userPc'[u] = "write"
    BY <1>0, <2>2 DEF Jobs!TypeOK
  <2> QED
    BY <2>1, <2>2, <2>3, <2>4, <2>5 DEF StartsAlone
<1>6. ASSUME NEW u \in Starters, Jobs!WriteRecord(u) PROVE StartsAlone'
  <2>1. ~careless /\ userPc[u] = "write" /\ StartsAlone /\ u \in Jobs!Starting
    BY <1>6 DEF Jobs!WriteRecord, Jobs!Step, JobsInv, Jobs!Starting
  <2>2. userPc' = [userPc EXCEPT ![u] = "done"] /\ Jobs!Starting' = {}
    BY <1>0, <1>6, <2>1 DEF Jobs!WriteRecord, Jobs!Step, Jobs!Starting, StartsAlone, Jobs!TypeOK
  <2>3. \A p \in JobPids : Live(p)' => p = record'
    BY <1>6, <2>1 DEF Jobs!WriteRecord, StartsAlone, Live
  <2> QED
    BY <2>2, <2>3 DEF StartsAlone, Jobs!Starting
<1>7. ASSUME NEW u \in Starters, Jobs!StarterDies(u) PROVE FALSE
  BY <1>7 DEF Jobs!StarterDies
<1>8. ASSUME NEW u \in Starters, Jobs!StopSignals(u) PROVE StartsAlone'
  <2>1. ~careless /\ StartsAlone /\ UNCHANGED <<record, mine>>
    BY <1>8 DEF Jobs!StopSignals, JobsInv
  <2>2. userPc' = [userPc EXCEPT ![u] = "done"] /\ userPc[u] \in {"term", "kill"}
    BY <1>8 DEF Jobs!StopSignals, Jobs!Step
  <2>3. Jobs!Starting' = Jobs!Starting /\ \A v \in Jobs!Starting : userPc'[v] = userPc[v]
    BY <1>0, <2>2 DEF Jobs!Starting, Jobs!TypeOK
  <2>4. \A p \in JobPids : Live(p)' => Live(p)
    BY <1>0, <1>8 DEF Jobs!StopSignals, Jobs!AfterSignal, Live, Jobs!TypeOK
  <2> QED
    BY <2>1, <2>3, <2>4 DEF StartsAlone, Jobs!Starting
<1>9. ASSUME NEW u \in Starters, NEW how \in {"term", "kill"}, Jobs!StopReads(u, how)
      PROVE StartsAlone'
  <2>1. ~careless /\ StartsAlone /\ UNCHANGED <<record, proc>>
    BY <1>9 DEF Jobs!StopReads, JobsInv
  <2>2. /\ userPc' = [userPc EXCEPT ![u] = how] /\ userPc[u] \in Jobs!Idle
        /\ mine' = [mine EXCEPT ![u] = record]
    BY <1>9 DEF Jobs!StopReads, Jobs!Step
  <2>3. /\ Jobs!Starting' = Jobs!Starting
        /\ \A v \in Jobs!Starting : userPc'[v] = userPc[v] /\ mine'[v] = mine[v]
    BY <1>0, <2>2 DEF Jobs!Starting, Jobs!TypeOK, Jobs!Idle
  <2> QED
    BY <2>1, <2>3 DEF StartsAlone, Jobs!Starting, Live
<1>10. ASSUME NEW p \in JobPids, Jobs!Exits(p) \/ Jobs!Reused(p) PROVE StartsAlone'
  <2>1. ~careless /\ StartsAlone /\ UNCHANGED <<record, userPc, mine>>
    BY <1>10 DEF Jobs!Exits, Jobs!Reused, JobsInv
  <2>2. \A q \in JobPids : Live(q)' => Live(q)
    BY <1>0, <1>10 DEF Jobs!Exits, Jobs!Reused, Live, Jobs!TypeOK
  <2> QED
    BY <2>1, <2>2 DEF StartsAlone, Jobs!Starting
<1> QED
  BY <1>1, <1>2, <1>3, <1>4, <1>5, <1>6, <1>7, <1>8, <1>9, <1>10 DEF Jobs!Next

-----------------------------------------------------------------------------
(* The hot cache *)

\* The path whose signature answers for source i.
Mark(i) == IF k = "bins" THEN "bin" ELSE Cache!Sources[i]

\* It is there, and was last changed before time t.
Settled(i, t) == disk[Mark(i)].v # 0 /\ disk[Mark(i)].at < t

\* A change of a source is still to be noticed, or never will be.
Covered == Cache!Range(Cache!Sources) \cap (events \cup unnoticed) # {}

\* The signatures of a request, a request, the stored entry.
Signatures == Seq({<<"absent">>} \cup (Nat \X Nat))

Reading == [pc : {"idle", "sign", "lock", "read", "store"}, sigs : Signatures, vals : Seq(Nat),
            readAt : Nat]

Entry == [has : BOOLEAN, vals : Seq(Nat), sigs : Signatures, watchable : BOOLEAN, dirty : BOOLEAN,
          readAt : Nat]

\* What is known of a path.
Path == [v : Nat, size : Nat, at : Nat]

USE DEF Path

\* The types, and that nothing was read later than now.
CacheTypes ==
  /\ disk \in [Cache!Files \cup Cache!Dirs -> Path]
  /\ clock \in Nat /\ writes \in Nat /\ k \in CacheKinds
  /\ entry \in Entry
  /\ rd \in [Connections -> Reading]
  /\ entry.readAt <= clock /\ \A r \in Connections : rd[r].readAt <= clock
  /\ events \subseteq Cache!Range(Cache!Sources)

\* What was read of the sources: how much of it, under the mutex, and that it is what they
\* hold unless a change is covered, or the change would show in a later mark.
ReadOf(r) ==
  /\ rd[r].pc \in {"read", "store"} <=> mu = r
  /\ rd[r].pc \in {"idle", "sign", "lock"} => rd[r].vals = <<>>
  /\ rd[r].pc \in {"idle", "sign"} => Len(rd[r].sigs) < Len(Cache!Sources)
  /\ rd[r].pc \in {"read", "store"} => 
       /\ \A i \in 1..Len(rd[r].vals) :
            /\ Covered \/ rd[r].vals[i] = Cache!Content(Cache!Sources[i])
            /\ Settled(i, rd[r].readAt) => rd[r].vals[i] = Cache!Content(Cache!Sources[i])
  /\ Len(rd[r].vals) <= Len(Cache!Sources)
  /\ rd[r].pc = "read" => Len(rd[r].vals) < Len(Cache!Sources)
  /\ rd[r].pc = "store" => Len(rd[r].vals) = Len(Cache!Sources)

ReadSoFar == \A r \in Connections : ReadOf(r)

\* The same of the entry: unless it is dirty or being replaced.
Stored ==
  entry.has =>
    /\ Len(entry.vals) = Len(Cache!Sources)
    /\ \A i \in 1..Len(entry.vals) :
         /\ mu = "none" /\ ~entry.dirty /\ ~Covered =>
              entry.vals[i] = Cache!Content(Cache!Sources[i])
         /\ Settled(i, entry.readAt) => entry.vals[i] = Cache!Content(Cache!Sources[i])

\* The inductive invariant of the cache.
CacheInv == CacheTypes /\ ReadSoFar /\ Stored

\* What the types say of the entry and of one request.
LEMMA CacheFields ==
  ASSUME CacheTypes
  PROVE  /\ k \in CacheKinds /\ clock \in Nat
         /\ entry \in Entry /\ entry.vals \in Seq(Nat) /\ entry.has \in BOOLEAN
                /\ entry.readAt \in Nat
         /\ Len(entry.vals) \in Nat /\ entry.readAt <= clock
         /\ \A r \in Connections :
              /\ rd[r] \in Reading /\ rd[r].vals \in Seq(Nat) /\ rd[r].sigs \in Signatures
              /\ rd[r].readAt \in Nat /\ rd[r].readAt <= clock
              /\ Len(rd[r].vals) \in Nat /\ Len(rd[r].sigs) \in Nat
BY DEF CacheTypes, Entry, Reading, Signatures

\* The paths of a kind: files are signed by themselves, a binary by its directory.
LEMMA CachePaths ==
  ASSUME k \in CacheKinds
  PROVE  /\ Cache!Sources \in Seq(Cache!Files) /\ Len(Cache!Sources) \in Nat \ {0}
         /\ Len(Cache!Signed) = Len(Cache!Sources)
                /\ Cache!Signed \in Seq(Cache!Files \cup Cache!Dirs)
         /\ DOMAIN Cache!Sources = 1..Len(Cache!Sources)
         /\ DOMAIN Cache!Signed = 1..Len(Cache!Sources)
         /\ \A i \in 1..Len(Cache!Sources) :
              /\ Cache!Sources[i] \in Cache!Files /\ Cache!Sources[i] \in Cache!Range(Cache!Sources)
              /\ Cache!Signed[i] = Mark(i) /\ Mark(i) \in Cache!Files \cup Cache!Dirs
              /\ k = "bins" => Cache!Sources[i] = "tool"
              /\ k # "bins" => Cache!Sources[i] # "tool"
         /\ Cache!Watches \in Cache!Dirs /\ (k = "bins" => Cache!Watches = "bin")
         /\ k # "bins" => Cache!Watches = "at"
         /\ \A p \in Cache!Range(Cache!Sources) :
              \E i \in 1..Len(Cache!Sources) : p = Cache!Sources[i]
<1>1. CASE k = "state"
  <2>1. Cache!Signed = <<"state.json">> /\ Cache!Sources = <<"state.json">>
    BY <1>1 DEF Cache!Sources, Cache!Signed
  <2> QED
    BY <1>1, <2>1 DEF Mark, Cache!Files, Cache!Dirs, Cache!Range, Cache!Watches
<1>2. CASE k = "config"
  <2>1. Cache!Signed = <<"config.json", "config.json.hmac">>
        /\ Cache!Sources = <<"config.json", "config.json.hmac">>
    BY <1>2 DEF Cache!Sources, Cache!Signed
  <2> QED
    BY <1>2, <2>1 DEF Mark, Cache!Files, Cache!Dirs, Cache!Range, Cache!Watches
<1>3. CASE k = "bins"
  <2>1. Cache!Signed = <<"bin">> /\ Cache!Sources = <<"tool">>
    BY <1>3 DEF Cache!Sources, Cache!Signed
  <2> QED
    BY <1>3, <2>1 DEF Mark, Cache!Files, Cache!Dirs, Cache!Range, Cache!Watches
<1> QED
  BY <1>1, <1>2, <1>3, HelpersAssumption

\* What a change of the files does: it is covered, and marks the sources it touches.
Marks ==
  /\ UNCHANGED <<clock, watched, k, entry, mu, rd>>
  /\ Covered' /\ events' \subseteq Cache!Range(Cache!Sources)
  /\ disk' \in [Cache!Files \cup Cache!Dirs -> Path] /\ writes' \in Nat
  /\ \A i \in 1..Len(Cache!Sources), t \in Nat : t <= clock /\ Settled(i, t)' =>
       Settled(i, t) /\ Cache!Content(Cache!Sources[i])' = Cache!Content(Cache!Sources[i])

\* New contents, no contents, a file made or removed: all of them mark their sources.
LEMMA CachePut ==
  ASSUME CacheTypes, NEW p \in Cache!Files, NEW v \in Nat, Cache!Put(p, v)
  PROVE  Marks
<1> DEFINE new == [v |-> v, size |-> Cache!SizeOf(v), at |-> clock]
           par == Cache!Parent[p]
<1>1. /\ UNCHANGED <<clock, watched, k, entry, mu, rd>> /\ writes' = writes + 1
      /\ p \in Cache!Range(Cache!Sources)
      /\ disk' = [disk EXCEPT ![p] = new,
                             ![par].at = IF (v = 0) # (disk[p].v = 0) THEN clock ELSE @]
      /\ (events' = events \cup {p} /\ UNCHANGED unnoticed)
           \/ (unnoticed' = unnoticed \cup {p} /\ UNCHANGED events)
  BY DEF Cache!Put, Cache!Notify, Cache!cacheVars, Cache!Absent
<1>2. /\ par \in Cache!Dirs /\ par # p /\ par \notin Cache!Files /\ (p = "tool" => par = "bin")
  BY DEF Cache!Parent, Cache!Files, Cache!Dirs
<1>3. new \in Path
  BY CacheFields DEF CacheTypes, Cache!SizeOf, Cache!Empty
<1> HIDE DEF new, par
<1>4. disk' \in [Cache!Files \cup Cache!Dirs -> Path]
  <2>1. clock \in Nat /\ \A d \in Cache!Files \cup Cache!Dirs : disk[d] \in Path
    BY CacheFields DEF CacheTypes
  <2>2. DOMAIN disk' = Cache!Files \cup Cache!Dirs /\ disk' = [d \in DOMAIN disk' |-> disk'[d]]
    BY CacheFields, <1>1 DEF CacheTypes
  <2>3. ASSUME NEW d \in Cache!Files \cup Cache!Dirs
        PROVE disk'[d] \in Path
    <3>1. disk'[d] = IF d = par
                     THEN [disk[d] EXCEPT !.at = IF (v = 0) # (disk[p].v = 0) THEN clock ELSE @]
                     ELSE IF d = p THEN new ELSE disk[d]
      BY CacheFields, <1>1, <1>2 DEF CacheTypes
    <3> QED
      BY <1>3, <2>1, <3>1
  <2> QED
    BY <2>2, <2>3
<1>5. Covered' /\ events' \subseteq Cache!Range(Cache!Sources)
  <2>1. UNCHANGED Cache!Sources
    BY <1>1 DEF Cache!Sources, Cache!Signed
  <2> QED
    BY CacheFields, <1>1, <2>1 DEF Covered, CacheTypes
<1>6. ASSUME NEW i \in 1..Len(Cache!Sources), NEW t \in Nat, t <= clock, Settled(i, t)'
      PROVE  Settled(i, t) /\ Cache!Content(Cache!Sources[i])' = Cache!Content(Cache!Sources[i])
  <2>1. /\ Cache!Sources[i] \in Cache!Files /\ Mark(i) \in Cache!Files \cup Cache!Dirs
        /\ k = "bins" => Cache!Sources[i] = "tool"
        /\ k # "bins" => Cache!Sources[i] # "tool"
    BY CacheFields, CachePaths DEF CacheTypes
  <2>2. UNCHANGED <<Cache!Sources[i], Mark(i)>>
    BY <1>1 DEF Cache!Sources, Cache!Signed, Mark
  <2>3. disk'[Mark(i)].v # 0 /\ disk'[Mark(i)].at < t
    BY <1>6, <2>2 DEF Settled
  <2>4. clock \in Nat /\ \A d \in Cache!Files \cup Cache!Dirs : disk[d] \in Path
    BY CacheFields DEF CacheTypes
  <2>5. \A d \in Cache!Files : d # p => disk'[d] = disk[d]
    BY CacheFields, <1>1, <1>2 DEF CacheTypes
  <2>6. disk'[p] = new /\ new.v = v /\ new.at = clock
    BY CacheFields, <1>1, <1>2 DEF CacheTypes, new
  <2>7. /\ disk'[par].v = disk[par].v
        /\ disk'[par].at = IF (v = 0) # (disk[p].v = 0) THEN clock ELSE disk[par].at
    BY CacheFields, <1>1, <1>2, <2>4 DEF CacheTypes
  <2>8. CASE k = "bins"
    <3>1. p = "tool" /\ Mark(i) = par /\ Cache!Sources[i] = p
      BY CacheFields, <1>1, <1>2, <2>1, <2>8, CachePaths DEF CacheTypes, Mark
    <3>2. ~((v = 0) # (disk[p].v = 0))
      BY <1>6, <2>3, <2>4, <2>7, <3>1
    <3> QED
      BY <1>2, <2>2, <2>3, <2>6, <2>7, <3>1, <3>2 DEF Settled, Cache!Content, Cache!Absent
  <2>9. CASE k # "bins"
    <3>1. Mark(i) = Cache!Sources[i]
      BY <2>9 DEF Mark
    <3>2. Cache!Sources[i] # p
      BY <1>6, <2>3, <2>4, <2>6, <3>1
    <3> QED
      BY <2>1, <2>2, <2>3, <2>5, <2>9, <3>1, <3>2 DEF Settled, Cache!Content
  <2> QED
    BY <2>8, <2>9
<1>7. writes' \in Nat
  BY CacheFields, <1>1 DEF CacheTypes
<1> QED
  BY <1>1, <1>4, <1>5, <1>6, <1>7 DEF Marks

\* So does a directory made again, whose files are gone.
LEMMA CacheRecreate ==
  ASSUME CacheTypes, NEW d \in Cache!Dirs, Cache!Recreate(d)
  PROVE  Marks
<1>1. /\ UNCHANGED <<clock, watched, k, entry, mu, rd>> /\ writes' = writes + 1
      /\ d = Cache!Watches
      /\ disk' = [p \in Cache!Files \cup Cache!Dirs |->
                    IF p \in Cache!Range(Cache!Sources) THEN [v |-> 0, size |-> 0, at |-> 0]
                    ELSE IF p = d THEN [v |-> 2, size |-> 0, at |-> clock] ELSE disk[p]]
      /\ (events' = events \cup Cache!Range(Cache!Sources) /\ UNCHANGED unnoticed)
           \/ (unnoticed' = unnoticed \cup Cache!Range(Cache!Sources) /\ UNCHANGED events)
  BY DEF Cache!Recreate, Cache!Notify, Cache!cacheVars, Cache!Absent
<1>2. disk' \in [Cache!Files \cup Cache!Dirs -> Path]
  BY CacheFields, <1>1 DEF CacheTypes
<1>3. Covered' /\ events' \subseteq Cache!Range(Cache!Sources)
  <2>1. UNCHANGED Cache!Sources
    BY <1>1 DEF Cache!Sources, Cache!Signed
  <2>2. Cache!Range(Cache!Sources) # {}
    <3>1. k \in CacheKinds
      BY CacheFields DEF CacheTypes
    <3>2. 1 \in 1..Len(Cache!Sources)
      BY <3>1, CachePaths
    <3> QED
      BY <3>1, <3>2, CachePaths
  <2> QED
    BY CacheFields, <1>1, <2>1, <2>2 DEF Covered, CacheTypes
<1>4. ASSUME NEW i \in 1..Len(Cache!Sources), NEW t \in Nat, t <= clock, Settled(i, t)' PROVE FALSE
  <2>1. /\ Mark(i) \in Cache!Files \cup Cache!Dirs /\ Cache!Sources[i] \in Cache!Range(Cache!Sources)
        /\ k = "bins" => d = "bin" /\ "bin" \notin Cache!Range(Cache!Sources)
    BY CacheFields, <1>1, CachePaths DEF CacheTypes, Cache!Files
  <2>2. UNCHANGED Mark(i)
    BY <1>1 DEF Cache!Sources, Cache!Signed, Mark
  <2>3. disk'[Mark(i)].v # 0 /\ disk'[Mark(i)].at < t /\ clock \in Nat
    BY CacheFields, <1>4, <2>2 DEF Settled, CacheTypes
  <2>4. CASE k = "bins"
    BY <1>1, <1>4, <2>1, <2>3, <2>4 DEF Mark
  <2>5. CASE k # "bins"
    BY <1>1, <2>1, <2>3, <2>5 DEF Mark
  <2> QED
    BY <2>4, <2>5
<1>5. writes' \in Nat
  BY CacheFields, <1>1 DEF CacheTypes
<1> QED
  BY <1>1, <1>2, <1>3, <1>4, <1>5 DEF Marks

\* A change of the files preserves the invariant.
LEMMA CacheMarked == ASSUME CacheInv, Marks PROVE CacheInv'
<1>1. UNCHANGED Cache!Sources
  BY DEF Marks, Cache!Sources, Cache!Signed
<1>2. CacheTypes'
  BY CacheFields, <1>1 DEF CacheInv, CacheTypes, Marks
<1>3. ReadSoFar'
  <2> SUFFICES ASSUME NEW r \in Connections, rd[r].pc \in {"read", "store"},
                      NEW i \in 1..Len(rd[r].vals), Settled(i, rd[r].readAt)'
               PROVE  rd[r].vals[i] = Cache!Content(Cache!Sources[i])'
    BY <1>1 DEF CacheInv, ReadSoFar, ReadOf, Marks
  <2>1. i \in 1..Len(Cache!Sources) /\ rd[r].readAt \in Nat /\ rd[r].readAt <= clock
    <3>1. rd[r].pc \in {"read", "store"} => i \in 1..Len(Cache!Sources)
      <4>1. Len(rd[r].vals) <= Len(Cache!Sources) /\ i \in 1..Len(rd[r].vals)
        BY DEF CacheInv, ReadSoFar, ReadOf
      <4>2. Len(rd[r].vals) \in Nat /\ Len(Cache!Sources) \in Nat
        BY CacheFields, CachePaths DEF CacheInv
      <4> QED
        BY <4>1, <4>2
    <3> QED
      BY <3>1, CacheFields DEF CacheInv
  <2>2. /\ Settled(i, rd[r].readAt)
        /\ Cache!Content(Cache!Sources[i])' = Cache!Content(Cache!Sources[i])
    BY <2>1 DEF Marks, Settled
  <2> QED
    BY <2>2 DEF CacheInv, ReadSoFar, ReadOf
<1>4. Stored'
  <2> SUFFICES ASSUME entry.has, NEW i \in 1..Len(entry.vals), Settled(i, entry.readAt)'
               PROVE  entry.vals[i] = Cache!Content(Cache!Sources[i])'
    BY <1>1 DEF CacheInv, Stored, Marks
  <2>1. i \in 1..Len(Cache!Sources) /\ entry.readAt \in Nat /\ entry.readAt <= clock
    BY CacheFields, CachePaths DEF CacheInv, CacheTypes, Stored
  <2>2. /\ Settled(i, entry.readAt)
        /\ Cache!Content(Cache!Sources[i])' = Cache!Content(Cache!Sources[i])
    BY <2>1 DEF Marks, Settled
  <2> QED
    BY <2>2 DEF CacheInv, Stored
<1> QED
  BY <1>2, <1>3, <1>4 DEF CacheInv

\* The other steps leave the files alone.
Still == UNCHANGED <<disk, writes, k>>

\* What depends on the files alone stays.
LEMMA CacheStill ==
  ASSUME Still
  PROVE  /\ UNCHANGED <<Cache!Sources, Cache!Signed>>
         /\ \A p : Cache!Content(p)' = Cache!Content(p)
         /\ \A i, t : Settled(i, t)' = Settled(i, t)
  BY DEF Still, Cache!Sources, Cache!Signed, Cache!Content, Settled, Mark

\* The types of the variables that change while the files rest.
LEMMA TypesStill ==
  ASSUME CacheTypes, Still, clock' \in Nat, clock <= clock', entry' \in Entry,
         entry'.readAt <= clock',
         events' \subseteq events, rd' \in [Connections -> Reading],
         \A c \in Connections : rd'[c].readAt <= clock'
  PROVE  CacheTypes'
BY CacheFields, CacheStill DEF CacheTypes, Still

\* A reader which is left alone while another one goes on.
LEMMA OtherReader ==
  ASSUME Still, NEW c \in Connections, ReadOf(c), rd'[c] = rd[c], (mu' = c) <=> (mu = c),
         Covered' = Covered \/ mu # c
  PROVE  ReadOf(c)'
BY CacheStill DEF ReadOf

\* A tick of the clock preserves the invariant.
LEMMA CacheTick == ASSUME CacheInv, Cache!Tick PROVE CacheInv'
<1>1. Still /\ clock' = clock + 1 /\ UNCHANGED <<events, unnoticed, entry, mu, rd>>
  BY DEF Cache!Tick, Still, Cache!cacheVars
<1>2. Covered' = Covered
  BY <1>1, CacheStill DEF Covered
<1>3. CacheTypes'
  BY CacheFields, <1>1, CacheStill, TypesStill DEF CacheInv, CacheTypes, Still
<1>4. ReadSoFar' /\ Stored'
  BY <1>1, <1>2, CacheStill DEF CacheInv, ReadSoFar, ReadOf, Stored
<1> QED
  BY <1>3, <1>4 DEF CacheInv

\* An event comes off the queue when its entry is dirty.
LEMMA CacheEvent == ASSUME CacheInv, Cache!EventLoop PROVE CacheInv'
<1>1. PICK p \in events : /\ events' = events \ {p}
                         /\ entry' = [entry EXCEPT !.dirty = @ \/ (entry.has /\ Cache!Feeds(p))]
  BY DEF Cache!EventLoop
<1>2. Still /\ mu = "none" /\ UNCHANGED <<clock, unnoticed, mu, rd>>
  BY DEF Cache!EventLoop, Still, Cache!NoReader
<1>3. entry.has => entry' = [entry EXCEPT !.dirty = TRUE]
  BY CacheFields, <1>1 DEF Cache!Feeds, CacheInv, CacheTypes
<1>4. /\ entry' \in Entry
      /\ entry'.has = entry.has /\ entry'.vals = entry.vals /\ entry'.readAt = entry.readAt
      /\ entry.has => entry'.dirty
  <2>1. entry \in Entry
    BY CacheFields DEF CacheInv, CacheTypes
  <2>2. CASE entry.has
    BY <1>3, <2>1, <2>2 DEF Entry
  <2>3. CASE ~entry.has
    BY <1>1, <2>1, <2>3 DEF Entry
  <2> QED
    BY <2>2, <2>3
<1>5. CacheTypes'
  BY CacheFields, <1>1, <1>2, <1>4, CacheStill, TypesStill DEF CacheInv, CacheTypes, Still
<1>6. ReadSoFar'
  <2>1. \A r \in Connections : rd[r].pc \notin {"read", "store"}
    BY <1>2, HelpersAssumption DEF CacheInv, ReadSoFar, ReadOf
  <2> QED
    BY <1>2, <2>1, CacheStill DEF CacheInv, ReadSoFar, ReadOf
<1>7. Stored'
  BY <1>2, <1>4, CacheStill DEF CacheInv, Stored
<1> QED
  BY <1>5, <1>6, <1>7 DEF CacheInv

\* The other steps of a reader.
LEMMA CacheSign == ASSUME CacheInv, NEW r \in Connections, Cache!Sign(r) PROVE CacheInv'
<1> DEFINE p == Cache!Signed[Len(rd[r].sigs) + 1]
           done == Len(rd[r].sigs) + 1 = Len(Cache!Signed)
<1>1. /\ Still /\ UNCHANGED <<clock, events, unnoticed, entry, mu>> /\ rd[r].pc \in {"idle", "sign"}
      /\ rd' = [rd EXCEPT ![r].sigs = Append(@, Cache!Sig(p)),
             ![r].pc = IF done THEN "lock" ELSE "sign"]
  BY DEF Cache!Sign, Still
<1>2. /\ k \in CacheKinds /\ rd[r].sigs \in Signatures /\ rd[r].vals = <<>>
      /\ Len(rd[r].sigs) < Len(Cache!Sources)
  BY CacheFields, <1>1 DEF CacheInv, CacheTypes, ReadSoFar, ReadOf
<1>3. p \in Cache!Files \cup Cache!Dirs
  <2>1. Len(rd[r].sigs) \in Nat
    BY <1>2 DEF Signatures
  <2>2. Len(rd[r].sigs) + 1 \in 1..Len(Cache!Signed)
    BY <1>2, <2>1, CachePaths
  <2> QED
    BY <1>2, <2>2, CachePaths
<1>4. Cache!Sig(p) \in {<<"absent">>} \cup (Nat \X Nat)
  BY CacheFields, <1>3 DEF Cache!Sig, CacheInv, CacheTypes
<1> DEFINE more == Append(rd[r].sigs, Cache!Sig(p))
<1>5. more \in Signatures /\ Len(more) = Len(rd[r].sigs) + 1
  BY <1>2, <1>4 DEF Signatures
<1> HIDE DEF p
<1>6. /\ \A c \in Connections : c # r => rd'[c] = rd[c]
      /\ rd'[r] = [rd[r] EXCEPT !.sigs = more, !.pc = IF done THEN "lock" ELSE "sign"]
      /\ rd' = [c \in Connections |-> rd'[c]]
  BY CacheFields, <1>1 DEF CacheInv, CacheTypes
<1> HIDE DEF more, done
<1>7. rd'[r] \in Reading /\ rd'[r].readAt = rd[r].readAt
      /\ rd'[r].pc \in {"lock", "sign"} /\ rd'[r].vals = <<>> /\ rd'[r].sigs = more
      /\ (rd'[r].pc = "sign" => ~done)
  BY CacheFields, <1>2, <1>5, <1>6 DEF CacheInv, Reading
<1>8. CacheTypes'
  BY CacheFields, <1>1, <1>6, <1>7, CacheStill, TypesStill DEF CacheInv, CacheTypes, Still
<1>9. ReadSoFar'
  <2>0. Covered' = Covered
    BY <1>1, CacheStill DEF Covered
  <2>1. ~done => Len(more) < Len(Cache!Sources)
    <3>1. Len(rd[r].sigs) \in Nat
      BY <1>2 DEF Signatures
    <3> QED
      <4>1. Len(Cache!Signed) = Len(Cache!Sources) /\ Len(Cache!Sources) \in Nat
        BY <1>2, CachePaths
      <4> QED
        BY <1>2, <1>5, <3>1, <4>1 DEF done
  <2>2. Len(rd'[r].vals) <= Len(Cache!Sources)
    BY <1>2, <1>7, CachePaths
  <2>3. mu # r
    BY <1>1 DEF CacheInv, ReadSoFar, ReadOf
  <2> QED
    <3>1. ReadOf(r)'
      BY <1>1, <1>7, <2>1, <2>2, <2>3, CacheStill DEF ReadOf
    <3>2. ASSUME NEW c \in Connections, c # r PROVE ReadOf(c)'
      BY <1>1, <1>6, <2>0, <3>2, OtherReader DEF CacheInv, ReadSoFar
    <3> QED
      BY <3>1, <3>2 DEF ReadSoFar
<1>10. Stored'
  BY <1>1, CacheStill DEF CacheInv, Stored, Covered
<1> QED
  BY <1>8, <1>9, <1>10 DEF CacheInv

\* A reader whose request is over, and holds no mutex.
LEMMA QuietReader ==
  ASSUME CacheInv, Still, NEW r \in Connections, rd' = [rd EXCEPT ![r] = Cache!Quiet],
         mu \in {"none", r}, mu' = "none", Covered' = Covered \/ mu = r
  PROVE  /\ rd' \in [Connections -> Reading] /\ ReadSoFar'
         /\ clock \in Nat => \A c \in Connections : rd'[c].readAt <= clock
<1>1. Cache!Quiet.sigs = <<>> /\ <<>> \in Signatures /\ <<>> \in Seq(Nat) /\ Len(<<>>) = 0
  BY DEF Cache!Quiet, Signatures
<1>2. Cache!Quiet \in Reading
      /\ Cache!Quiet.pc = "idle" /\ Cache!Quiet.vals = <<>> /\ Cache!Quiet.readAt = 0
  BY <1>1 DEF Cache!Quiet, Reading
<1>3. rd \in [Connections -> Reading] /\ \A c \in Connections : rd[c].readAt <= clock
  BY CacheFields DEF CacheInv, CacheTypes
<1>4. /\ \A c \in Connections : c # r => rd'[c] = rd[c]
      /\ rd'[r] = Cache!Quiet
  BY <1>3
<1>5. rd' \in [Connections -> Reading]
  BY <1>2, <1>3
<1>6. clock \in Nat => \A c \in Connections : rd'[c].readAt <= clock
  BY <1>2, <1>3, <1>4
<1>7. ReadOf(r)'
  <2>1. Len(Cache!Sources) \in Nat \ {0}
    BY CacheFields, CachePaths DEF CacheInv, CacheTypes
  <2>2. mu' # r
    BY HelpersAssumption
  <2> QED
    BY <1>1, <1>2, <1>4, <2>1, <2>2, CacheStill DEF ReadOf
<1>8. ASSUME NEW c \in Connections, c # r PROVE ReadOf(c)'
  <2>1. mu # c /\ mu' # c
    BY <1>8, HelpersAssumption
  <2> QED
    BY <1>4, <1>8, <2>1, OtherReader DEF CacheInv, ReadSoFar
<1> QED
  BY <1>5, <1>6, <1>7, <1>8 DEF ReadSoFar

\* A hit ends the request; a miss begins to read, and counts what is unseen from there.
LEMMA CacheServe == ASSUME CacheInv, NEW r \in Connections, Cache!Serve(r) PROVE CacheInv'
<1>1. /\ Still /\ UNCHANGED <<clock, events, entry>> /\ rd[r].pc = "lock" /\ mu = "none"
  BY DEF Cache!Serve, Still, Cache!NoReader
<1>2. k \in CacheKinds /\ clock \in Nat /\ Len(Cache!Sources) \in Nat \ {0}
  BY CacheFields, CachePaths DEF CacheInv, CacheTypes
<1>3. CASE Cache!Hit(r)
  <2>1. rd' = [rd EXCEPT ![r] = Cache!Quiet] /\ UNCHANGED <<mu, unnoticed>>
    BY <1>3 DEF Cache!Serve
  <2>0. Covered' = Covered
    BY <1>1, <2>1, CacheStill DEF Covered
  <2>2. CacheTypes'
    <3>1. /\ clock' \in Nat /\ clock <= clock' /\ entry' \in Entry /\ entry'.readAt <= clock'
          /\ events' \subseteq events
      BY CacheFields, <1>1, <1>2, <2>1 DEF CacheInv
    <3>2. rd' \in [Connections -> Reading] /\ \A c \in Connections : rd'[c].readAt <= clock'
      BY CacheFields, <1>1, <1>2, <2>0, <2>1, QuietReader DEF CacheInv
    <3> QED
      BY <1>1, <3>1, <3>2, TypesStill DEF CacheInv
  <2>4. ReadSoFar'
    BY <1>1, <2>1, <2>0, QuietReader
  <2>5. Stored'
    BY <1>1, <2>1, <2>0, CacheStill DEF CacheInv, Stored
  <2> QED
    BY <2>2, <2>4, <2>5 DEF CacheInv
<1>4. CASE ~Cache!Hit(r)
  <2>1. rd' = [rd EXCEPT ![r].pc = "read", ![r].readAt = clock] /\ mu' = r /\ mu' # "none"
    BY <1>4, HelpersAssumption DEF Cache!Serve
  <2>2. /\ \A c \in Connections : c # r => rd'[c] = rd[c]
        /\ rd'[r] = [rd[r] EXCEPT !.pc = "read", !.readAt = clock]
        /\ rd' = [c \in Connections |-> rd'[c]]
    BY CacheFields, <2>1 DEF CacheInv, CacheTypes
  <2>3. rd'[r] \in Reading
        /\ rd'[r].pc = "read" /\ rd'[r].readAt = clock /\ rd'[r].vals = <<>>
    BY CacheFields, <1>1, <1>2, <2>2 DEF CacheInv, Reading, ReadSoFar, ReadOf
  <2>4. CacheTypes'
    <3>1. /\ clock' \in Nat /\ clock <= clock' /\ entry' \in Entry /\ entry'.readAt <= clock'
          /\ events' \subseteq events
      BY CacheFields, <1>1, <1>2 DEF CacheInv
    <3>2. rd' \in [Connections -> Reading] /\ \A c \in Connections : rd'[c].readAt <= clock'
      <4>1. ASSUME NEW c \in Connections PROVE rd'[c] \in Reading /\ rd'[c].readAt <= clock'
        <5>1. clock' = clock /\ clock \in Nat /\ rd[c] \in Reading /\ rd[c].readAt <= clock
          BY CacheFields, <1>1 DEF CacheInv
        <5>2. rd'[r].readAt <= clock
          BY <1>2, <2>3
        <5>3. c # r => rd'[c] = rd[c]
          BY <2>2
        <5>4. c = r => rd'[c] \in Reading /\ rd'[c].readAt <= clock
          BY <2>3, <5>2
        <5> QED
          BY <5>1, <5>3, <5>4
      <4> QED
        BY <2>2, <4>1
    <3> QED
      BY <1>1, <3>1, <3>2, TypesStill DEF CacheInv
  <2>5. \A c \in Connections : rd[c].pc \notin {"read", "store"}
    BY <1>1, HelpersAssumption DEF CacheInv, ReadSoFar, ReadOf
  <2>6. ReadSoFar'
    <3>1. Len(rd'[r].vals) = 0 /\ 1..Len(rd'[r].vals) = {}
      BY <2>3
    <3> QED
      <4>1. ReadOf(r)'
        <5>1. Len(rd'[r].vals) < Len(Cache!Sources) /\ Len(rd'[r].vals) <= Len(Cache!Sources)
          BY <1>2, <3>1
        <5> QED
          <6>1. rd'[r].pc \in {"read", "store"} <=> mu' = r
            BY <2>1, <2>3
          <6>2. UNCHANGED Cache!Sources
            BY <1>1, CacheStill
          <6>3. rd'[r].pc \notin {"idle", "sign", "lock", "store"}
            BY <2>3
          <6> QED
            BY <3>1, <5>1, <6>1, <6>2, <6>3 DEF ReadOf
      <4>2. ASSUME NEW c \in Connections, c # r PROVE ReadOf(c)'
        <5>1. mu # c /\ mu' # c
          BY <1>1, <2>1, <4>2, HelpersAssumption
        <5> QED
          BY <1>1, <2>2, <4>2, <5>1, OtherReader DEF CacheInv, ReadSoFar
      <4> QED
        BY <4>1, <4>2 DEF ReadSoFar
  <2>7. Stored'
    BY <1>1, <2>1, CacheStill DEF CacheInv, Stored
  <2> QED
    BY <2>4, <2>6, <2>7 DEF CacheInv
<1> QED
  BY <1>3, <1>4

\* A source is read: what is kept of it is what it holds.
LEMMA CacheRead == ASSUME CacheInv, NEW r \in Connections, Cache!Read(r) PROVE CacheInv'
<1> DEFINE n == Len(rd[r].vals) + 1
           c0 == Cache!Content(Cache!Sources[n])
           more == Append(rd[r].vals, c0)
           done == n = Len(Cache!Sources)
<1>1. /\ Still /\ UNCHANGED <<clock, events, unnoticed, entry, mu>> /\ rd[r].pc = "read"
      /\ rd' = [rd EXCEPT ![r].vals = Append(@, c0), ![r].pc = IF done THEN "store" ELSE "read"]
  BY DEF Cache!Read, Still
<1>2. /\ k \in CacheKinds /\ rd[r].vals \in Seq(Nat) /\ Len(rd[r].vals) < Len(Cache!Sources)
      /\ Len(Cache!Sources) \in Nat
  BY CacheFields, <1>1, CachePaths DEF CacheInv, CacheTypes, ReadSoFar, ReadOf
<1>3. n \in 1..Len(Cache!Sources) /\ n = Len(rd[r].vals) + 1
  BY <1>2
<1>4. c0 \in Nat
  BY CacheFields, <1>2, <1>3, CachePaths DEF Cache!Content, CacheInv, CacheTypes, Cache!Absent
<1>5. /\ more \in Seq(Nat) /\ Len(more) = n /\ more[n] = c0
      /\ \A i \in 1..Len(rd[r].vals) : more[i] = rd[r].vals[i]
  BY <1>2, <1>4
<1>6. c0 = Cache!Content(Cache!Sources[n])
  OBVIOUS
<1> HIDE DEF c0
<1>7. /\ \A c \in Connections : c # r => rd'[c] = rd[c]
      /\ rd'[r] = [rd[r] EXCEPT !.vals = more, !.pc = IF done THEN "store" ELSE "read"]
      /\ rd' = [c \in Connections |-> rd'[c]]
  BY CacheFields, <1>1 DEF CacheInv, CacheTypes
<1> HIDE DEF n, more, done
<1>8. rd'[r] \in Reading
      /\ rd'[r].readAt = rd[r].readAt /\ rd'[r].vals = more
      /\ rd'[r].pc = (IF done THEN "store" ELSE "read")
  BY CacheFields, <1>2, <1>5, <1>7 DEF CacheInv, Reading
<1>9. CacheTypes'
  BY CacheFields, <1>1, <1>7, <1>8, CacheStill, TypesStill DEF CacheInv, CacheTypes, Still
<1>10. Covered' = Covered
  BY <1>1, CacheStill DEF Covered
<1>11. ReadSoFar'
  <2>1. done => Len(more) = Len(Cache!Sources)
    BY <1>5 DEF done
  <2>2. ~done => Len(more) < Len(Cache!Sources)
    BY <1>2, <1>3, <1>5 DEF done
  <2>3. \A i \in 1..Len(more) : i \in 1..Len(rd[r].vals) \/ i = n
    BY <1>2, <1>3, <1>5
  <2>4. ASSUME NEW i \in 1..Len(more)
        PROVE  /\ Covered \/ more[i] = Cache!Content(Cache!Sources[i])
               /\ Settled(i, rd[r].readAt) => more[i] = Cache!Content(Cache!Sources[i])
    BY <1>1, <1>5, <1>6, <2>3 DEF CacheInv, ReadSoFar, ReadOf
  <2>5. mu = r
    BY <1>1 DEF CacheInv, ReadSoFar, ReadOf
  <2>6. Len(more) <= Len(Cache!Sources)
    BY <1>2, <1>3, <1>5
  <2>7. /\ rd'[r].pc \in {"store", "read"}
        /\ (rd'[r].pc = "store" => done) /\ (rd'[r].pc = "read" => ~done)
    BY <1>8
  <2>8. ASSUME NEW c \in Connections, c # r
        PROVE  /\ rd[c].pc \notin {"read", "store"} /\ mu # c
    BY <2>5, <2>8 DEF CacheInv, ReadSoFar, ReadOf
  <2>9. ReadOf(r)'
    <3>1. \A i \in 1..Len(more) :
            /\ Covered' \/ more[i] = Cache!Content(Cache!Sources[i])'
            /\ Settled(i, rd[r].readAt)' => more[i] = Cache!Content(Cache!Sources[i])'
      BY <1>1, <1>8, <1>10, <2>4, CacheStill
    <3> QED
      BY <1>1, <1>8, <2>1, <2>2, <2>5, <2>6, <2>7, <3>1, CacheStill DEF ReadOf
  <2>10. ASSUME NEW c \in Connections, c # r PROVE ReadOf(c)'
    BY <1>1, <1>7, <1>10, <2>10, OtherReader DEF CacheInv, ReadSoFar
  <2> QED
    BY <2>9, <2>10 DEF ReadSoFar
<1>12. Stored'
  BY <1>1, <1>10, CacheStill DEF CacheInv, Stored
<1> QED
  BY <1>9, <1>11, <1>12 DEF CacheInv

\* The entry holds what was read under the mutex.
LEMMA CacheStore == ASSUME CacheInv, NEW r \in Connections, Cache!Store(r) PROVE CacheInv'
<1>1. /\ Still /\ UNCHANGED <<clock, events, unnoticed>> /\ rd[r].pc = "store"
      /\ rd' = [rd EXCEPT ![r] = Cache!Quiet] /\ mu' = "none"
      /\ \/ entry' = Cache!NoEntry
         \/ \E ok \in BOOLEAN : entry' = [has |-> TRUE, vals |-> rd[r].vals, sigs |-> rd[r].sigs,
                                         watchable |-> ok, dirty |-> FALSE, readAt |-> rd[r].readAt]
  BY DEF Cache!Store, Still, Cache!NoReader
<1>2. k \in CacheKinds /\ clock \in Nat /\ Len(Cache!Sources) \in Nat \ {0} /\ Covered' = Covered
  BY CacheFields, <1>1, CachePaths, CacheStill DEF CacheInv, CacheTypes, Covered
<1>3. mu = r /\ \A c \in Connections : c # r => rd[c].pc \notin {"read", "store"}
  BY <1>1 DEF CacheInv, ReadSoFar, ReadOf
<1>4. /\ entry' \in Entry /\ entry'.readAt <= clock
      /\ entry'.has => entry'.vals = rd[r].vals /\ entry'.readAt = rd[r].readAt
  <2>1. CASE entry' = Cache!NoEntry
    <3>1. <<>> \in Signatures /\ <<>> \in Seq(Nat)
      BY DEF Signatures
    <3> QED
      BY <1>2, <2>1, <3>1 DEF Cache!NoEntry, Entry
  <2>2. ASSUME NEW ok \in BOOLEAN,
               entry' = [has |-> TRUE, vals |-> rd[r].vals, sigs |-> rd[r].sigs,
                         watchable |-> ok, dirty |-> FALSE, readAt |-> rd[r].readAt]
        PROVE  /\ entry' \in Entry /\ entry'.readAt <= clock
               /\ entry'.has => entry'.vals = rd[r].vals /\ entry'.readAt = rd[r].readAt
    BY CacheFields, <2>2 DEF CacheInv, Reading, Entry
  <2> QED
    BY <1>1, <2>1, <2>2
<1>5. CacheTypes'
  <2>1. /\ clock' \in Nat /\ clock <= clock' /\ entry' \in Entry /\ entry'.readAt <= clock'
        /\ events' \subseteq events
    BY CacheFields, <1>1, <1>2, <1>4 DEF CacheInv
  <2>2. rd' \in [Connections -> Reading] /\ \A c \in Connections : rd'[c].readAt <= clock'
    BY CacheFields, <1>1, <1>2, <1>3, QuietReader DEF CacheInv
  <2> QED
    BY <1>1, <2>1, <2>2, TypesStill DEF CacheInv
<1>6. ReadSoFar'
  BY <1>1, <1>3, QuietReader
<1>7. Stored'
  BY <1>1, <1>2, <1>4, CacheStill DEF CacheInv, ReadSoFar, ReadOf, Stored
<1> QED
  BY <1>5, <1>6, <1>7 DEF CacheInv

\* Nothing is stored, and all the sources are as unseen as before.
LEMMA CacheMalformed == ASSUME CacheInv, NEW r \in Connections, Cache!Malformed(r) PROVE CacheInv'
<1>1. /\ Still /\ UNCHANGED <<clock, events, entry>> /\ rd[r].pc = "store"
      /\ rd' = [rd EXCEPT ![r] = Cache!Quiet] /\ mu' = "none"
      /\ unnoticed' = Cache!Range(Cache!Sources)
  BY DEF Cache!Malformed, Still, Cache!NoReader
<1>2. k \in CacheKinds /\ clock \in Nat /\ Len(Cache!Sources) \in Nat \ {0}
  BY CacheFields, CachePaths DEF CacheInv, CacheTypes
<1>3. mu = r /\ \A c \in Connections : c # r => rd[c].pc \notin {"read", "store"}
  BY <1>1 DEF CacheInv, ReadSoFar, ReadOf
<1>4. CacheTypes'
  <2>1. /\ clock' \in Nat /\ clock <= clock' /\ entry' \in Entry /\ entry'.readAt <= clock'
        /\ events' \subseteq events
    BY CacheFields, <1>1, <1>2 DEF CacheInv
  <2>2. rd' \in [Connections -> Reading] /\ \A c \in Connections : rd'[c].readAt <= clock'
    BY CacheFields, <1>1, <1>2, <1>3, QuietReader DEF CacheInv
  <2> QED
    BY <1>1, <2>1, <2>2, TypesStill DEF CacheInv
<1>5. ReadSoFar'
  BY <1>1, <1>3, QuietReader
<1>6. Covered'
  <2>1. 1 \in 1..Len(Cache!Sources)
    BY <1>2
  <2>2. Cache!Sources[1] \in Cache!Range(Cache!Sources)
    BY <1>2, <2>1, CachePaths
  <2> QED
    BY <1>1, <2>2, CacheStill DEF Covered
<1>7. Stored'
  BY <1>1, <1>6, CacheStill DEF CacheInv, Stored
<1> QED
  BY <1>4, <1>5, <1>7 DEF CacheInv

\* Every step of the cache preserves its invariant.
LEMMA CacheInvInductive == CacheInv /\ [Cache!Next]_cacheVars => CacheInv'
<1> SUFFICES ASSUME CacheInv, [Cache!Next]_cacheVars PROVE CacheInv'
  OBVIOUS
<1>1. ASSUME NEW p \in Cache!Files, Cache!Truncate(p) \/ Cache!Write(p) \/ Cache!Unlink(p)
      PROVE CacheInv'
  <2>1. writes + 3 \in Nat /\ CacheTypes
    BY CacheFields DEF CacheInv, CacheTypes
  <2>2. Cache!Truncate(p) => Marks
    BY <2>1, CachePut DEF Cache!Truncate, Cache!Empty
  <2>3. Cache!Write(p) => Marks
    BY <2>1, CachePut DEF Cache!Write
  <2>4. Cache!Unlink(p) => Marks
    BY <2>1, CachePut DEF Cache!Unlink, Cache!Absent
  <2> QED
    BY <1>1, <2>2, <2>3, <2>4, CacheMarked
<1>2. ASSUME NEW d \in Cache!Dirs, Cache!Recreate(d) PROVE CacheInv'
  BY <1>2, CacheRecreate, CacheMarked DEF CacheInv
<1>3. CASE UNCHANGED cacheVars
  <2>1. Still /\ UNCHANGED <<clock, events, unnoticed, entry, mu, rd>>
    BY <1>3 DEF cacheVars, Still
  <2>2. Covered' = Covered
    BY <2>1, CacheStill DEF Covered
  <2>3. CacheTypes'
    BY CacheFields, <2>1, CacheStill, TypesStill DEF CacheInv, CacheTypes, Still
  <2>4. ReadSoFar' /\ Stored'
    BY <2>1, <2>2, CacheStill DEF CacheInv, ReadSoFar, ReadOf, Stored
  <2> QED
    BY <2>3, <2>4 DEF CacheInv
<1> QED
  BY <1>1, <1>2, <1>3, CacheTick, CacheEvent, CacheSign, CacheServe, CacheRead, CacheStore,
     CacheMalformed
     DEF Cache!Next

\* It holds at first.
LEMMA CacheInitially == Cache!Init => CacheInv
<1> SUFFICES ASSUME Cache!Init PROVE CacheInv
  OBVIOUS
<1>1. /\ clock = 0 /\ writes = 0 /\ events = {} /\ unnoticed = {} /\ k \in CacheKinds
      /\ entry = Cache!NoEntry /\ mu = "none" /\ rd = [r \in Connections |-> Cache!Quiet]
      /\ disk \in [Cache!Files \cup Cache!Dirs -> Path]
  BY DEF Cache!Init, Cache!NoReader, Cache!Absent
<1>2. <<>> \in Signatures /\ <<>> \in Seq(Nat) /\ Len(<<>>) = 0
  BY DEF Signatures
<1>3. Cache!Quiet \in Reading
      /\ Cache!Quiet.pc = "idle" /\ Cache!Quiet.vals = <<>> /\ Cache!Quiet.readAt = 0
             /\ Cache!Quiet.sigs = <<>>
  BY <1>2 DEF Cache!Quiet, Reading
<1>4. CacheTypes
  BY CacheFields, <1>1, <1>2, <1>3 DEF CacheTypes, Cache!NoEntry, Entry
<1>5. ReadSoFar
  BY <1>1, <1>2, <1>3, CachePaths, HelpersAssumption DEF ReadSoFar, ReadOf
<1>6. Stored
  BY <1>1 DEF Stored, Cache!NoEntry
<1> QED
  BY <1>4, <1>5, <1>6 DEF CacheInv

\* An entry that is not what the sources hold is covered, and exact once settled.
LEMMA HitsFollow == CacheInv => Cache!HitsAreJustified
<1> SUFFICES ASSUME CacheInv PROVE Cache!HitsAreJustified
  OBVIOUS
<1>1. ASSUME entry.has,
             \A i \in 1..Len(entry.vals) : entry.vals[i] = Cache!Content(Cache!Sources[i])
      PROVE  entry.vals = Cache!Current
  <2>1. /\ Len(entry.vals) = Len(Cache!Sources) /\ entry.vals \in Seq(Nat) /\ k \in CacheKinds
    BY CacheFields, <1>1 DEF CacheInv, CacheTypes, Stored
  <2>2. DOMAIN entry.vals = DOMAIN Cache!Sources /\ DOMAIN entry.vals = 1..Len(entry.vals)
        /\ entry.vals = [i \in DOMAIN entry.vals |-> entry.vals[i]]
    BY <2>1, CachePaths
  <2> QED
    BY <1>1, <2>2 DEF Cache!Current
<1>2. Cache!StaleBehindEvent
  <2> SUFFICES ASSUME Cache!Stale, mu = "none", ~Covered PROVE FALSE
    BY DEF Cache!StaleBehindEvent, Cache!NoReader, Covered
  <2>1. entry.has /\ ~entry.dirty /\ entry.vals # Cache!Current
    BY DEF Cache!Stale, Cache!Usable
  <2> QED
    BY <1>1, <2>1 DEF CacheInv, Stored
<1>3. Cache!ExactOnceSettled
  <2> SUFFICES ASSUME Cache!Usable,
                      \A i \in DOMAIN Cache!Signed : disk[Cache!Signed[i]].v # 0
                                                    /\ disk[Cache!Signed[i]].at < entry.readAt
               PROVE  entry.vals = Cache!Current
    BY DEF Cache!ExactOnceSettled, Cache!Absent
  <2>1. entry.has /\ k \in CacheKinds
    BY CacheFields DEF Cache!Usable, CacheInv, CacheTypes
  <2>2. Len(entry.vals) = Len(Cache!Sources)
    BY <2>1 DEF CacheInv, Stored
  <2>3. \A i \in 1..Len(entry.vals) : Settled(i, entry.readAt)
    BY <2>1, <2>2, CachePaths DEF Settled
  <2> QED
    BY <1>1, <2>1, <2>3 DEF CacheInv, Stored
<1> QED
  BY <1>2, <1>3 DEF Cache!HitsAreJustified

-----------------------------------------------------------------------------
(* Naturals *)

\* The order of the naturals, as a relation.
Smaller == {p \in Nat \X Nat : p[1] < p[2]}

\* No sequence of naturals descends for ever.
LEMMA SmallerWellFounded == IsWellFoundedOn(Smaller, Nat)
<1>1. OpToRel(<, Nat) = Smaller
  BY DEF OpToRel, Smaller
<1> QED
  BY <1>1, NatLessThanWellFounded

\* A set of naturals that is not empty has a least element.
LEMMA LeastNatural ==
  ASSUME NEW T \in SUBSET Nat, T # {}
  PROVE  \E x \in T : \A y \in T : x <= y
<1>1. PICK x \in T : \A y \in T : <<y, x>> \notin Smaller
  BY SmallerWellFounded, WFMin
<1>2. ASSUME NEW y \in T PROVE x <= y
  <2>1. x \in Nat /\ y \in Nat /\ <<y, x>> \notin Smaller
    BY <1>1
  <2>2. ~(y < x)
    BY <2>1 DEF Smaller
  <2> QED
    BY <2>1, <2>2
<1> QED
  BY <1>2

\* A finite stretch of naturals has a largest element in every part of it that is not empty.
LEMMA LargestNatural ==
  ASSUME NEW n \in Nat, NEW T \in SUBSET (0..n), T # {}
  PROVE  \E x \in T : \A y \in T : y <= x
<1> DEFINE U == {n - x : x \in T}
<1>1. U \in SUBSET Nat /\ U # {}
  OBVIOUS
<1> HIDE DEF U
<1>2. PICK u \in U : \A v \in U : u <= v
  BY <1>1, LeastNatural
<1>3. PICK x \in T : u = n - x
  BY <1>2 DEF U
<1>4. ASSUME NEW y \in T PROVE y <= x
  <2>1. n - y \in U
    BY DEF U
  <2> QED
    BY <1>2, <1>3, <2>1
<1> QED
  BY <1>4

\* What holds of zero and of the next number holds of all.
LEMMA Induction ==
  ASSUME NEW T, 0 \in T, \A n \in Nat : n \in T => n + 1 \in T
  PROVE  Nat \subseteq T
<1> DEFINE B == {n \in Nat : n \notin T}
<1>1. SUFFICES ASSUME B # {} PROVE FALSE
  OBVIOUS
<1>2. PICK x \in B : \A y \in B : x <= y
  BY <1>1, LeastNatural
<1>3. x # 0 /\ x - 1 \in Nat /\ x - 1 \notin B
  BY <1>2
<1> QED
  BY <1>3

\* The largest of the first naturals.
LEMMA MaxOfPart ==
  ASSUME NEW n \in Nat, NEW T \in SUBSET (0..n), T # {}
  PROVE  Max(T) \in T /\ \A y \in T : y <= Max(T)
  BY LargestNatural DEF Max
LEMMA MaxOfAll ==
  ASSUME NEW n \in Nat, n # 0 PROVE Max(1..n) = n
<1>1. Max(1..n) \in 1..n /\ \A y \in 1..n : y <= Max(1..n)
  <2>1. 1..n \in SUBSET (0..n) /\ 1..n # {}
    OBVIOUS
  <2> QED
    BY <2>1, MaxOfPart
<1> QED
  BY <1>1

\* What is left of a sequence when only what is in T stays.
Only(s, T) == FoldLeft(LAMBDA q, x : IF x \in T THEN Append(q, x) ELSE q, <<>>, s)

LEMMA OnlyUnfolds ==
  ASSUME NEW n \in Nat, NEW s, DOMAIN s = 1..n, NEW T
  PROVE  \E g : /\ g[0] = <<>> /\ g[n] = Only(s, T)
                /\ \A i \in 1..n : g[i] = IF s[i] \in T THEN Append(g[i - 1], s[i]) ELSE g[i - 1]
<1> DEFINE Step(q, x) == IF x \in T THEN Append(q, x) ELSE q
           Folds(f, D) == f = [S \in SUBSET D |-> IF S = {} THEN <<>>
                                                  ELSE Step(f[S \ {Max(S)}], s[Max(S)])]
           Good == {l \in Nat : \E f : Folds(f, 1..l)}
<1>1. 0 \in Good
  <2>1. SUBSET (1..0) = {{}}
    OBVIOUS
  <2>2. Folds([S \in {{}} |-> <<>>], 1..0)
    BY <2>1
  <2> QED
    BY <2>2
<1>2. ASSUME NEW l \in Nat, l \in Good PROVE l + 1 \in Good
  <2>1. PICK f : Folds(f, 1..l)
    BY <1>2
  <2> HIDE DEF Step
  <2> DEFINE h == [S \in SUBSET (1..(l + 1)) |->
                     IF l + 1 \in S THEN Step(f[S \ {l + 1}], s[l + 1]) ELSE f[S]]
  <2>2. ASSUME NEW S \in SUBSET (1..(l + 1))
        PROVE  h[S] = IF S = {} THEN <<>> ELSE Step(h[S \ {Max(S)}], s[Max(S)])
    <3>1. CASE l + 1 \in S
      <4>1. Max(S) = l + 1
        <5>1. Max(S) \in S /\ \A y \in S : y <= Max(S)
          <6>1. l + 1 \in Nat /\ S \in SUBSET (0..(l + 1)) /\ S # {}
            BY <3>1
          <6> QED
            BY <6>1, MaxOfPart
        <5>2. l + 1 <= Max(S) /\ Max(S) \in 1..(l + 1)
          BY <3>1, <5>1
        <5> QED
          BY <5>2
      <4>2. S \ {l + 1} \in SUBSET (1..(l + 1)) /\ l + 1 \notin S \ {l + 1}
        OBVIOUS
      <4>3. h[S \ {l + 1}] = f[S \ {l + 1}]
        BY <4>2
      <4> QED
        BY <3>1, <4>1, <4>3
    <3>2. CASE l + 1 \notin S
      <4>1. S \in SUBSET (1..l) /\ h[S] = f[S]
        BY <3>2
      <4>2. f[S] = IF S = {} THEN <<>> ELSE Step(f[S \ {Max(S)}], s[Max(S)])
        BY <2>1, <4>1
      <4>3. l + 1 \notin S \ {Max(S)} /\ S \ {Max(S)} \in SUBSET (1..(l + 1))
        BY <3>2
      <4>4. h[S \ {Max(S)}] = f[S \ {Max(S)}]
        BY <4>3
      <4> QED
        BY <4>1, <4>2, <4>4
    <3> QED
      BY <3>1, <3>2
  <2>3. Folds(h, 1..(l + 1))
    <3>1. h = [S \in SUBSET (1..(l + 1)) |-> h[S]]
      OBVIOUS
    <3> HIDE DEF h
    <3> QED
      BY <2>2, <3>1
  <2> HIDE DEF h, Folds
  <2> QED
    BY <2>3
<1>3. \E f : Folds(f, 1..n)
  <2> HIDE DEF Good
  <2>1. n \in Good
    BY <1>1, <1>2, Induction
  <2> QED
    BY <2>1 DEF Good
<1> DEFINE iter == CHOOSE f : Folds(f, 1..n)
<1>4. Folds(iter, 1..n)
  BY <1>3
<1>5. Only(s, T) = iter[1..n]
  BY DEF Only, FoldLeft, MapThenFoldSet
<1> HIDE DEF iter
<1> DEFINE g == [i \in 0..n |-> iter[1..i]]
<1>6. g[0] = <<>> /\ g[n] = Only(s, T)
  <2>1. 1..0 = {} /\ {} \in SUBSET (1..n)
    OBVIOUS
  <2>2. iter[{}] = <<>>
    BY <1>4, <2>1
  <2> QED
    BY <1>5, <2>1, <2>2
<1>7. ASSUME NEW i \in 1..n PROVE g[i] = Step(g[i - 1], s[i])
  <2>1. 1..i \in SUBSET (1..n) /\ i \in 1..i /\ i - 1 \in 0..n /\ i \in 0..n
    OBVIOUS
  <2>4. (1..i) \ {i} = 1..(i - 1)
    OBVIOUS
  <2>2. Max(1..i) = i
    BY MaxOfAll
  <2> HIDE DEF Step
  <2>3. iter[1..i] = Step(iter[(1..i) \ {Max(1..i)}], s[Max(1..i)])
    BY <1>4, <2>1
  <2>5. iter[1..i] = Step(iter[1..(i - 1)], s[i])
    BY <2>2, <2>3, <2>4
  <2>6. g[i] = iter[1..i] /\ g[i - 1] = iter[1..(i - 1)]
    BY <2>1
  <2> QED
    BY <2>5, <2>6
<1> QED
  BY <1>6, <1>7

\* Where the elements that stay were: in the same order, and all that are in T.
Places(m, q, s, i, T) ==
  /\ m \in [1..Len(q) -> 1..i]
  /\ \A j, l \in 1..Len(q) : j < l => m[j] < m[l]
  /\ \A j \in 1..Len(q) : q[j] = s[m[j]] /\ s[m[j]] \in T
  /\ \A l \in 1..i : s[l] \in T => \E j \in 1..Len(q) : m[j] = l

LEMMA OnlyStays ==
  ASSUME NEW S, NEW s \in Seq(S), NEW T
  PROVE  /\ Only(s, T) \in Seq(S)
         /\ \E m : Places(m, Only(s, T), s, Len(s), T)
<1>0. Len(s) \in Nat /\ DOMAIN s = 1..Len(s) /\ \A i \in 1..Len(s) : s[i] \in S
  OBVIOUS
<1>1. PICK g : /\ g[0] = <<>> /\ g[Len(s)] = Only(s, T)
               /\ \A i \in 1..Len(s) : g[i] = IF s[i] \in T THEN Append(g[i - 1], s[i]) ELSE g[i - 1]
  BY <1>0, OnlyUnfolds
<1> DEFINE Good == {i \in Nat : i <= Len(s) => g[i] \in Seq(S) /\ \E m : Places(m, g[i], s, i, T)}
<1>2. 0 \in Good
  <2>1. Places(<<>>, <<>>, s, 0, T)
    BY DEF Places
  <2>2. g[0] \in Seq(S)
    BY <1>1
  <2> QED
    BY <1>1, <2>1, <2>2
<1>3. ASSUME NEW i \in Nat, i \in Good PROVE i + 1 \in Good
  <2>1. SUFFICES ASSUME i + 1 <= Len(s)
                 PROVE  g[i + 1] \in Seq(S) /\ \E m : Places(m, g[i + 1], s, i + 1, T)
    OBVIOUS
  <2>2. PICK m : Places(m, g[i], s, i, T)
    BY <1>0, <1>3, <2>1
  <2>3. /\ g[i] \in Seq(S) /\ i + 1 \in 1..Len(s) /\ (i + 1) - 1 = i
    BY <1>0, <1>3, <2>1
  <2>4. g[i + 1] = IF s[i + 1] \in T THEN Append(g[i], s[i + 1]) ELSE g[i]
    BY <1>1, <2>3
  <2> HIDE DEF Good
  <2>5. CASE s[i + 1] \notin T
    <3>1. Places(m, g[i + 1], s, i + 1, T)
      BY <1>0, <2>2, <2>3, <2>4, <2>5 DEF Places
    <3> QED
      BY <2>3, <2>4, <2>5, <3>1
  <2>6. CASE s[i + 1] \in T
    <3> DEFINE q == g[i]
               r == Append(q, s[i + 1])
               h == [j \in 1..(Len(q) + 1) |-> IF j = Len(q) + 1 THEN i + 1 ELSE m[j]]
    <3>1. /\ r \in Seq(S) /\ Len(q) \in Nat /\ Len(r) = Len(q) + 1
          /\ r[Len(q) + 1] = s[i + 1] /\ \A j \in 1..Len(q) : r[j] = q[j]
      BY <1>0, <2>3
    <3>2. /\ m \in [1..Len(q) -> 1..i]
          /\ \A j, l \in 1..Len(q) : j < l => m[j] < m[l]
          /\ \A j \in 1..Len(q) : q[j] = s[m[j]] /\ s[m[j]] \in T
          /\ \A l \in 1..i : s[l] \in T => \E j \in 1..Len(q) : m[j] = l
      BY <2>2 DEF Places
    <3> HIDE DEF q, r
    <3>3. /\ h \in [1..Len(r) -> 1..(i + 1)] /\ h[Len(q) + 1] = i + 1
          /\ \A j \in 1..Len(q) : h[j] = m[j]
      BY <3>1, <3>2
    <3> HIDE DEF h
    <3>4. \A j, l \in 1..Len(r) : j < l => h[j] < h[l]
      <4>1. SUFFICES ASSUME NEW j \in 1..Len(r), NEW l \in 1..Len(r), j < l PROVE h[j] < h[l]
        OBVIOUS
      <4>2. j \in 1..Len(q) /\ h[j] = m[j] /\ m[j] \in 1..i
        <5>1. j \in 1..Len(q)
          BY <3>1, <4>1
        <5> QED
          BY <3>2, <3>3, <5>1
      <4>3. CASE l = Len(q) + 1
        BY <3>3, <4>2, <4>3
      <4>4. CASE l # Len(q) + 1
        <5>1. l \in 1..Len(q)
          BY <3>1, <4>4
        <5> QED
          BY <3>2, <3>3, <4>1, <4>2, <5>1
      <4> QED
        BY <4>3, <4>4
    <3>5. \A j \in 1..Len(r) : r[j] = s[h[j]] /\ s[h[j]] \in T
      <4>1. SUFFICES ASSUME NEW j \in 1..Len(r) PROVE r[j] = s[h[j]] /\ s[h[j]] \in T
        OBVIOUS
      <4>2. j \in 1..Len(q) \/ j = Len(q) + 1
        BY <3>1
      <4> QED
        BY <2>6, <3>1, <3>2, <3>3, <4>2
    <3>6. \A l \in 1..(i + 1) : s[l] \in T => \E j \in 1..Len(r) : h[j] = l
      <4>1. SUFFICES ASSUME NEW l \in 1..(i + 1), s[l] \in T PROVE \E j \in 1..Len(r) : h[j] = l
        OBVIOUS
      <4>2. CASE l = i + 1
        BY <3>1, <3>3, <4>2
      <4>3. CASE l # i + 1
        <5>1. l \in 1..i
          BY <4>3
        <5>2. PICK j \in 1..Len(q) : m[j] = l
          BY <3>2, <4>1, <5>1
        <5>3. j \in 1..Len(r)
          BY <3>1
        <5> QED
          BY <3>3, <5>2, <5>3
      <4> QED
        BY <4>2, <4>3
    <3>7. Places(h, r, s, i + 1, T)
      BY <3>3, <3>4, <3>5, <3>6 DEF Places
    <3>8. g[i + 1] = r
      BY <2>4, <2>6 DEF q, r
    <3> QED
      BY <3>1, <3>7, <3>8
  <2> QED
    BY <2>5, <2>6
<1>4. Len(s) \in Good
  <2> HIDE DEF Good
  <2> QED
    BY <1>0, <1>2, <1>3, Induction
<1> QED
  BY <1>0, <1>1, <1>4

\* So nothing in T is lost, nothing else stays, and nothing is doubled.
LEMMA OnlyKeeps ==
  ASSUME NEW S, NEW s \in Seq(S), NEW T
  PROVE  /\ Only(s, T) \in Seq(S \cap T) /\ Len(Only(s, T)) <= Len(s)
         /\ ToSet(Only(s, T)) = ToSet(s) \cap T
         /\ IsInjective(s) => IsInjective(Only(s, T))
<1> DEFINE q == Only(s, T)
<1>1. q \in Seq(S) /\ Len(q) \in Nat /\ DOMAIN q = 1..Len(q) /\ Len(s) \in Nat /\ DOMAIN s = 1..Len(s)
  BY OnlyStays
<1>2. PICK m : Places(m, q, s, Len(s), T)
  BY OnlyStays
<1> HIDE DEF q
<1>3. /\ m \in [1..Len(q) -> 1..Len(s)]
      /\ \A j, l \in 1..Len(q) : j < l => m[j] < m[l]
      /\ \A j \in 1..Len(q) : q[j] = s[m[j]] /\ s[m[j]] \in T
      /\ \A l \in 1..Len(s) : s[l] \in T => \E j \in 1..Len(q) : m[j] = l
  BY <1>2 DEF Places
<1>4. \A j, l \in 1..Len(q) : m[j] = m[l] => j = l
  BY <1>1, <1>3
<1>5. q \in Seq(S \cap T)
  BY <1>1, <1>3
<1>6. Len(q) <= Len(s)
  <2> DEFINE Below == {j \in Nat : j \in 1..Len(q) => j <= m[j]}
  <2>1. 0 \in Below
    OBVIOUS
  <2>2. ASSUME NEW j \in Nat, j \in Below PROVE j + 1 \in Below
    <3>1. SUFFICES ASSUME j + 1 \in 1..Len(q) PROVE j + 1 <= m[j + 1]
      OBVIOUS
    <3>2. m[j + 1] \in 1..Len(s)
      BY <1>3, <3>1
    <3>3. CASE j = 0
      BY <3>2, <3>3
    <3>4. CASE j # 0
      <4>1. j \in 1..Len(q) /\ j < j + 1
        BY <1>1, <3>1, <3>4
      <4>2. m[j] \in 1..Len(s) /\ m[j] < m[j + 1]
        BY <1>3, <3>1, <4>1
      <4> QED
        BY <2>2, <3>2, <4>1, <4>2
    <3> QED
      BY <3>3, <3>4
  <2> HIDE DEF Below
  <2>3. Len(q) \in Below
    BY <1>1, <2>1, <2>2, Induction
  <2> QED
    BY <1>1, <1>3, <2>3 DEF Below
<1>7. ToSet(q) = ToSet(s) \cap T
  <2>1. ASSUME NEW x \in ToSet(q) PROVE x \in ToSet(s) \cap T
    <3>1. PICK j \in 1..Len(q) : x = q[j]
      BY <1>1 DEF ToSet
    <3>2. x = s[m[j]] /\ m[j] \in DOMAIN s /\ x \in T
      BY <1>1, <1>3, <3>1
    <3> QED
      BY <3>2 DEF ToSet
  <2>2. ASSUME NEW x \in ToSet(s) \cap T PROVE x \in ToSet(q)
    <3>1. PICK l \in 1..Len(s) : x = s[l]
      BY <1>1 DEF ToSet
    <3>2. PICK j \in 1..Len(q) : m[j] = l
      BY <1>3, <3>1
    <3>3. x = q[j] /\ j \in DOMAIN q
      BY <1>1, <1>3, <3>1, <3>2
    <3> QED
      BY <3>3 DEF ToSet
  <2> QED
    BY <2>1, <2>2
<1>8. IsInjective(s) => IsInjective(q)
  BY <1>1, <1>3, <1>4 DEF IsInjective
<1> QED
  BY <1>5, <1>6, <1>7, <1>8 DEF q


\* The component filters as we do.
LEMMA BreakerOnly == \A s, T : Breaker!Only(s, T) = Only(s, T)
  BY DEF Breaker!Only, Breaker!FoldLeft, Breaker!MapThenFoldSet, Breaker!Max,
         Only, FoldLeft, MapThenFoldSet, Max

-----------------------------------------------------------------------------
(* The board *)

\* A row of the board.
Row == [status : Board!Statuses, by : Board!Ids \cup {0}, plan : BOOLEAN, task : 1..MaxAdds,
        meant : 0..MaxAdds]

USE DEF Row

\* The invariant of the board, in parts. An id stands for another task than it once did only when
\* it was given a second time: in
\* `Blocked By', in the name of a plan file or of one about to be made, in the base of a range.
BlockersKnown ==
  \A i \in DOMAIN rows :
    rows[i].meant # 0 /\ rows[i].by \in DOMAIN rows /\ rows[rows[i].by].task # rows[i].meant
      => rows[i].by \in reused
PlansKnown ==
  \A i \in DOMAIN rows :
    /\ plans[i] # 0 /\ plans[i] # rows[i].task => i \in reused
    /\ \A u \in Planners : pending[u][1] = i /\ pending[u][2] # rows[i].task => i \in reused
BaseKnown == \A i \in DOMAIN rows : i \in DOMAIN base /\ rows[i].task # base[i] => i \in reused

Unfinished ==
  \A i \in DOMAIN rows :
    rows[i].plan /\ plans[i] = 0 => i \in cut \/ \E u \in Planners : pending[u][1] = i

BoardInv == /\ Board!TypeOK /\ born <= added
            /\ BlockersKnown /\ PlansKnown /\ BaseKnown /\ Unfinished

\* A call of add, for a row that is there or a new one.
LEMMA BoardAdd ==
  ASSUME BoardInv, NEW u \in Planners, NEW i, NEW by \in Board!Ids \cup {0},
         NEW keywords \in BOOLEAN,
         Board!OpAdd(u, i, by, keywords)
  PROVE  BoardInv'
<1> USE HelpersAssumption
<1> DEFINE new == i \notin DOMAIN rows
           old == IF new THEN [status |-> "Backlog", by |-> 0, plan |-> FALSE, task |-> born + 1,
             meant |-> 0]
                  ELSE rows[i]
           edge == IF by = 0 THEN old
                   ELSE [old EXCEPT !.by = by,
                     !.meant = IF by = i THEN old.task ELSE Board!TaskOf(by)]
           row == [edge EXCEPT !.plan = @ \/ keywords]
<1>1. /\ pending[u] = <<0, 0>> /\ i \in Board!Ids /\ added < MaxAdds /\ added' = added + 1
      /\ rows' = [j \in DOMAIN rows \cup {i} |-> IF j = i THEN row ELSE rows[j]]
      /\ pending' = [pending EXCEPT ![u] = IF row.plan THEN <<i, row.task>> ELSE <<0, 0>>]
      /\ new => born' = born + 1 /\ cut' = cut \ {i}
             /\ reused' = IF Board!OnRecord(i) THEN reused \cup {i} ELSE reused
      /\ ~new => UNCHANGED <<born, reused, cut>>
      /\ UNCHANGED <<plans, base>>
  BY DEF Board!OpAdd, Board!None, Board!Nothing, Board!history
<1> HIDE DEF new
<1>2. i \in Nat \ {0}
  BY <1>1 DEF Board!Ids
<1>3. old \in Row
  <2>1. CASE i \in DOMAIN rows
    BY <2>1 DEF BoardInv, Board!TypeOK, Board!None, new
  <2>2. CASE i \notin DOMAIN rows
    <3>1. born + 1 \in 1..MaxAdds /\ 0 \in 0..MaxAdds
      BY <1>1 DEF BoardInv, Board!TypeOK
    <3>2. "Backlog" \in Board!Statuses
      BY DEF Board!Statuses
    <3>3. old = [status |-> "Backlog", by |-> 0, plan |-> FALSE, task |-> born + 1, meant |-> 0]
      BY <2>2 DEF new
    <3> HIDE DEF old
    <3> QED
      BY <3>1, <3>2, <3>3
  <2> QED
    BY <2>1, <2>2
<1> HIDE DEF old
<1>4. \A j : Board!TaskOf(j) \in 0..MaxAdds
  BY DEF BoardInv, Board!TypeOK, Board!TaskOf, Board!None
<1>5. edge \in Row
  <2>1. old \in Row
        /\ old.task \in 0..MaxAdds /\ Board!TaskOf(by) \in 0..MaxAdds
    BY <1>3, <1>4
  <2>2. CASE by = 0
    BY <2>1, <2>2
  <2>3. CASE by # 0 /\ by = i
    BY <2>1, <2>3
  <2>4. CASE by # 0 /\ by # i
    BY <2>1, <2>4
  <2> QED
    BY <2>2, <2>3, <2>4
<1>6. edge.task = old.task
  BY <1>3
<1> HIDE DEF edge
<1>7. /\ row \in Row
      /\ row.task = old.task /\ row.by = edge.by /\ row.meant = edge.meant
  BY <1>5, <1>6
<1> HIDE DEF row
<1>8. /\ DOMAIN rows' = DOMAIN rows \cup {i} /\ rows'[i] = row
      /\ \A j \in DOMAIN rows : j # i => rows'[j] = rows[j]
  BY <1>1
<1>9. Board!TypeOK' /\ born' <= added'
  <2>1. DOMAIN rows' \subseteq Board!Ids
    BY <1>1, <1>8 DEF BoardInv, Board!TypeOK
  <2>2. \A j \in DOMAIN rows' :
          rows'[j] \in Row
    BY <1>7, <1>8 DEF BoardInv, Board!TypeOK, Board!None
  <2>3. row.task \in 1..MaxAdds
    BY <1>7
  <2>4. pending' \in [Planners -> (Board!Ids \X (1..MaxAdds)) \cup {<<0, 0>>}]
    BY <1>1, <2>3 DEF BoardInv, Board!TypeOK, Board!Nothing, Board!None
  <2>5. born' \in 0..MaxAdds /\ reused' \subseteq Board!Ids /\ cut' \subseteq Board!Ids
        /\ added' \in 0..MaxAdds /\ born' <= added'
    BY <1>1 DEF BoardInv, Board!TypeOK
  <2>6. plans' \in [Board!Ids -> 0..MaxAdds] /\ DOMAIN base' \subseteq Board!Ids
    BY <1>1 DEF BoardInv, Board!TypeOK
  <2> QED
    BY <2>1, <2>2, <2>4, <2>5, <2>6 DEF Board!TypeOK, Board!None, Board!Nothing
<1>10. reused \subseteq reused'
  BY <1>1
<1>11. i \in DOMAIN rows => row.task = rows[i].task
  BY <1>7 DEF old, new
<1>12. i \notin DOMAIN rows /\ i \notin reused' => ~Board!OnRecord(i)
  BY <1>1 DEF new
<1>13. i \notin reused' => i \in DOMAIN rows \/ (plans[i] = 0 /\ i \notin DOMAIN base
         /\ (\A w \in Planners : pending[w][1] # i)
         /\ (\A j \in DOMAIN rows : rows[j].by = i => rows[j].meant = 0))
  BY <1>12 DEF Board!OnRecord, Board!None
<1>14. BlockersKnown'
  <2> SUFFICES ASSUME NEW j \in DOMAIN rows', rows'[j].meant # 0, rows'[j].by \in DOMAIN rows',
                      rows'[rows'[j].by].task # rows'[j].meant
               PROVE  rows'[j].by \in reused'
    BY DEF BlockersKnown
  <2>1. CASE j # i
    BY <1>8, <1>10, <1>11, <1>13, <2>1 DEF BoardInv, BlockersKnown
  <2>2. CASE j = i /\ by = 0
    <3>1. row.by = old.by /\ row.meant = old.meant
      BY <1>7, <2>2 DEF edge
    <3>2. i \in DOMAIN rows /\ old = rows[i]
      <4>1. CASE i \notin DOMAIN rows
        BY <1>8, <2>2, <3>1, <4>1 DEF old, new
      <4>2. CASE i \in DOMAIN rows
        BY <4>2 DEF old, new
      <4> QED
        BY <4>1, <4>2
    <3> QED
      BY <1>8, <1>10, <1>11, <1>13, <2>2, <3>1, <3>2 DEF BoardInv, BlockersKnown
  <2>3. CASE j = i /\ by # 0
    <3>1. row.by = by /\ row.meant = IF by = i THEN old.task ELSE Board!TaskOf(by)
      BY <1>3, <1>7, <2>3 DEF edge
    <3> QED
      BY <1>7, <1>8, <2>3, <3>1 DEF Board!TaskOf
  <2> QED
    BY <2>1, <2>2, <2>3
<1>15. PlansKnown'
  BY <1>1, <1>8, <1>10, <1>11, <1>13 DEF BoardInv, PlansKnown
<1>16. BaseKnown'
  BY <1>1, <1>8, <1>10, <1>11, <1>13 DEF BoardInv, BaseKnown
<1>17. Unfinished'
  <2> SUFFICES ASSUME NEW j \in DOMAIN rows', rows'[j].plan, plans'[j] = 0
               PROVE  j \in cut' \/ \E w \in Planners : pending'[w][1] = j
    BY DEF Unfinished
  <2>1. pending \in [Planners -> (Board!Ids \X (1..MaxAdds)) \cup {<<0, 0>>}]
    BY DEF BoardInv, Board!TypeOK, Board!None, Board!Nothing
  <2>2. CASE j = i
    <3>1. pending'[u] = <<i, row.task>>
      BY <1>1, <1>8, <2>1, <2>2
    <3> QED
      BY <2>2, <3>1
  <2>3. CASE j # i
    <3>1. j \in DOMAIN rows /\ j # 0 /\ rows[j].plan /\ plans[j] = 0
      BY <1>1, <1>8, <2>3 DEF BoardInv, Board!TypeOK, Board!Ids
    <3>2. j \in cut => j \in cut'
      BY <1>1, <2>3
    <3>3. \A w \in Planners : pending[w][1] = j => pending'[w] = pending[w]
      BY <1>1, <2>1, <3>1
    <3> QED
      BY <3>1, <3>2, <3>3 DEF BoardInv, Unfinished
  <2> QED
    BY <2>2, <2>3
<1> QED
  BY <1>9, <1>14, <1>15, <1>16, <1>17 DEF BoardInv

\* Rows that go or change their status alone.
LEMMA BoardFewer ==
  ASSUME BoardInv, UNCHANGED <<plans, pending, base, added, born, reused, cut>>,
         DOMAIN rows' \subseteq DOMAIN rows,
         \A i \in DOMAIN rows' :
           /\ rows'[i] \in Row
           /\ rows'[i].by = rows[i].by /\ rows'[i].meant = rows[i].meant
           /\ rows'[i].task = rows[i].task /\ rows'[i].plan = rows[i].plan
  PROVE  BoardInv'
<1>1. Board!TypeOK' /\ born' <= added'
  BY DEF BoardInv, Board!TypeOK, Board!None
<1>2. BlockersKnown'
  BY DEF BoardInv, BlockersKnown
<1>3. PlansKnown'
  BY DEF BoardInv, PlansKnown
<1>4. BaseKnown'
  BY DEF BoardInv, BaseKnown
<1>5. Unfinished'
  BY DEF BoardInv, Unfinished
<1> QED
  BY <1>1, <1>2, <1>3, <1>4, <1>5 DEF BoardInv

\* A status changes: move, claim, release, block.
LEMMA BoardStatus ==
  ASSUME BoardInv, NEW i \in Board!Ids, NEW status \in Board!Statuses, Board!OpStatus(i, status)
  PROVE  BoardInv'
<1>1. /\ UNCHANGED <<plans, pending, base, added, born, reused, cut>>
      /\ i \in DOMAIN rows /\ rows' = [rows EXCEPT ![i].status = status]
  BY DEF Board!OpStatus, Board!history
<1>2. \A j \in DOMAIN rows : rows[j] \in Row
  BY DEF BoardInv, Board!TypeOK, Board!None
<1>3. DOMAIN rows' = DOMAIN rows
  BY <1>1
<1>4. ASSUME NEW j \in DOMAIN rows'
      PROVE  /\ rows'[j] \in Row
             /\ rows'[j].by = rows[j].by /\ rows'[j].meant = rows[j].meant
             /\ rows'[j].task = rows[j].task /\ rows'[j].plan = rows[j].plan
  <2>1. j \in DOMAIN rows /\ rows'[j] = IF j = i THEN [rows[j] EXCEPT !.status = status] ELSE rows[j]
    BY <1>1, <1>3
  <2> QED
    BY <1>2, <2>1
<1> QED
  BY <1>1, <1>3, <1>4, BoardFewer

\* Rows are removed or cleaned away.
LEMMA BoardWithout ==
  ASSUME BoardInv, NEW gone, Board!Without(gone)
  PROVE  BoardInv'
<1>1. /\ UNCHANGED <<plans, pending, base, added, born, reused, cut>>
      /\ rows' = [j \in DOMAIN rows \ gone |-> rows[j]]
  BY DEF Board!Without, Board!history, Board!Restrict
<1>2. DOMAIN rows' \subseteq DOMAIN rows /\ \A j \in DOMAIN rows' : rows'[j] = rows[j]
  BY <1>1
<1>3. \A j \in DOMAIN rows : rows[j] \in Row
  BY DEF BoardInv, Board!TypeOK, Board!None
<1> QED
  BY <1>1, <1>2, <1>3, BoardFewer

\* The plan file of the last add is made, unless there is one of its name.
LEMMA BoardPlan ==
  ASSUME BoardInv, NEW u \in Planners, Board!EnsurePlanFile(u)
  PROVE  BoardInv'
<1> DEFINE i == pending[u][1]
<1>1. /\ pending[u] # <<0, 0>> /\ pending' = [pending EXCEPT ![u] = <<0, 0>>]
      /\ plans' = IF plans[i] = 0 THEN [plans EXCEPT ![i] = pending[u][2]] ELSE plans
      /\ UNCHANGED <<rows, base, added, born, reused, cut>>
  BY DEF Board!EnsurePlanFile, Board!Nothing, Board!None, Board!history
<1>2. /\ pending \in [Planners -> (Board!Ids \X (1..MaxAdds)) \cup {<<0, 0>>}]
      /\ plans \in [Board!Ids -> 0..MaxAdds] /\ DOMAIN rows \subseteq Board!Ids
  BY DEF BoardInv, Board!TypeOK, Board!None, Board!Nothing
<1>3. pending[u] \in Board!Ids \X (1..MaxAdds)
  BY <1>1, <1>2
<1>4. i \in Board!Ids /\ pending[u][2] \in 1..MaxAdds
  BY <1>3
<1> HIDE DEF i
<1>5. plans' \in [Board!Ids -> 0..MaxAdds]
      /\ \A j \in Board!Ids : plans'[j] = IF j = i /\ plans[i] = 0 THEN pending[u][2] ELSE plans[j]
  BY <1>1, <1>2, <1>4
<1>6. /\ pending' \in [Planners -> (Board!Ids \X (1..MaxAdds)) \cup {<<0, 0>>}]
      /\ pending'[u] = <<0, 0>> /\ \A w \in Planners : w # u => pending'[w] = pending[w]
  BY <1>1, <1>2
<1>7. Board!TypeOK' /\ born' <= added'
  BY <1>1, <1>5, <1>6 DEF BoardInv, Board!TypeOK, Board!None, Board!Nothing
<1>8. BlockersKnown' /\ BaseKnown'
  BY <1>1 DEF BoardInv, BlockersKnown, BaseKnown
<1>9. PlansKnown'
  <2>1. ASSUME NEW j \in DOMAIN rows, plans'[j] # 0, plans'[j] # rows[j].task PROVE j \in reused
    BY <1>2, <1>5, <2>1 DEF BoardInv, PlansKnown, i
  <2>2. ASSUME NEW j \in DOMAIN rows, NEW w \in Planners, pending'[w][1] = j,
               pending'[w][2] # rows[j].task
        PROVE  j \in reused
    <3>1. j # 0
      BY <1>2 DEF Board!Ids
    <3>2. w # u
      BY <1>6, <2>2, <3>1
    <3> QED
      BY <1>6, <2>2, <3>2 DEF BoardInv, PlansKnown
  <2> QED
    BY <1>1, <2>1, <2>2 DEF PlansKnown
<1>10. Unfinished'
  <2> SUFFICES ASSUME NEW j \in DOMAIN rows, rows[j].plan, plans'[j] = 0
               PROVE  j \in cut \/ \E w \in Planners : pending'[w][1] = j
    BY <1>1 DEF Unfinished
  <2>1. plans[j] = 0 /\ j # i
    BY <1>2, <1>4, <1>5
  <2>2. j \in cut \/ \E w \in Planners : pending[w][1] = j
    BY <2>1 DEF BoardInv, Unfinished
  <2> QED
    BY <1>6, <2>1, <2>2 DEF i
<1> QED
  BY <1>7, <1>8, <1>9, <1>10 DEF BoardInv

\* The command ends between the board and the plan file.
LEMMA BoardInterrupt ==
  ASSUME BoardInv, NEW u \in Planners, Board!Interrupt(u)
  PROVE  BoardInv'
<1>1. /\ pending[u] # <<0, 0>> /\ pending' = [pending EXCEPT ![u] = <<0, 0>>]
      /\ cut' = cut \cup {pending[u][1]}
      /\ UNCHANGED <<rows, plans, base, added, born, reused>>
  BY DEF Board!Interrupt, Board!Nothing, Board!None
<1>2. /\ pending \in [Planners -> (Board!Ids \X (1..MaxAdds)) \cup {<<0, 0>>}]
      /\ DOMAIN rows \subseteq Board!Ids
  BY DEF BoardInv, Board!TypeOK, Board!None, Board!Nothing
<1>3. pending[u][1] \in Board!Ids
  BY <1>1, <1>2
<1>4. /\ pending' \in [Planners -> (Board!Ids \X (1..MaxAdds)) \cup {<<0, 0>>}]
      /\ pending'[u] = <<0, 0>> /\ \A w \in Planners : w # u => pending'[w] = pending[w]
  BY <1>1, <1>2
<1>5. Board!TypeOK' /\ born' <= added'
  BY <1>1, <1>3, <1>4 DEF BoardInv, Board!TypeOK, Board!None, Board!Nothing
<1>6. BlockersKnown' /\ BaseKnown'
  BY <1>1 DEF BoardInv, BlockersKnown, BaseKnown
<1>7. \A j \in DOMAIN rows : j # 0
  BY <1>2 DEF Board!Ids
<1>8. PlansKnown'
  <2>1. ASSUME NEW j \in DOMAIN rows, NEW w \in Planners, pending'[w][1] = j,
               pending'[w][2] # rows[j].task
        PROVE  j \in reused
    <3>1. w # u
      BY <1>4, <1>7, <2>1
    <3> QED
      BY <1>4, <2>1, <3>1 DEF BoardInv, PlansKnown
  <2> QED
    BY <1>1, <2>1 DEF BoardInv, PlansKnown
<1>9. Unfinished'
  BY <1>1, <1>4 DEF BoardInv, Unfinished
<1> QED
  BY <1>5, <1>6, <1>8, <1>9 DEF BoardInv

\* The board is committed: it becomes the base of the guard.
LEMMA BoardCommit ==
  ASSUME BoardInv, Board!Commit
  PROVE  BoardInv'
<1>1. /\ base' = [i \in DOMAIN rows |-> rows[i].task]
      /\ UNCHANGED <<rows, plans, pending, added, born, reused, cut>>
  BY DEF Board!Commit, Board!history
<1>2. Board!TypeOK' /\ born' <= added'
  BY <1>1 DEF BoardInv, Board!TypeOK
<1>3. BlockersKnown' /\ PlansKnown' /\ BaseKnown' /\ Unfinished'
  BY <1>1 DEF BoardInv, BlockersKnown, PlansKnown, BaseKnown, Unfinished
<1> QED
  BY <1>2, <1>3 DEF BoardInv

\* Every step of the board preserves its invariant.
LEMMA BoardInvInductive == BoardInv /\ [Board!Next]_boardVars => BoardInv'
<1> SUFFICES ASSUME BoardInv, [Board!Next]_boardVars PROVE BoardInv'
  OBVIOUS
<1>1. CASE UNCHANGED boardVars
  BY <1>1 DEF boardVars, BoardInv, Board!TypeOK, BlockersKnown, PlansKnown, BaseKnown, Unfinished
<1>2. ASSUME NEW u \in Planners, Board!Add(u) \/ Board!AddWithId(u) PROVE BoardInv'
  <2>1. PICK i, by \in Board!Ids \cup {0}, keywords \in BOOLEAN : Board!OpAdd(u, i, by, keywords)
    <3>1. CASE Board!Add(u)
      <4>1. PICK by \in Board!Ids \cup {0}, keywords \in BOOLEAN :
              Board!OpAdd(u, Board!NextId, by, keywords)
        BY <3>1 DEF Board!Add, Board!None
      <4>2. PICK i : i = Board!NextId
        OBVIOUS
      <4>3. Board!OpAdd(u, i, by, keywords)
        BY <4>1, <4>2 DEF Board!OpAdd
      <4>4. i \in Board!Ids
        BY <4>3 DEF Board!OpAdd
      <4> QED
        BY <4>3, <4>4
    <3>2. CASE Board!AddWithId(u)
      BY <3>2 DEF Board!AddWithId, Board!None
    <3> QED
      BY <1>2, <3>1, <3>2
  <2> QED
    BY <2>1, BoardAdd
<1>3. ASSUME NEW u \in Planners, Board!EnsurePlanFile(u) \/ Board!Interrupt(u) PROVE BoardInv'
  BY <1>3, BoardPlan, BoardInterrupt
<1>4. ASSUME NEW i \in Board!Ids, Board!OpRemove(i) PROVE BoardInv'
  BY <1>4, BoardWithout DEF Board!OpRemove
<1>5. ASSUME NEW i \in Board!Ids, NEW s \in Board!Statuses, Board!OpStatus(i, s) PROVE BoardInv'
  BY <1>5, BoardStatus
<1>6. CASE Board!OpNext
  <2>1. PICK i \in Board!NextExecutable : Board!OpStatus(i, "In Progress")
    BY <1>6 DEF Board!OpNext
  <2>2. i \in Board!Ids /\ "In Progress" \in Board!Statuses
    BY <2>1 DEF Board!OpStatus, Board!Statuses, BoardInv, Board!TypeOK
  <2> QED
    BY <2>1, <2>2, BoardStatus
<1>7. CASE Board!OpClean
  BY <1>7, BoardWithout DEF Board!OpClean
<1>8. CASE Board!Commit
  BY <1>8, BoardCommit
<1> QED
  BY <1>1, <1>2, <1>3, <1>4, <1>5, <1>6, <1>7, <1>8 DEF Board!Next

\* It holds at first.
LEMMA BoardInitially == Board!Init => BoardInv
  BY HelpersAssumption
  DEF Board!Init, BoardInv, Board!TypeOK, BlockersKnown, PlansKnown, BaseKnown, Unfinished,
      Board!None, Board!Nothing

\* Nothing is under way or blocked.
Drained == Board!With("In Progress") = {} /\ Board!With("Blocked") = {}

\* Of the rows in Backlog the one with the oldest task waits for none of them.
LEMMA OldestIsReady ==
  ASSUME BoardInv, Drained, \A i \in DOMAIN rows : Board!Sound(i), Board!With("Backlog") # {}
  PROVE  Board!BacklogCandidates # {}
<1> DEFINE Tasks == {rows[i].task : i \in Board!With("Backlog")}
<1>1. \A i \in DOMAIN rows : rows[i].task \in Nat /\ rows[i].meant \in Nat
  <2>1. \A i \in DOMAIN rows : rows[i] \in Row
    BY DEF BoardInv, Board!TypeOK, Board!None
  <2> QED
    BY HelpersAssumption, <2>1
<1>2. Tasks \in SUBSET Nat /\ Tasks # {}
  BY <1>1 DEF Board!With
<1>3. PICK t \in Tasks : \A v \in Tasks : t <= v
  BY <1>2, LeastNatural
<1>4. PICK i \in Board!With("Backlog") : rows[i].task = t
  BY <1>3
<1>5. i \in DOMAIN rows
  BY <1>4 DEF Board!With
<1>6. Board!IsUnblocked(i)
  <2> SUFFICES ASSUME rows[i].by \in DOMAIN rows, rows[rows[i].by].status # "Done" PROVE FALSE
    BY DEF Board!IsUnblocked
  <2>1. rows[rows[i].by].task < rows[i].task
    BY <1>5 DEF Board!Sound, Board!TaskOf
  <2>2. rows[rows[i].by].status \in Board!Statuses
    BY DEF BoardInv, Board!TypeOK
  <2>3. rows[i].by \in Board!With("Backlog")
    BY <2>2 DEF Drained, Board!With, Board!Statuses
  <2>4. t <= rows[rows[i].by].task
    BY <1>3, <2>3
  <2>5. rows[rows[i].by].task \in Nat /\ rows[i].task \in Nat
    BY <1>1, <1>5
  <2> HIDE DEF Tasks
  <2> QED
    BY <1>4, <2>1, <2>4, <2>5
<1> QED
  BY <1>4, <1>6 DEF Board!BacklogCandidates

\* So a board with sound edges is never frozen.
LEMMA BoardMoves == BoardInv => Board!NeverFrozen
  BY OldestIsReady DEF Board!NeverFrozen, Board!NextExecutable, Drained

\* The properties of the board follow from its invariant.
LEMMA BoardWorks == BoardInv => Board!BoardStaysWorkable
<1> SUFFICES ASSUME BoardInv PROVE Board!BoardStaysWorkable
  OBVIOUS
<1>1. Board!StrangersNeedReuse
  BY DEF BoardInv, BlockersKnown, PlansKnown, BaseKnown, Board!StrangersNeedReuse, Board!TaskOf,
         Board!GuardKanban, Board!Overlooked, Board!Shown, Board!None
<1>2. Board!MissingIsUnfinished
  BY DEF BoardInv, Unfinished, Board!MissingIsUnfinished, Board!LintViolations, Board!None
<1> QED
  BY <1>1, <1>2, BoardMoves DEF Board!BoardStaysWorkable

-----------------------------------------------------------------------------
(* The hub daemon *)

\* A request is in the hands of a daemon that has not handled it.
InHand(c, i) == \E d \in Hubs : <<c, i, d>> \in frames

\* The client is done with it.
Returned(c, i) == i < op[c] \/ hubPc[c] = "idle"

\* It was applied once at most, more than twice, or not at all.
Once(c, i) == \A m, n \in Broker!Times(<<c, i>>) : m = n
Thrice(c, i) == \E l, m, n \in Broker!Times(<<c, i>>) : l # m /\ m # n /\ l # n
Never(c, i) == Broker!Times(<<c, i>>) = {}

\* A request has one frame, which its client waits for or gave up.
FramesAsked ==
  /\ \A f, g \in frames : f[1] = g[1] /\ f[2] = g[2] => f = g
  /\ \A f \in frames : /\ f[2] <= op[f[1]]
                       /\ f[2] < op[f[1]] \/ hubPc[f[1]] # "sent" => <<f[1], f[2]>> \in gaveUp

\* An answer is awaited, and true.
AnswersTrue ==
  \A a \in answers : /\ hubPc[a[1]] = "sent" /\ a[2] = op[a[1]] /\ ~InHand(a[1], a[2])
                     /\ a[3] = ~Never(a[1], a[2])

\* Nothing is applied or given up before it was asked for.
NothingAhead ==
  /\ \A n \in DOMAIN applied : applied[n][2] <= op[applied[n][1]]
  /\ \A o \in gaveUp : o[2] <= op[o[1]] /\ (o[2] = op[o[1]] => hubPc[o[1]] # "sent")
  /\ \A c \in HubClients : hubPc[c] # "idle" => op[c] > 0

\* What may have become of a write so far: once at most until it returns, unless its frame is
\* still to be handled; then once, or twice if it was given up.
WriteFate ==
  \A c \in HubClients, i \in 1..MaxOps : HubKind[c] = "write" /\ i <= op[c] =>
    /\ ~Returned(c, i) => /\ Once(c, i)
                          /\ InHand(c, i) => Never(c, i)
                          /\ hubPc[c] = "fallback" => Never(c, i) \/ <<c, i>> \in gaveUp
    /\ Returned(c, i) => /\ ~Never(c, i) /\ ~Thrice(c, i)
                         /\ InHand(c, i) => Once(c, i)
                         /\ Once(c, i) \/ <<c, i>> \in gaveUp

\* Events: once at most, none of those in hand, and in order but for those given up.
EmitFate ==
  \A c \in HubClients : HubKind[c] = "emit" =>
    /\ hubPc[c] # "fallback"
    /\ \A i \in 1..MaxOps : Once(c, i) /\ (InHand(c, i) => Never(c, i))
    /\ \A i, j \in 1..MaxOps : i < j /\ <<c, i>> \notin gaveUp =>
         \A m \in Broker!Times(<<c, i>>), n \in Broker!Times(<<c, j>>) : m < n

BrokerInv ==
  Broker!TypeOK /\ FramesAsked /\ AnswersTrue /\ NothingAhead /\ WriteFate /\ EmitFate

\* What the types say of each part of the state.
LEMMA BrokerTypes ==
  ASSUME Broker!TypeOK
  PROVE  /\ \A c \in HubClients : /\ op[c] \in Nat /\ op[c] <= MaxOps
                                  /\ hubPc[c] \in {"idle", "sent", "fallback"}
                                  /\ HubKind[c] \in {"write", "emit"}
         /\ \A f \in frames : /\ f[1] \in HubClients /\ f[2] \in 1..MaxOps /\ f[3] \in Hubs
                              /\ f = <<f[1], f[2], f[3]>> /\ InHand(f[1], f[2])
         /\ \A a \in answers : /\ a[1] \in HubClients /\ a[2] \in 1..MaxOps /\ a[3] \in BOOLEAN
                               /\ a = <<a[1], a[2], a[3]>>
         /\ \A o \in gaveUp : o[1] \in HubClients /\ o[2] \in 1..MaxOps /\ o = <<o[1], o[2]>>
         /\ Len(applied) \in Nat /\ DOMAIN applied = 1..Len(applied)
         /\ \A n \in DOMAIN applied : applied[n][1] \in HubClients /\ applied[n][2] \in 1..MaxOps
         /\ \A o : \A n \in Broker!Times(o) :
              n \in Nat /\ n <= Len(applied) /\ n \in DOMAIN applied /\ applied[n] = o
<1> USE HelpersAssumption DEF Broker!TypeOK, Broker!Ops
<1>1. \A c \in HubClients : /\ op[c] \in Nat /\ op[c] <= MaxOps
                            /\ hubPc[c] \in {"idle", "sent", "fallback"}
                            /\ HubKind[c] \in {"write", "emit"}
  OBVIOUS
<1>2. \A f \in frames : /\ f[1] \in HubClients /\ f[2] \in 1..MaxOps /\ f[3] \in Hubs
                        /\ f = <<f[1], f[2], f[3]>> /\ InHand(f[1], f[2])
  <2>1. \A f \in frames : /\ f[1] \in HubClients /\ f[2] \in 1..MaxOps /\ f[3] \in Hubs
                          /\ f = <<f[1], f[2], f[3]>>
    OBVIOUS
  <2>2. ASSUME NEW f \in frames PROVE InHand(f[1], f[2])
    <3>1. f[3] \in Hubs /\ <<f[1], f[2], f[3]>> \in frames
      BY <2>1
    <3> QED
      BY <3>1 DEF InHand
  <2> QED
    BY <2>1, <2>2
<1>3. \A a \in answers : /\ a[1] \in HubClients /\ a[2] \in 1..MaxOps /\ a[3] \in BOOLEAN
                         /\ a = <<a[1], a[2], a[3]>>
  OBVIOUS
<1>4. \A o \in gaveUp : o[1] \in HubClients /\ o[2] \in 1..MaxOps /\ o = <<o[1], o[2]>>
  OBVIOUS
<1>5. Len(applied) \in Nat /\ DOMAIN applied = 1..Len(applied)
  OBVIOUS
<1>6. \A n \in DOMAIN applied : applied[n] \in HubClients \X (1..MaxOps)
  OBVIOUS
<1>7. \A n \in DOMAIN applied : applied[n][1] \in HubClients /\ applied[n][2] \in 1..MaxOps
  BY <1>6
<1>8. \A o : \A n \in Broker!Times(o) : /\ n \in Nat /\ n <= Len(applied) /\ n \in DOMAIN applied
                                       /\ applied[n] = o
  BY <1>5 DEF Broker!Times
<1> QED
  BY <1>1, <1>2, <1>3, <1>4, <1>5, <1>7, <1>8

\* What is said of the places of a request stays while they do.
LEMMA SamePlaces ==
  ASSUME NEW c, NEW i, Broker!Times(<<c, i>>)' = Broker!Times(<<c, i>>)
  PROVE  /\ Once(c, i)' = Once(c, i) /\ Never(c, i)' = Never(c, i) /\ Thrice(c, i)' = Thrice(c, i)
BY DEF Once, Never, Thrice

\* Applying a request adds the last place to its places and leaves those of the others.
LEMMA TimesAppended ==
  ASSUME Broker!TypeOK, NEW p \in Broker!Ops, applied' = Append(applied, p)
  PROVE  /\ applied' \in Seq(Broker!Ops)
         /\ \A o : o # p => Broker!Times(o)' = Broker!Times(o)
         /\ Broker!Times(p)' = Broker!Times(p) \cup {Len(applied) + 1}
         /\ \A n \in DOMAIN applied' :
              applied'[n] = p \/ (n \in DOMAIN applied /\ applied'[n] = applied[n])
         /\ Len(applied) + 1 \notin Broker!Times(p)
<1>1. applied \in Seq(Broker!Ops)
  BY DEF Broker!TypeOK
<1>2. /\ applied' \in Seq(Broker!Ops) /\ Len(applied) \in Nat /\ DOMAIN applied = 1..Len(applied)
      /\ DOMAIN applied' = 1..(Len(applied) + 1) /\ applied'[Len(applied) + 1] = p
      /\ \A n \in 1..Len(applied) : applied'[n] = applied[n]
  BY <1>1
<1>3. \A o : Broker!Times(o)' = {n \in DOMAIN applied' : applied'[n] = o}
  BY DEF Broker!Times
<1>4. Len(applied) + 1 \notin Broker!Times(p)
  BY <1>2 DEF Broker!Times
<1>5. Broker!Times(p)' = Broker!Times(p) \cup {Len(applied) + 1}
  <2>1. \A n : n \in Broker!Times(p)' <=> n \in DOMAIN applied' /\ applied'[n] = p
    BY <1>3
  <2>2. \A n : n \in Broker!Times(p) <=> n \in DOMAIN applied /\ applied[n] = p
    BY DEF Broker!Times
  <2>3. \A n : n \in DOMAIN applied' <=> n \in DOMAIN applied \/ n = Len(applied) + 1
    BY <1>2
  <2> QED
    BY <1>2, <2>1, <2>2, <2>3
<1>6. ASSUME NEW o, o # p PROVE Broker!Times(o)' = Broker!Times(o)
  <2>1. \A n : n \in Broker!Times(o)' <=> n \in DOMAIN applied' /\ applied'[n] = o
    BY <1>3
  <2>2. \A n : n \in Broker!Times(o) <=> n \in DOMAIN applied /\ applied[n] = o
    BY DEF Broker!Times
  <2>3. \A n : n \in DOMAIN applied' <=> n \in DOMAIN applied \/ n = Len(applied) + 1
    BY <1>2
  <2> QED
    BY <1>2, <1>6, <2>1, <2>2, <2>3
<1> QED
  BY <1>2, <1>4, <1>5, <1>6

\* The daemons' own steps: frames may be lost.
LEMMA BrokerDaemon ==
  ASSUME BrokerInv, UNCHANGED <<hubPc, op, answers, applied, gaveUp>>, frames' \subseteq frames,
         hubSt' \in [Hubs -> {"off", "probe", "replace", "bind", "up", "closing", "dead"}],
         hubSock' \in Hubs \cup {"none", "stale"}
  PROVE  BrokerInv'
<1>1. /\ \A c, i : InHand(c, i)' => InHand(c, i)
      /\ \A o : Broker!Times(o)' = Broker!Times(o)
  BY DEF InHand, Broker!Times
<1>2. Broker!TypeOK'
  BY DEF BrokerInv, Broker!TypeOK, Broker!None
<1>3. FramesAsked'
  BY DEF BrokerInv, FramesAsked
<1>4. AnswersTrue' /\ NothingAhead'
  BY <1>1 DEF BrokerInv, AnswersTrue, NothingAhead, Never
<1>5. WriteFate'
  BY <1>1, SamePlaces DEF BrokerInv, WriteFate, Returned
<1>6. EmitFate'
  BY <1>1 DEF BrokerInv, EmitFate, Once, Never
<1> QED
  BY <1>2, <1>3, <1>4, <1>5, <1>6 DEF BrokerInv

\* A daemon handles a request: it applies it, or finds the store busy, and answers if it is awaited.
LEMMA BrokerHandle ==
  ASSUME BrokerInv, NEW f \in frames, Broker!Handle(f)
  PROVE  BrokerInv'
<1> DEFINE c == f[1]
           i == f[2]
<1>1. /\ frames' = frames \ {f} /\ UNCHANGED <<hubSt, hubSock, hubPc, op, gaveUp>>
  BY DEF Broker!Handle
<1>2. PICK ok \in BOOLEAN :
        /\ applied' = IF ok THEN Append(applied, <<c, i>>) ELSE applied
        /\ \/ answers' = answers
           \/ hubPc[c] = "sent" /\ op[c] = i /\ answers' = answers \cup {<<c, i, ok>>}
  BY DEF Broker!Handle
<1>3. /\ c \in HubClients /\ i \in 1..MaxOps /\ <<c, i>> \in Broker!Ops /\ InHand(c, i)
      /\ f = <<c, i, f[3]>>
      /\ i \in Nat
  BY BrokerTypes DEF BrokerInv, Broker!Ops
<1>4. i <= op[c] /\ (i < op[c] \/ hubPc[c] # "sent" => <<c, i>> \in gaveUp) /\ op[c] \in Nat
  BY <1>3, BrokerTypes DEF BrokerInv, FramesAsked
<1>5. \A g \in frames : g[1] = c /\ g[2] = i => g = f
  BY DEF BrokerInv, FramesAsked
<1> HIDE DEF c, i
<1>6. /\ ~InHand(c, i)' /\ \A d, j : InHand(d, j)' => InHand(d, j)
      /\ \A d, j : <<d, j>> # <<c, i>> => InHand(d, j)' = InHand(d, j)
  <2>1. ASSUME NEW e \in Hubs, <<c, i, e>> \in frames' PROVE FALSE
    BY <1>1, <1>5, <2>1
  <2>2. ~InHand(c, i)'
    BY <2>1 DEF InHand
  <2>3. \A d, j, e : <<d, j>> # <<c, i>> => (<<d, j, e>> \in frames' <=> <<d, j, e>> \in frames)
    BY <1>1, <1>3
  <2> QED
    BY <1>1, <2>2, <2>3 DEF InHand
<1>7. /\ \A o : o # <<c, i>> => Broker!Times(o)' = Broker!Times(o)
      /\ Broker!Times(<<c, i>>)' = IF ok THEN Broker!Times(<<c, i>>) \cup {Len(applied) + 1}
                                   ELSE Broker!Times(<<c, i>>)
      /\ applied' \in Seq(Broker!Ops)
      /\ \A n \in DOMAIN applied' :
           applied'[n] = <<c, i>> \/ (n \in DOMAIN applied /\ applied'[n] = applied[n])
  <2>1. CASE ok
    BY <1>2, <1>3, <2>1, TimesAppended DEF BrokerInv
  <2>2. CASE ~ok
    BY <1>2, <2>2 DEF BrokerInv, Broker!TypeOK, Broker!Times
  <2> QED
    BY <2>1, <2>2
<1>8. Broker!TypeOK'
  BY <1>1, <1>2, <1>3, <1>7 DEF BrokerInv, Broker!TypeOK
<1>9. FramesAsked'
  BY <1>1 DEF BrokerInv, FramesAsked
<1>10. AnswersTrue'
  <2> SUFFICES ASSUME NEW a \in answers'
               PROVE  /\ hubPc[a[1]] = "sent" /\ a[2] = op[a[1]] /\ ~InHand(a[1], a[2])'
                      /\ a[3] = ~Never(a[1], a[2])'
    BY <1>1 DEF AnswersTrue
  <2>1. CASE a = <<c, i, ok>> /\ hubPc[c] = "sent" /\ op[c] = i
    <3>0. ~Returned(c, i) /\ HubKind[c] \in {"write", "emit"}
      BY <1>3, <1>4, <2>1, HelpersAssumption DEF Returned
    <3>1. Never(c, i)
      BY <1>3, <1>4, <3>0 DEF BrokerInv, WriteFate, EmitFate
    <3> QED
      BY <1>6, <1>7, <2>1, <3>1 DEF Never
  <2>2. CASE a \in answers
    <3>1. /\ hubPc[a[1]] = "sent" /\ a[2] = op[a[1]] /\ ~InHand(a[1], a[2])
          /\ a[3] = ~Never(a[1], a[2])
      BY <2>2 DEF BrokerInv, AnswersTrue
    <3>2. <<a[1], a[2]>> # <<c, i>>
      BY <1>3, <3>1
    <3> QED
      BY <1>6, <1>7, <3>1, <3>2 DEF Never
  <2> QED
    BY <1>2, <2>1, <2>2
<1>11. NothingAhead'
  BY <1>1, <1>4, <1>7 DEF BrokerInv, NothingAhead
<1>12. WriteFate'
  <2> SUFFICES ASSUME NEW d \in HubClients, NEW j \in 1..MaxOps, HubKind[d] = "write", j <= op[d]
               PROVE  /\ ~Returned(d, j) => 
                           /\ Once(d, j)' /\ (InHand(d, j)' => Never(d, j)')
                           /\ hubPc[d] = "fallback" => Never(d, j)' \/ <<d, j>> \in gaveUp
                      /\ Returned(d, j) => 
                           /\ ~Never(d, j)' /\ ~Thrice(d, j)' /\ (InHand(d, j)' => Once(d, j)')
                           /\ Once(d, j)' \/ <<d, j>> \in gaveUp
    BY <1>1 DEF WriteFate, Returned
  <2>1. CASE <<d, j>> # <<c, i>>
    <3>1. Broker!Times(<<d, j>>)' = Broker!Times(<<d, j>>) /\ InHand(d, j)' = InHand(d, j)
      BY <1>6, <1>7, <2>1
    <3>2. Once(d, j)' = Once(d, j) /\ Never(d, j)' = Never(d, j) /\ Thrice(d, j)' = Thrice(d, j)
      BY <3>1, SamePlaces
    <3> QED
      BY <3>1, <3>2 DEF BrokerInv, WriteFate
  <2>2. CASE d = c /\ j = i
    <3>0. Never(c, i) => Once(c, i)'
      BY <1>7 DEF Never, Once
    <3>1. ~Returned(c, i) => Never(c, i) /\ Once(c, i)'
      BY <1>3, <1>4, <2>2, <3>0 DEF BrokerInv, WriteFate
    <3>2. Returned(c, i) => Once(c, i) /\ ~Never(c, i)
      BY <1>3, <1>4, <2>2 DEF BrokerInv, WriteFate
    <3>4. Once(c, i) /\ ~Never(c, i) => ~Thrice(c, i)' /\ ~Never(c, i)'
      BY <1>7 DEF Once, Never, Thrice
    <3>5. Returned(c, i) => <<c, i>> \in gaveUp
      BY <1>4 DEF Returned
    <3>3. hubPc[c] = "fallback" => <<c, i>> \in gaveUp
      BY <1>4
    <3> QED
      BY <1>6, <2>2, <3>1, <3>2, <3>3, <3>4, <3>5
  <2> QED
    BY <2>1, <2>2
<1>13. EmitFate'
  <2> SUFFICES ASSUME NEW d \in HubClients, HubKind[d] = "emit"
               PROVE  /\ \A j \in 1..MaxOps : Once(d, j)' /\ (InHand(d, j)' => Never(d, j)')
                      /\ \A j, k1 \in 1..MaxOps : j < k1 /\ <<d, j>> \notin gaveUp =>
                           \A m \in Broker!Times(<<d, j>>)', n \in Broker!Times(<<d, k1>>)' : m < n
    BY <1>1 DEF BrokerInv, EmitFate
  <2>1. ASSUME NEW j \in 1..MaxOps PROVE Once(d, j)' /\ (InHand(d, j)' => Never(d, j)')
    <3>1. CASE <<d, j>> # <<c, i>>
      BY <1>6, <1>7, <3>1, SamePlaces DEF BrokerInv, EmitFate
    <3>2. CASE d = c /\ j = i
      <4>1. Never(c, i)
        BY <1>3, <3>2 DEF BrokerInv, EmitFate
      <4> QED
        <5>1. Once(c, i)'
          BY <1>7, <4>1 DEF Once, Never
        <5> QED
          BY <1>6, <3>2, <5>1
    <3> QED
      BY <3>1, <3>2
  <2>2. ASSUME NEW j \in 1..MaxOps, NEW k1 \in 1..MaxOps, j < k1, <<d, j>> \notin gaveUp,
               NEW m \in Broker!Times(<<d, j>>)', NEW n \in Broker!Times(<<d, k1>>)'
        PROVE  m < n
    <3>1. CASE m \in Broker!Times(<<d, j>>) /\ n \in Broker!Times(<<d, k1>>)
      BY <2>2, <3>1 DEF BrokerInv, EmitFate
    <3>2. CASE n \notin Broker!Times(<<d, k1>>) /\ m \in Broker!Times(<<d, j>>)
      <4>1. n = Len(applied) + 1
        BY <1>7, <2>2, <3>2
      <4>2. m \in Nat /\ m <= Len(applied) /\ Len(applied) \in Nat
        BY <3>2, BrokerTypes DEF BrokerInv
      <4> QED
        BY <4>1, <4>2
    <3>3. CASE m \notin Broker!Times(<<d, j>>)
      <4>1. d = c /\ j = i /\ n \in Broker!Times(<<d, k1>>)
        BY <1>7, <2>2, <3>3
      <4>2. k1 <= op[d]
        BY <4>1, BrokerTypes DEF BrokerInv, NothingAhead
      <4>3. i < op[c]
        BY <1>4, <2>2, <4>1, <4>2
      <4> QED
        BY <1>4, <2>2, <4>1, <4>3
    <3> QED
      BY <3>1, <3>2, <3>3
  <2> QED
    BY <2>1, <2>2
<1> QED
  BY <1>8, <1>9, <1>10, <1>11, <1>12, <1>13 DEF BrokerInv

\* A client asks for its next operation.
LEMMA BrokerRequest ==
  ASSUME BrokerInv, NEW c \in HubClients, Broker!Request(c)
  PROVE  BrokerInv'
<1>0. PICK i : i = op[c] + 1
  OBVIOUS
<1>1. /\ hubPc[c] = "idle" /\ op[c] < MaxOps /\ op' = [op EXCEPT ![c] = i]
      /\ \/ /\ Broker!Live(hubSock) /\ frames' = frames \cup {<<c, i, hubSock>>}
            /\ hubPc' = [hubPc EXCEPT ![c] = "sent"]
         \/ hubPc' = [hubPc EXCEPT ![c] = Broker!WithoutAnswer(c)] /\ UNCHANGED frames
      /\ UNCHANGED <<hubSt, hubSock, answers, applied, gaveUp>>
  BY <1>0 DEF Broker!Request
<1>2. op[c] \in Nat /\ i \in 1..MaxOps /\ i \in Nat /\ i = op[c] + 1 /\ <<c, i>> \in Broker!Ops
  BY <1>0, <1>1, BrokerTypes, HelpersAssumption DEF BrokerInv, Broker!Ops
<1>3. /\ \A d \in HubClients : d # c => op'[d] = op[d] /\ hubPc'[d] = hubPc[d]
      /\ op'[c] = i /\ hubPc'[c] \in {"sent", "fallback", "idle"}
      /\ (HubKind[c] = "emit" => hubPc'[c] # "fallback")
      /\ (HubKind[c] = "write" => hubPc'[c] # "idle")
      /\ op' \in [HubClients -> 0..MaxOps]
      /\ hubPc' \in [HubClients -> {"idle", "sent", "fallback"}]
  <2>1. /\ Broker!WithoutAnswer(c) \in {"fallback", "idle"}
        /\ (HubKind[c] = "emit" => Broker!WithoutAnswer(c) = "idle")
        /\ (HubKind[c] = "write" => Broker!WithoutAnswer(c) = "fallback")
    BY HelpersAssumption DEF Broker!WithoutAnswer
  <2>2. op \in [HubClients -> 0..MaxOps] /\ hubPc \in [HubClients -> {"idle", "sent", "fallback"}]
    BY DEF BrokerInv, Broker!TypeOK
  <2>3. i \in 0..MaxOps
    BY <1>2
  <2>4. \E s \in {"sent", Broker!WithoutAnswer(c)} : hubPc' = [hubPc EXCEPT ![c] = s]
    BY <1>1
  <2>5. /\ op' \in [HubClients -> 0..MaxOps] /\ op'[c] = i
        /\ \A d \in HubClients : d # c => op'[d] = op[d]
    BY <1>1, <2>2, <2>3
  <2> QED
    BY <2>1, <2>2, <2>4, <2>5
<1>4. \A g \in frames' :
        g \in frames \/ (hubPc'[c] = "sent" /\ g = <<c, i, hubSock>> /\ hubSock \in Hubs)
  BY <1>1 DEF Broker!Live, BrokerInv, Broker!TypeOK
<1>5. frames' = frames \/ (frames' = frames \cup {<<c, i, hubSock>>} /\ hubSock \in Hubs)
  BY <1>1 DEF Broker!Live
<1>6. /\ \A g \in frames : ~(g[1] = c /\ g[2] = i) /\ (g[1] = c => <<g[1], g[2]>> \in gaveUp)
      /\ ~InHand(c, i)
  <2>1. ASSUME NEW g \in frames, g[1] = c PROVE g[2] # i /\ <<g[1], g[2]>> \in gaveUp
    BY <1>1, <1>2, <2>1, BrokerTypes DEF BrokerInv, FramesAsked
  <2> QED
    BY <2>1, BrokerTypes DEF InHand
<1>7. /\ \A o : Broker!Times(o)' = Broker!Times(o)
      /\ Broker!Times(<<c, i>>) = {} /\ <<c, i>> \notin gaveUp
  <2>1. ASSUME NEW n \in Broker!Times(<<c, i>>) PROVE FALSE
    <3>1. n \in DOMAIN applied /\ applied[n] = <<c, i>>
      BY BrokerTypes DEF BrokerInv
    <3>2. i <= op[c]
      BY <3>1 DEF BrokerInv, NothingAhead
    <3> QED
      BY <1>2, <3>2
  <2>2. ASSUME <<c, i>> \in gaveUp PROVE FALSE
    <3>1. i <= op[c]
      BY <2>2 DEF BrokerInv, NothingAhead
    <3> QED
      BY <1>2, <3>1
  <2> QED
    BY <1>1, <2>1, <2>2 DEF Broker!Times
<1>8. \A d, j : <<d, j>> # <<c, i>> => InHand(d, j)' = InHand(d, j)
  BY <1>5 DEF InHand
<1>9. Broker!TypeOK'
  <2>1. frames' \subseteq HubClients \X (1..MaxOps) \X Hubs
    BY <1>2, <1>5 DEF BrokerInv, Broker!TypeOK
  <2> QED
    BY <1>1, <1>3, <2>1 DEF BrokerInv, Broker!TypeOK, Broker!Ops
<1>10. FramesAsked'
  <2>1. ASSUME NEW g \in frames', NEW h \in frames', g[1] = h[1], g[2] = h[2] PROVE g = h
    <3>1. CASE g \in frames /\ h \in frames
      BY <2>1, <3>1 DEF BrokerInv, FramesAsked
    <3>2. CASE g \notin frames
      <4>1. g = <<c, i, hubSock>> /\ g[1] = c /\ g[2] = i
        BY <1>4, <3>2
      <4>2. h \notin frames
        BY <1>6, <2>1, <4>1
      <4> QED
        BY <1>4, <4>1, <4>2
    <3>3. CASE h \notin frames
      <4>1. h = <<c, i, hubSock>> /\ h[1] = c /\ h[2] = i
        BY <1>4, <3>3
      <4>2. g \notin frames
        BY <1>6, <2>1, <4>1
      <4> QED
        BY <1>4, <4>1, <4>2
    <3> QED
      BY <3>1, <3>2, <3>3
  <2>2. ASSUME NEW g \in frames'
        PROVE  /\ g[2] <= op'[g[1]]
               /\ g[2] < op'[g[1]] \/ hubPc'[g[1]] # "sent" => <<g[1], g[2]>> \in gaveUp
    <3>1. CASE g \notin frames
      BY <1>2, <1>3, <1>4, <3>1
    <3>2. CASE g \in frames /\ g[1] = c
      BY <1>1, <1>2, <1>3, <1>6, <3>2, BrokerTypes DEF BrokerInv, FramesAsked
    <3>3. CASE g \in frames /\ g[1] # c
      BY <1>3, <3>3, BrokerTypes DEF BrokerInv, FramesAsked
    <3> QED
      BY <3>1, <3>2, <3>3
  <2> QED
    BY <1>1, <2>1, <2>2 DEF FramesAsked
<1>11. AnswersTrue'
  <2> SUFFICES ASSUME NEW a \in answers
               PROVE  /\ hubPc'[a[1]] = "sent" /\ a[2] = op'[a[1]] /\ ~InHand(a[1], a[2])'
                      /\ a[3] = ~Never(a[1], a[2])'
    BY <1>1 DEF AnswersTrue
  <2>1. /\ hubPc[a[1]] = "sent" /\ a[2] = op[a[1]] /\ ~InHand(a[1], a[2])
        /\ a[3] = ~Never(a[1], a[2]) /\ a[1] \in HubClients
    BY BrokerTypes DEF BrokerInv, AnswersTrue
  <2>2. a[1] # c
    BY <1>1, <2>1
  <2> QED
    <3>1. Never(a[1], a[2])' <=> Never(a[1], a[2])
      BY <1>7, SamePlaces
    <3>2. InHand(a[1], a[2])' <=> InHand(a[1], a[2])
      BY <1>8, <2>2
    <3> QED
      BY <1>3, <2>1, <2>2, <3>1, <3>2
<1>12. NothingAhead'
  <2>1. \A n \in DOMAIN applied : applied[n][2] <= op'[applied[n][1]]
    <3>1. ASSUME NEW n \in DOMAIN applied PROVE applied[n][2] <= op'[applied[n][1]]
      <4>1. /\ applied[n][1] \in HubClients /\ applied[n][2] \in Nat
            /\ applied[n][2] <= op[applied[n][1]]
        BY BrokerTypes DEF BrokerInv, NothingAhead
      <4> QED
        BY <1>2, <1>3, <4>1
    <3> QED
      BY <3>1
  <2>2. ASSUME NEW o \in gaveUp
        PROVE o[2] <= op'[o[1]] /\ (o[2] = op'[o[1]] => hubPc'[o[1]] # "sent")
    <3>1. /\ o[1] \in HubClients /\ o[2] \in Nat /\ o[2] <= op[o[1]]
          /\ (o[2] = op[o[1]] => hubPc[o[1]] # "sent")
      BY BrokerTypes DEF BrokerInv, NothingAhead
    <3> QED
      BY <1>2, <1>3, <3>1
  <2>3. \A d \in HubClients : hubPc'[d] # "idle" => op'[d] > 0
    BY <1>2, <1>3 DEF BrokerInv, NothingAhead
  <2> QED
    BY <1>1, <2>1, <2>2, <2>3 DEF NothingAhead
<1>13. WriteFate'
  <2> SUFFICES ASSUME NEW d \in HubClients, NEW j \in 1..MaxOps, HubKind[d] = "write", j <= op'[d]
               PROVE  /\ ~Returned(d, j)' => 
                           /\ Once(d, j)' /\ (InHand(d, j)' => Never(d, j)')
                           /\ hubPc'[d] = "fallback" => Never(d, j)' \/ <<d, j>> \in gaveUp
                      /\ Returned(d, j)' => 
                           /\ ~Never(d, j)' /\ ~Thrice(d, j)' /\ (InHand(d, j)' => Once(d, j)')
                           /\ Once(d, j)' \/ <<d, j>> \in gaveUp
    BY <1>1 DEF WriteFate
  <2>1. Once(d, j)' = Once(d, j) /\ Never(d, j)' = Never(d, j) /\ Thrice(d, j)' = Thrice(d, j)
    BY <1>7, SamePlaces
  <2>2. CASE d # c
    BY <1>3, <1>8, <2>1, <2>2 DEF BrokerInv, WriteFate, Returned
  <2>3. CASE d = c /\ j # i
    <3>1. j <= op[c] /\ j < op'[c]
      BY <1>2, <1>3, <2>3
    <3>2. Returned(d, j) /\ Returned(d, j)'
      BY <1>1, <2>3, <3>1 DEF Returned
    <3> QED
      BY <1>8, <2>1, <2>3, <3>1, <3>2 DEF BrokerInv, WriteFate
  <2>4. CASE d = c /\ j = i
    <3>1. ~Returned(d, j)'
      BY <1>2, <1>3, <2>4 DEF Returned
    <3>2. Never(d, j) /\ Once(d, j)
      BY <1>7, <2>4 DEF Never, Once
    <3> QED
      BY <2>1, <3>1, <3>2
  <2> QED
    BY <2>2, <2>3, <2>4
<1>14. EmitFate'
  <2> SUFFICES ASSUME NEW d \in HubClients, HubKind[d] = "emit"
               PROVE  /\ hubPc'[d] # "fallback"
                      /\ \A j \in 1..MaxOps : Once(d, j)' /\ (InHand(d, j)' => Never(d, j)')
    BY <1>1, <1>7 DEF BrokerInv, EmitFate
  <2>1. hubPc'[d] # "fallback"
    BY <1>3 DEF BrokerInv, EmitFate
  <2>2. ASSUME NEW j \in 1..MaxOps PROVE Once(d, j)' /\ (InHand(d, j)' => Never(d, j)')
    <3>1. Once(d, j)' = Once(d, j) /\ Never(d, j)' = Never(d, j)
      BY <1>7, SamePlaces
    <3>2. CASE <<d, j>> = <<c, i>>
      BY <1>7, <3>1, <3>2 DEF Never, Once
    <3>3. CASE <<d, j>> # <<c, i>>
      BY <1>8, <3>1, <3>3 DEF BrokerInv, EmitFate
    <3> QED
      BY <3>2, <3>3
  <2> QED
    BY <2>1, <2>2
<1> QED
  BY <1>9, <1>10, <1>11, <1>12, <1>13, <1>14 DEF BrokerInv

\* The client hears, or has waited long enough: a request that is not confirmed is given up by a
\* run, and goes on to the file itself when it is a write.
LEMMA BrokerHears ==
  ASSUME BrokerInv, NEW c \in HubClients, Broker!Answer(c) \/ Broker!Timeout(c)
  PROVE  BrokerInv'
<1>0. PICK i : i = op[c]
  OBVIOUS
<1>1. /\ hubPc[c] = "sent" /\ answers' = {a \in answers : a[1] # c}
      /\ UNCHANGED <<hubSt, hubSock, op, frames, applied>>
      /\ \/ \E ok \in BOOLEAN : 
              /\ <<c, i, ok>> \in answers /\ UNCHANGED gaveUp
              /\ hubPc' = [hubPc EXCEPT ![c] = IF ok THEN "idle" ELSE Broker!WithoutAnswer(c)]
         \/ /\ gaveUp' = gaveUp \cup {<<c, i>>}
            /\ hubPc' = [hubPc EXCEPT ![c] = Broker!WithoutAnswer(c)]
  BY <1>0 DEF Broker!Answer, Broker!Timeout
<1>2. i = op[c] /\ i \in Nat /\ i \in 1..MaxOps /\ <<c, i>> \in Broker!Ops
  BY <1>0, <1>1, BrokerTypes, HelpersAssumption DEF BrokerInv, NothingAhead, Broker!Ops
<1>3. \A ok \in BOOLEAN : <<c, i, ok>> \in answers => ~InHand(c, i) /\ ok = ~Never(c, i)
  BY <1>2 DEF BrokerInv, AnswersTrue
<1>4. /\ \A d \in HubClients : d # c => hubPc'[d] = hubPc[d]
      /\ hubPc'[c] \in {"fallback", "idle"}
      /\ hubPc' \in [HubClients -> {"idle", "sent", "fallback"}]
      /\ (HubKind[c] = "emit" => hubPc'[c] = "idle")
  BY <1>1, HelpersAssumption DEF BrokerInv, Broker!TypeOK, Broker!WithoutAnswer
<1>5. /\ HubKind[c] = "write" /\ hubPc'[c] = "idle" => ~Never(c, i) /\ ~InHand(c, i)
      /\ hubPc'[c] = "fallback" => Never(c, i) \/ <<c, i>> \in gaveUp'
      /\ InHand(c, i) => <<c, i>> \in gaveUp'
  <2>1. hubPc'[c] = "idle" /\ HubKind[c] = "write" => <<c, i, TRUE>> \in answers
    BY <1>1, HelpersAssumption DEF BrokerInv, Broker!TypeOK, Broker!WithoutAnswer
  <2>2. hubPc'[c] = "fallback" => <<c, i, FALSE>> \in answers \/ <<c, i>> \in gaveUp'
    BY <1>1, HelpersAssumption DEF BrokerInv, Broker!TypeOK, Broker!WithoutAnswer
  <2>3. <<c, i>> \in gaveUp' \/ \E ok \in BOOLEAN : <<c, i, ok>> \in answers
    BY <1>1
  <2> QED
    BY <1>3, <2>1, <2>2, <2>3
<1>6. /\ gaveUp \subseteq gaveUp' /\ gaveUp' \subseteq gaveUp \cup {<<c, i>>}
      /\ \A d, j : InHand(d, j)' = InHand(d, j)
      /\ \A o : Broker!Times(o)' = Broker!Times(o)
  BY <1>1 DEF InHand, Broker!Times
<1>7. Broker!TypeOK'
  BY <1>1, <1>2, <1>4, <1>6 DEF BrokerInv, Broker!TypeOK
<1>8. FramesAsked'
  <2>1. ASSUME NEW g \in frames, g[2] < op[g[1]] \/ hubPc'[g[1]] # "sent"
        PROVE <<g[1], g[2]>> \in gaveUp'
    <3>1. CASE g[1] # c
      BY <1>4, <1>6, <2>1, <3>1, BrokerTypes DEF BrokerInv, FramesAsked
    <3>2. CASE g[1] = c /\ g[2] = i
      BY <1>5, <3>2, BrokerTypes DEF BrokerInv
    <3>3. CASE g[1] = c /\ g[2] # i
      BY <1>2, <1>6, <3>3, BrokerTypes DEF BrokerInv, FramesAsked
    <3> QED
      BY <3>1, <3>2, <3>3
  <2> QED
    BY <1>1, <2>1 DEF BrokerInv, FramesAsked
<1>9. AnswersTrue'
  <2> SUFFICES ASSUME NEW a \in answers, a[1] # c
               PROVE  /\ hubPc'[a[1]] = "sent" /\ a[2] = op[a[1]] /\ ~InHand(a[1], a[2])'
                      /\ a[3] = ~Never(a[1], a[2])'
    BY <1>1 DEF AnswersTrue
  <2> QED
    <3>1. /\ hubPc[a[1]] = "sent" /\ a[2] = op[a[1]] /\ ~InHand(a[1], a[2])
          /\ a[3] = ~Never(a[1], a[2]) /\ a[1] \in HubClients
      BY BrokerTypes DEF BrokerInv, AnswersTrue
    <3>2. Never(a[1], a[2])' <=> Never(a[1], a[2])
      BY <1>6, SamePlaces
    <3>3. InHand(a[1], a[2])' <=> InHand(a[1], a[2])
      BY <1>6
    <3> QED
      BY <1>4, <3>1, <3>2, <3>3
<1>10. NothingAhead'
  <2>1. ASSUME NEW o \in gaveUp'
        PROVE o[2] <= op[o[1]] /\ (o[2] = op[o[1]] => hubPc'[o[1]] # "sent")
    <3>1. CASE o \in gaveUp
      BY <1>4, <3>1, BrokerTypes DEF BrokerInv, NothingAhead
    <3>2. CASE o = <<c, i>>
      BY <1>2, <1>4, <3>2
    <3> QED
      BY <1>6, <3>1, <3>2
  <2>2. \A d \in HubClients : hubPc'[d] # "idle" => op[d] > 0
    BY <1>1, <1>4 DEF BrokerInv, NothingAhead
  <2> QED
    BY <1>1, <2>1, <2>2 DEF BrokerInv, NothingAhead
<1>11. WriteFate'
  <2> SUFFICES ASSUME NEW d \in HubClients, NEW j \in 1..MaxOps, HubKind[d] = "write", j <= op[d]
               PROVE  /\ ~Returned(d, j)' => 
                           /\ Once(d, j)' /\ (InHand(d, j)' => Never(d, j)')
                           /\ hubPc'[d] = "fallback" => Never(d, j)' \/ <<d, j>> \in gaveUp'
                      /\ Returned(d, j)' => 
                           /\ ~Never(d, j)' /\ ~Thrice(d, j)' /\ (InHand(d, j)' => Once(d, j)')
                           /\ Once(d, j)' \/ <<d, j>> \in gaveUp'
    BY <1>1 DEF WriteFate
  <2>1. /\ Once(d, j)' = Once(d, j) /\ Never(d, j)' = Never(d, j) /\ Thrice(d, j)' = Thrice(d, j)
        /\ InHand(d, j)' = InHand(d, j)
    BY <1>6, SamePlaces
  <2>2. CASE d # c
    BY <1>1, <1>4, <1>6, <2>1, <2>2 DEF BrokerInv, WriteFate, Returned
  <2>3. CASE d = c /\ j < i
    <3>1. Returned(d, j) /\ Returned(d, j)' /\ ~(~Returned(d, j))'
      BY <1>1, <1>2, <2>3 DEF Returned
    <3> QED
      BY <1>6, <2>1, <3>1 DEF BrokerInv, WriteFate
  <2>4. CASE d = c /\ j = i
    <3>1. ~Returned(d, j) /\ (Returned(d, j)' <=> hubPc'[c] = "idle")
      BY <1>1, <1>2, <2>4 DEF Returned
    <3>2. Once(d, j) /\ (InHand(d, j) => Never(d, j))
      BY <3>1 DEF BrokerInv, WriteFate
    <3>3. Once(d, j) => ~Thrice(d, j)
      BY DEF Once, Thrice
    <3> QED
      BY <1>5, <2>1, <2>4, <3>1, <3>2, <3>3
  <2> QED
    BY <1>2, <2>2, <2>3, <2>4
<1>12. EmitFate'
  <2> SUFFICES ASSUME NEW d \in HubClients, HubKind[d] = "emit"
               PROVE  /\ hubPc'[d] # "fallback"
                      /\ \A j \in 1..MaxOps : Once(d, j)' /\ (InHand(d, j)' => Never(d, j)')
    BY <1>1, <1>6 DEF BrokerInv, EmitFate
  <2>1. hubPc'[d] # "fallback"
    BY <1>4 DEF BrokerInv, EmitFate
  <2>2. ASSUME NEW j \in 1..MaxOps PROVE Once(d, j)' /\ (InHand(d, j)' => Never(d, j)')
    <3>1. Once(d, j)' = Once(d, j) /\ Never(d, j)' = Never(d, j) /\ InHand(d, j)' = InHand(d, j)
      BY <1>6, SamePlaces
    <3> QED
      BY <3>1 DEF BrokerInv, EmitFate
  <2> QED
    BY <2>1, <2>2
<1> QED
  BY <1>7, <1>8, <1>9, <1>10, <1>11, <1>12 DEF BrokerInv

\* A writer without an answer applies the operation itself.
LEMMA BrokerLocal ==
  ASSUME BrokerInv, NEW c \in HubClients, Broker!ApplyLocally(c)
  PROVE  BrokerInv'
<1>0. PICK i : i = op[c]
  OBVIOUS
<1>1. /\ hubPc[c] = "fallback" /\ hubPc' = [hubPc EXCEPT ![c] = "idle"]
      /\ applied' = Append(applied, <<c, i>>)
      /\ UNCHANGED <<hubSt, hubSock, op, frames, answers, gaveUp>>
  BY <1>0 DEF Broker!ApplyLocally
<1>2. /\ i = op[c] /\ i \in Nat /\ i \in 1..MaxOps /\ <<c, i>> \in Broker!Ops
      /\ HubKind[c] = "write"
  BY <1>0, <1>1, BrokerTypes, HelpersAssumption DEF BrokerInv, NothingAhead, EmitFate, Broker!Ops
<1>3. /\ \A d \in HubClients : d # c => hubPc'[d] = hubPc[d]
      /\ hubPc'[c] = "idle" /\ hubPc' \in [HubClients -> {"idle", "sent", "fallback"}]
  BY <1>1 DEF BrokerInv, Broker!TypeOK
<1>4. /\ applied' \in Seq(Broker!Ops)
      /\ \A o : o # <<c, i>> => Broker!Times(o)' = Broker!Times(o)
      /\ Broker!Times(<<c, i>>)' = Broker!Times(<<c, i>>) \cup {Len(applied) + 1}
      /\ \A n \in DOMAIN applied' :
           applied'[n] = <<c, i>> \/ (n \in DOMAIN applied /\ applied'[n] = applied[n])
  BY <1>1, <1>2, TimesAppended DEF BrokerInv
<1>5. \A d, j : InHand(d, j)' = InHand(d, j)
  BY <1>1 DEF InHand
<1>6. Broker!TypeOK'
  BY <1>1, <1>3, <1>4 DEF BrokerInv, Broker!TypeOK
<1>7. FramesAsked'
  <2>1. ASSUME NEW g \in frames, g[2] < op[g[1]] \/ hubPc'[g[1]] # "sent"
        PROVE <<g[1], g[2]>> \in gaveUp
    BY <1>1, <1>3, <2>1, BrokerTypes DEF BrokerInv, FramesAsked
  <2> QED
    BY <1>1, <2>1 DEF BrokerInv, FramesAsked
<1>8. AnswersTrue'
  <2> SUFFICES ASSUME NEW a \in answers
               PROVE  /\ hubPc'[a[1]] = "sent" /\ a[2] = op[a[1]] /\ ~InHand(a[1], a[2])'
                      /\ a[3] = ~Never(a[1], a[2])'
    BY <1>1 DEF AnswersTrue
  <2>1. /\ hubPc[a[1]] = "sent" /\ a[2] = op[a[1]] /\ ~InHand(a[1], a[2])
        /\ a[3] = ~Never(a[1], a[2]) /\ a[1] \in HubClients
    BY BrokerTypes DEF BrokerInv, AnswersTrue
  <2>2. a[1] # c
    BY <1>1, <2>1
  <2>3. <<a[1], a[2]>> # <<c, i>>
    BY <2>2
  <2> QED
    <3>1. Never(a[1], a[2])' <=> Never(a[1], a[2])
      BY <1>4, <2>3, SamePlaces
    <3>2. InHand(a[1], a[2])' <=> InHand(a[1], a[2])
      BY <1>5
    <3> QED
      BY <1>3, <2>1, <2>2, <3>1, <3>2
<1>9. NothingAhead'
  <2>1. \A n \in DOMAIN applied' : applied'[n][2] <= op[applied'[n][1]]
    BY <1>2, <1>4 DEF BrokerInv, NothingAhead
  <2>2. ASSUME NEW o \in gaveUp PROVE o[2] = op[o[1]] => hubPc'[o[1]] # "sent"
    BY <1>3, BrokerTypes DEF BrokerInv, NothingAhead
  <2>3. \A d \in HubClients : hubPc'[d] # "idle" => op[d] > 0
    BY <1>3 DEF BrokerInv, NothingAhead
  <2> QED
    BY <1>1, <2>1, <2>2, <2>3 DEF BrokerInv, NothingAhead
<1>10. WriteFate'
  <2> SUFFICES ASSUME NEW d \in HubClients, NEW j \in 1..MaxOps, HubKind[d] = "write", j <= op[d]
               PROVE  /\ ~Returned(d, j)' => 
                           /\ Once(d, j)' /\ (InHand(d, j)' => Never(d, j)')
                           /\ hubPc'[d] = "fallback" => Never(d, j)' \/ <<d, j>> \in gaveUp
                      /\ Returned(d, j)' => 
                           /\ ~Never(d, j)' /\ ~Thrice(d, j)' /\ (InHand(d, j)' => Once(d, j)')
                           /\ Once(d, j)' \/ <<d, j>> \in gaveUp
    BY <1>1 DEF WriteFate
  <2>1. CASE <<d, j>> # <<c, i>>
    <3>1. /\ Once(d, j)' = Once(d, j) /\ Never(d, j)' = Never(d, j) /\ Thrice(d, j)' = Thrice(d, j)
          /\ InHand(d, j)' = InHand(d, j)
      BY <1>4, <1>5, <2>1, SamePlaces
    <3>2. Returned(d, j)' = Returned(d, j) /\ (hubPc'[d] = "fallback" => hubPc[d] = "fallback")
      BY <1>1, <1>2, <1>3, <2>1 DEF Returned
    <3> QED
      BY <3>1, <3>2 DEF BrokerInv, WriteFate
  <2>2. CASE d = c /\ j = i
    <3>1. Returned(d, j)' /\ ~Returned(d, j)
      BY <1>1, <1>2, <1>3, <2>2 DEF Returned
    <3>2. /\ Once(c, i) /\ (InHand(c, i) => Never(c, i)) /\ (Never(c, i) \/ <<c, i>> \in gaveUp)
      BY <1>1, <2>2, <3>1 DEF BrokerInv, WriteFate
    <3>3. Never(c, i) => Once(c, i)'
      BY <1>4 DEF Never, Once
    <3>4. Once(c, i) => ~Thrice(c, i)' /\ ~Never(c, i)'
      BY <1>4 DEF Once, Never, Thrice
    <3> QED
      BY <1>5, <2>2, <3>1, <3>2, <3>3, <3>4
  <2> QED
    BY <2>1, <2>2
<1>11. EmitFate'
  <2> SUFFICES ASSUME NEW d \in HubClients, HubKind[d] = "emit"
               PROVE  /\ hubPc'[d] # "fallback"
                      /\ \A j \in 1..MaxOps : /\ Broker!Times(<<d, j>>)' = Broker!Times(<<d, j>>)
                                             /\ Once(d, j)' /\ (InHand(d, j)' => Never(d, j)')
    <3>1. ASSUME NEW d \in HubClients, HubKind[d] = "emit", NEW i1 \in 1..MaxOps,
                 NEW j1 \in 1..MaxOps,
                 i1 < j1, <<d, i1>> \notin gaveUp',
                 Broker!Times(<<d, i1>>)' = Broker!Times(<<d, i1>>),
                 Broker!Times(<<d, j1>>)' = Broker!Times(<<d, j1>>)
          PROVE  \A m \in Broker!Times(<<d, i1>>)', n \in Broker!Times(<<d, j1>>)' : m < n
      BY <1>1, <3>1 DEF BrokerInv, EmitFate
    <3> QED
      BY <1>1, <3>1 DEF EmitFate
  <2>1. hubPc'[d] # "fallback" /\ d # c
    BY <1>2, <1>3, HelpersAssumption DEF BrokerInv, EmitFate
  <2>2. ASSUME NEW j \in 1..MaxOps
        PROVE  /\ Broker!Times(<<d, j>>)' = Broker!Times(<<d, j>>)
               /\ Once(d, j)' /\ (InHand(d, j)' => Never(d, j)')
    <3>1. Broker!Times(<<d, j>>)' = Broker!Times(<<d, j>>)
      BY <1>4, <2>1
    <3>2. Once(d, j)' = Once(d, j) /\ Never(d, j)' = Never(d, j) /\ InHand(d, j)' = InHand(d, j)
      BY <1>5, <3>1, SamePlaces
    <3> QED
      BY <3>1, <3>2 DEF BrokerInv, EmitFate
  <2> QED
    BY <2>1, <2>2
<1> QED
  BY <1>6, <1>7, <1>8, <1>9, <1>10, <1>11 DEF BrokerInv

\* So every step of the hub preserves what is known of it.
LEMMA BrokerInvInductive == BrokerInv /\ [Broker!Next]_brokerVars => BrokerInv'
<1> SUFFICES ASSUME BrokerInv, [Broker!Next]_brokerVars PROVE BrokerInv'
  OBVIOUS
<1>1. CASE UNCHANGED brokerVars
  BY <1>1, BrokerDaemon DEF brokerVars, BrokerInv, Broker!TypeOK, Broker!None
<1>2. ASSUME NEW d \in Hubs,
             Broker!LookForSocket(d) \/ Broker!Probe(d) \/ Broker!RemoveStale(d) \/ Broker!Bind(d)
               \/ Broker!Close(d) \/ Broker!Die(d)
      PROVE  BrokerInv'
  <2>1. /\ UNCHANGED <<hubPc, op, answers, applied, gaveUp>> /\ frames' \subseteq frames
        /\ hubSt' \in [Hubs -> {"off", "probe", "replace", "bind", "up", "closing", "dead"}]
        /\ hubSock' \in Hubs \cup {"none", "stale"}
    BY <1>2 DEF BrokerInv, Broker!TypeOK, Broker!None, Broker!clientVars, Broker!LookForSocket,
           Broker!Probe, Broker!RemoveStale, Broker!Bind, Broker!Close, Broker!Die
  <2> QED
    BY <2>1, BrokerDaemon
<1>3. ASSUME NEW f \in frames, Broker!Handle(f) PROVE BrokerInv'
  BY <1>3, BrokerHandle
<1>4. ASSUME NEW c \in HubClients, Broker!Request(c) \/ Broker!Answer(c) \/ Broker!Timeout(c)
                                    \/ Broker!ApplyLocally(c)
      PROVE  BrokerInv'
  BY <1>4, BrokerRequest, BrokerHears, BrokerLocal
<1> QED
  BY <1>1, <1>2, <1>3, <1>4 DEF Broker!Next

\* And nothing was asked for at first.
LEMMA BrokerInitially == Broker!Init => BrokerInv
<1> SUFFICES ASSUME Broker!Init PROVE BrokerInv
  OBVIOUS
<1>1. /\ hubSt = [d \in Hubs |-> "off"] /\ hubSock \in {"none", "stale"}
      /\ frames = {} /\ answers = {}
      /\ hubPc = [c \in HubClients |-> "idle"] /\ op = [c \in HubClients |-> 0]
      /\ applied = <<>> /\ gaveUp = {}
  BY DEF Broker!Init, Broker!None
<1>2. Broker!TypeOK
  BY <1>1, HelpersAssumption DEF Broker!TypeOK, Broker!None
<1>3. FramesAsked /\ AnswersTrue /\ NothingAhead
  BY <1>1 DEF FramesAsked, AnswersTrue, NothingAhead
<1>4. WriteFate
  BY <1>1, HelpersAssumption DEF WriteFate
<1>5. \A o : Broker!Times(o) = {}
  BY <1>1 DEF Broker!Times
<1>6. EmitFate
  BY <1>1, <1>5 DEF EmitFate, Once, Never
<1> QED
  BY <1>2, <1>3, <1>4, <1>6 DEF BrokerInv

\* What the run checks follows.
LEMMA RequestsDo == BrokerInv => Broker!RequestsTakeEffect
<1> SUFFICES ASSUME BrokerInv PROVE Broker!RequestsTakeEffect
  OBVIOUS
<1>1. \A c \in HubClients : \A i \in 1..op[c] : i \in 1..MaxOps /\ i <= op[c] /\ i \in Nat
  BY BrokerTypes, HelpersAssumption DEF BrokerInv
<1>2. Broker!WritesApplied
  <2> SUFFICES ASSUME NEW c \in HubClients, HubKind[c] = "write", NEW i \in 1..op[c]
               PROVE  /\ i < op[c] \/ hubPc[c] = "idle" => Broker!Times(<<c, i>>) # {}
                      /\ \A m, n \in Broker!Times(<<c, i>>) : m = n \/ <<c, i>> \in gaveUp
                      /\ \A l, m, n \in Broker!Times(<<c, i>>) : l = m \/ m = n \/ l = n
    BY DEF Broker!WritesApplied
  <2> QED
    BY <1>1 DEF BrokerInv, WriteFate, Once, Never, Thrice, Returned
<1>3. Broker!EmitsInOrder
  BY <1>1 DEF Broker!EmitsInOrder, BrokerInv, EmitFate, Once
<1> QED
  BY <1>2, <1>3 DEF Broker!RequestsTakeEffect

-----------------------------------------------------------------------------
(* state.json *)

\* No writer was killed between truncation and text.
Intact == \A q \in StateUsers : statePc[q] # "cut"

\* A TUI has begun to write.
TuiWrote == \E q \in StateUsers : StateKind[q] = "tui" /\ State!Begun(q)

\* A stale writer may have undone p.
Harmed(p) == \E q \in StateUsers : State!Begun(q) /\ State!MayUndo(q, p)

\* Whoever is inside the lock holds it.
InsideHolds ==
    \A q \in StateUsers :
        statePc[q] \in {"locked", "read", "truncated", "written"} /\ StateKind[q] # "tui" =>
            stateLock = q

\* What a writer inside the lock has read has every update in the file, but for what filterHealthy
\* peeked at and what a pick missed in the daemon's cache.
HasRead(q) ==
    \A r \in StateUsers : r \in stateFile[State!Section(r)] =>
        \/ StateKind[q] = "prune" /\ State!Section(r) = "agents"
        \/ r \in missed[q]
        \/ r \in copies[q][State!Section(r)]

ReadIsCurrent ==
    Intact /\ ~TuiWrote =>
        \A q \in StateUsers : statePc[q] = "read" /\ StateKind[q] # "tui" => HasRead(q)

\* The file has no text between the two halves of a write.
TruncatedIsEmpty ==
    Intact /\ ~TuiWrote => \A q \in StateUsers : statePc[q] = "truncated" => stateFile = State!Empty

\* LostOnlyToStaleWriters, from the moment the text is written.
UpdateKept(p) ==
    \/ p \in stateFile[State!Section(p)]
    \/ \E q \in StateUsers : statePc[q] = "truncated" /\ p \in copies[q][State!Section(p)]
    \/ Harmed(p)

\* Nothing written is missing, but for them.
WrittenIsKept ==
    Intact => \A p \in StateUsers : statePc[p] \in {"written", "done"} => UpdateKept(p)

\* What a use may count on was done when it began.
BeforeIsDone == \A u \in StateUsers : doneBefore[u] \subseteq State!Done

\* A writer inside the lock rewrites what is in the file, unless a TUI comes in between; so
\* what a finished update put there can only be missing while somebody rewrites the file, or after
\* a stale writer has begun to write.
StateInv ==
    /\ State!TypeOK
    /\ InsideHolds
    /\ ReadIsCurrent
    /\ TruncatedIsEmpty
    /\ WrittenIsKept
    /\ BeforeIsDone
    /\ State!DisableMissedOnlyMidRewrite

\* The steps of a process.
StateSteps(p) ==
    \/ State!Peek(p) \/ State!Acquire(p) \/ State!Read(p) \/ State!ReadCached(p)
    \/ State!Truncate(p) \/ State!Write(p)
    \/ State!Release(p) \/ State!StartUse(p) \/ State!IsDeactivated(p) \/ State!Crash(p)

\* Every process has a section to update.
LEMMA SectionType == \A p \in StateUsers : State!Section(p) \in State!Sections
  BY DEF State!Section, State!Sections

\* The types are kept.
LEMMA StateTypeInductive == State!TypeOK /\ [State!Next]_stateVars => State!TypeOK'
<1> SUFFICES ASSUME State!TypeOK, [State!Next]_stateVars PROVE State!TypeOK'
  OBVIOUS
<1> USE HelpersAssumption DEF State!TypeOK
<1>1. CASE UNCHANGED stateVars
  BY <1>1 DEF stateVars
<1>2. ASSUME NEW p \in StateUsers, StateSteps(p) PROVE State!TypeOK'
  <2>e. State!Empty \in State!Contents
    BY DEF State!Empty, State!Contents
  <2>1. CASE State!StartUse(p)
    <3>1. {d \in State!Done : StateKind[d] = "disable"} \in SUBSET StateUsers
      BY DEF State!Done
    <3> QED
      BY <2>1, <3>1 DEF State!StartUse
  <2>9. CASE State!ReadCached(p)
    BY <2>9 DEF State!ReadCached
  <2>7. CASE State!Peek(p)
    BY <2>7 DEF State!Peek
  <2>8. CASE State!IsDeactivated(p)
    BY <2>8 DEF State!IsDeactivated
  <2>2. CASE State!Acquire(p) \/ State!Release(p)
    BY <2>2, <2>e DEF State!Acquire, State!Release
  <2>3. CASE State!Read(p)
    <3>1. [stateFile EXCEPT !["agents"] = copies[p]["agents"]] \in State!Contents
      BY DEF State!Sections, State!Contents
    <3> QED
      BY <2>3, <3>1 DEF State!Read
  <2>4. CASE State!Truncate(p)
    BY <2>4, <2>e DEF State!Truncate
  <2>5. CASE State!Write(p)
    BY <2>5, SectionType DEF State!Write, State!Contents
  <2>6. CASE State!Crash(p)
    BY <2>6, <2>e DEF State!Crash
  <2> QED
    BY <1>2, <2>1, <2>2, <2>3, <2>4, <2>5, <2>6, <2>7, <2>8, <2>9 DEF StateSteps
<1> QED
  BY <1>1, <1>2 DEF State!Next, StateSteps

\* What a step of one process leaves alone; a lost file stays lost, and who has begun to write has.
LEMMA StateOthers ==
    ASSUME State!TypeOK, NEW p \in StateUsers, StateSteps(p)
    PROVE  /\ \A q \in StateUsers \ {p} : /\ statePc'[q] = statePc[q] /\ copies'[q] = copies[q]
                                          /\ missed'[q] = missed[q]
           /\ missed' # missed => State!ReadCached(p)
           /\ statePc[p] # "cut" /\ statePc[p] # "done"
           /\ State!Begun(p) => State!Begun(p)' \/ statePc'[p] = "cut"
  BY DEF StateSteps, State!TypeOK, State!Begun, State!Peek, State!Acquire, State!Read,
         State!ReadCached, State!Truncate, State!Write, State!Release, State!StartUse,
         State!IsDeactivated, State!Crash

LEMMA StatePersistent ==
    ASSUME State!TypeOK, [State!Next]_stateVars, Intact'
    PROVE  /\ Intact
           /\ \A q \in StateUsers : State!Begun(q) => State!Begun(q)'
           /\ TuiWrote => TuiWrote'
           /\ \A p \in StateUsers : Harmed(p) => Harmed(p)'
           /\ \A q \in StateUsers : statePc[q] = "done" => statePc'[q] = "done"
<1>1. /\ Intact
      /\ \A q \in StateUsers : State!Begun(q) => State!Begun(q)' /\ missed'[q] = missed[q]
      /\ \A q \in StateUsers : statePc[q] = "done" => statePc'[q] = "done"
  <2>1. CASE UNCHANGED stateVars
    BY <2>1 DEF stateVars, Intact, State!Begun
  <2>2. ASSUME NEW p \in StateUsers, StateSteps(p)
        PROVE  /\ Intact
               /\ \A q \in StateUsers : State!Begun(q) => State!Begun(q)' /\ missed'[q] = missed[q]
               /\ \A q \in StateUsers : statePc[q] = "done" => statePc'[q] = "done"
    <3>1. State!Begun(p) => ~State!ReadCached(p)
      BY DEF State!Begun, State!ReadCached
    <3>2. \A q \in StateUsers \ {p} : State!Begun(q) => State!Begun(q)'
      BY <2>2, StateOthers DEF State!Begun
    <3> QED
      BY <2>2, <3>1, <3>2, StateOthers DEF Intact
  <2> QED
    BY <2>1, <2>2 DEF State!Next, StateSteps
<1>2. \A q, p \in StateUsers : State!Begun(q) /\ State!MayUndo(q, p) => State!MayUndo(q, p)'
  BY <1>1 DEF State!MayUndo, State!Section
<1> QED
  BY <1>1, <1>2 DEF TuiWrote, Harmed

\* Nobody gets inside the lock but by taking it.
LEMMA StateHoldsInductive == State!TypeOK /\ InsideHolds /\ [State!Next]_stateVars => InsideHolds'
<1> SUFFICES ASSUME State!TypeOK, InsideHolds, [State!Next]_stateVars PROVE InsideHolds'
  OBVIOUS
<1>1. CASE UNCHANGED stateVars
  BY <1>1 DEF stateVars, InsideHolds
<1>2. ASSUME NEW p \in StateUsers, StateSteps(p) PROVE InsideHolds'
  BY <1>2, HelpersAssumption
     DEF StateSteps, State!TypeOK, InsideHolds, State!Peek, State!Acquire, State!Read,
         State!ReadCached, State!Truncate, State!Write, State!Release, State!StartUse,
         State!IsDeactivated, State!Crash, State!LockedKinds
<1> QED
  BY <1>1, <1>2 DEF State!Next, StateSteps

\* While no TUI writes, the one inside the lock is alone with the file.
LEMMA StateCurrentInductive ==
    ASSUME State!TypeOK, InsideHolds, ReadIsCurrent, TruncatedIsEmpty, [State!Next]_stateVars
    PROVE  ReadIsCurrent' /\ TruncatedIsEmpty'
<1>1. SUFFICES ASSUME Intact', ~TuiWrote'
      PROVE  \A q \in StateUsers :
               /\ statePc'[q] = "read" /\ StateKind[q] # "tui" => HasRead(q)'
               /\ statePc'[q] = "truncated" => stateFile' = State!Empty
  BY DEF ReadIsCurrent, TruncatedIsEmpty, State!Empty, State!Sections
<1>2. Intact /\ ~TuiWrote
  BY <1>1, StatePersistent
<1>3. \A q \in StateUsers : StateKind[q] = "tui" => statePc'[q] \notin {"truncated", "written"}
  BY <1>1 DEF TuiWrote, State!Begun
<1>4. CASE UNCHANGED stateVars
  BY <1>2, <1>4 DEF stateVars, ReadIsCurrent, TruncatedIsEmpty, HasRead, State!Section
<1>5. ASSUME NEW p \in StateUsers, StateSteps(p), NEW q \in StateUsers
      PROVE  /\ statePc'[q] = "read" /\ StateKind[q] # "tui" => HasRead(q)'
             /\ statePc'[q] = "truncated" => stateFile' = State!Empty
  <2>1. CASE State!Truncate(p) \/ State!Write(p)
    <3>1. StateKind[p] # "tui" /\ stateLock = p
      BY <1>3, <2>1 DEF State!Truncate, State!Write, State!TypeOK, InsideHolds
    <3>2. CASE q = p
      BY <2>1, <3>2 DEF State!Truncate, State!Write, State!TypeOK
    <3>3. CASE q # p
      <4>1. statePc'[q] = statePc[q]
        BY <2>1, <3>3 DEF State!Truncate, State!Write, State!TypeOK
      <4>2. StateKind[q] # "tui" => statePc[q] \notin {"read", "truncated"}
        BY <3>1, <3>3 DEF InsideHolds
      <4> QED
        BY <1>3, <4>1, <4>2
    <3> QED
      BY <3>2, <3>3
  <2>2. CASE stateFile' = stateFile
    <3>1. CASE q # p
      <4>1. statePc'[q] = statePc[q] /\ copies'[q] = copies[q] /\ missed'[q] = missed[q]
        BY <1>5, <3>1, StateOthers
      <4>2. HasRead(q) => HasRead(q)'
        BY <2>2, <4>1 DEF HasRead, State!Section
      <4> QED
        BY <1>2, <2>2, <4>1, <4>2 DEF ReadIsCurrent, TruncatedIsEmpty
    <3>2. CASE q = p /\ State!Read(p)
      <4>1. stateFile' = stateFile /\ statePc'[q] = "read"
        BY <3>2 DEF State!Read, State!TypeOK
      <4>2. CASE StateKind[p] = "prune"
        <5>1. \A r \in StateUsers : State!Section(r) # "agents" =>
                copies'[q][State!Section(r)] = stateFile[State!Section(r)]
          BY <3>2, <4>2, SectionType DEF State!Read, State!TypeOK, State!Contents
        <5> QED
          BY <3>2, <4>1, <4>2, <5>1 DEF HasRead, State!Section
      <4>3. CASE StateKind[p] # "prune"
        <5>1. copies'[q] = stateFile
          BY <3>2, <4>3 DEF State!Read, State!TypeOK
        <5> QED
          BY <4>1, <5>1 DEF HasRead, State!Section
      <4> QED
        BY <4>2, <4>3
    <3>3. CASE q = p /\ State!ReadCached(p)
      <4>1. /\ stateFile' = stateFile /\ statePc'[q] = "read" /\ copies'[q] = copies[q]
            /\ missed'[q] = {r \in StateUsers :
                              r \in stateFile[State!Section(r)] \ copies[q][State!Section(r)]}
        BY <3>3 DEF State!ReadCached, State!TypeOK
      <4> QED
        BY <4>1 DEF HasRead, State!Section
    <3>4. CASE q = p /\ ~State!Read(p) /\ ~State!ReadCached(p) /\ ~State!Truncate(p) /\ ~State!Write(p)
      <4>1. statePc'[q] \notin {"read", "truncated"}
        BY <1>5, <3>4 DEF StateSteps, State!TypeOK, State!Peek, State!Acquire, State!Release,
           State!StartUse, State!IsDeactivated, State!Crash
      <4> QED
        BY <4>1
    <3> QED
      BY <2>1, <3>1, <3>2, <3>3, <3>4
  <2> QED
    BY <1>5, <2>1, <2>2 DEF StateSteps, State!Peek, State!Acquire, State!Read, State!ReadCached,
       State!Release, State!StartUse, State!IsDeactivated, State!Crash
<1> QED
  BY <1>4, <1>5 DEF State!Next, StateSteps

\* What was kept is kept by every step: if no stale writer may have harmed it,
\* a rewrite starts from a copy that has it.
LEMMA StateKeptInductive ==
    ASSUME State!TypeOK, InsideHolds, ReadIsCurrent, TruncatedIsEmpty, WrittenIsKept,
           [State!Next]_stateVars
    PROVE  WrittenIsKept'
<1>1. SUFFICES ASSUME Intact', NEW p \in StateUsers, ~Harmed(p)',
                      statePc'[p] \in {"written", "done"}
      PROVE  \/ p \in stateFile'[State!Section(p)]
             \/ \E q \in StateUsers :
                  statePc'[q] = "truncated" /\ p \in copies'[q][State!Section(p)]
  BY DEF WrittenIsKept, UpdateKept, State!Section
<1>2. Intact /\ ~Harmed(p) /\ ~TuiWrote'
  <2>1. Intact /\ ~Harmed(p)
    BY <1>1, StatePersistent
  <2>2. ~TuiWrote'
    BY <1>1 DEF Harmed, TuiWrote, State!MayUndo
  <2> QED
    BY <2>1, <2>2
<1>3. ~TuiWrote
  BY <1>1, <1>2, StatePersistent
<1>4. \A q \in StateUsers :
        StateKind[q] = "tui" => statePc'[q] \notin {"truncated", "written", "done"}
  BY <1>2 DEF TuiWrote, State!Begun
<1>5. \A q \in StateUsers :
        StateKind[q] = "tui" => statePc[q] \notin {"truncated", "written", "done"}
  BY <1>3 DEF TuiWrote, State!Begun
<1>6. State!Section(p) \in State!Sections
  BY SectionType
<1>7. CASE UNCHANGED stateVars
  BY <1>1, <1>2, <1>7 DEF stateVars, WrittenIsKept, UpdateKept
<1>8. ASSUME NEW q \in StateUsers, StateSteps(q)
      PROVE  \/ p \in stateFile'[State!Section(p)]
             \/ \E r \in StateUsers :
                  statePc'[r] = "truncated" /\ p \in copies'[r][State!Section(p)]
  <2>1. CASE State!Truncate(q)
    <3>1. /\ statePc'[q] = "truncated" /\ StateKind[q] # "tui" /\ stateLock = q /\ p # q
          /\ statePc[q] = "read" /\ copies' = copies /\ missed' = missed
      BY <1>1, <1>4, <2>1 DEF State!Truncate, State!TypeOK, InsideHolds
    <3>2. ~(StateKind[q] = "prune" /\ State!Section(p) = "agents") /\ p \notin missed[q]
      BY <1>1, <3>1 DEF Harmed, State!Begun, State!MayUndo, State!Section
    <3>3. statePc[p] \in {"written", "done"}
      BY <1>1, <2>1, <3>1 DEF State!Truncate, State!TypeOK
    <3>4. \A r \in StateUsers : statePc[r] # "truncated"
      BY <1>5, <2>1, <3>1 DEF InsideHolds, State!Truncate
    <3>5. p \in stateFile[State!Section(p)]
      BY <1>2, <3>3, <3>4 DEF WrittenIsKept, UpdateKept
    <3>6. p \in copies[q][State!Section(p)]
      BY <1>2, <1>3, <3>1, <3>2, <3>5 DEF ReadIsCurrent, HasRead
    <3> QED
      BY <3>1, <3>6
  <2>2. CASE State!Write(q)
    <3>1. StateKind[q] # "tui" /\ stateLock = q /\ stateFile = State!Empty
      BY <1>2, <1>3, <1>5, <2>2 DEF State!Write, InsideHolds, TruncatedIsEmpty
    <3>2. CASE p = q
      BY <1>6, <2>2, <3>2 DEF State!Write, State!TypeOK, State!Contents
    <3>3. CASE p # q
      <4>1. statePc[p] \in {"written", "done"}
        BY <1>1, <2>2, <3>3 DEF State!Write, State!TypeOK
      <4>2. p \notin stateFile[State!Section(p)]
        BY <1>6, <3>1 DEF State!Empty
      <4>3. PICK r \in StateUsers : statePc[r] = "truncated" /\ p \in copies[r][State!Section(p)]
        BY <1>2, <4>1, <4>2 DEF WrittenIsKept, UpdateKept
      <4>4. r = q
        BY <1>5, <3>1, <4>3 DEF InsideHolds
      <4>5. StateKind[q] = "use" => StateKind[p] # "disable" /\ p # State!Expired
        <5>1. State!Begun(q)'
          BY <2>2 DEF State!Write, State!Begun, State!TypeOK
        <5>2. StateKind[q] = "use" => StateKind[p] # "disable"
          BY <1>1, <5>1 DEF Harmed, State!MayUndo
        <5> QED
          BY <5>2, HelpersAssumption DEF State!Expired
      <4>6. StateKind[q] = "use" => p \notin State!Disables
        BY <4>5 DEF State!Disables
      <4> QED
        BY <1>6, <2>2, <4>3, <4>4, <4>6 DEF State!Write, State!TypeOK, State!Contents
    <3> QED
      BY <3>2, <3>3
  <2>3. CASE \/ State!Peek(q) \/ State!Acquire(q) \/ State!Read(q) \/ State!ReadCached(q)
             \/ State!Release(q)
             \/ State!StartUse(q) \/ State!IsDeactivated(q) \/ State!Crash(q)
    <3>1. stateFile' = stateFile /\ statePc[p] \in {"written", "done"}
      BY <1>1, <2>3
         DEF State!Peek, State!Acquire, State!Read, State!ReadCached, State!Release, State!StartUse,
           State!IsDeactivated, State!Crash, State!TypeOK
    <3>2. \A r \in StateUsers :
            statePc[r] = "truncated" => statePc'[r] = "truncated" /\ copies'[r] = copies[r]
      BY <1>1, <2>3
         DEF State!Peek, State!Acquire, State!Read, State!ReadCached, State!Release, State!StartUse,
           State!IsDeactivated, State!Crash, State!TypeOK, Intact
    <3> QED
      BY <1>2, <3>1, <3>2 DEF WrittenIsKept, UpdateKept
  <2> QED
    BY <1>8, <2>1, <2>2, <2>3 DEF StateSteps
<1> QED
  BY <1>7, <1>8 DEF State!Next, StateSteps

\* A use reads the file when nothing done before it can be missing.
LEMMA StateUseInductive ==
    ASSUME State!TypeOK, TruncatedIsEmpty, WrittenIsKept, BeforeIsDone,
           State!DisableMissedOnlyMidRewrite, [State!Next]_stateVars
    PROVE  BeforeIsDone' /\ State!DisableMissedOnlyMidRewrite'
<1>1. BeforeIsDone'
  <2>1. CASE UNCHANGED stateVars
    BY <2>1 DEF stateVars, BeforeIsDone, State!Done
  <2>2. ASSUME NEW p \in StateUsers, StateSteps(p), NEW u \in StateUsers, NEW d \in doneBefore'[u]
        PROVE  d \in StateUsers /\ statePc'[d] = "done"
    <3>1. d \in StateUsers /\ statePc[d] = "done"
      BY <2>2 DEF StateSteps, BeforeIsDone, State!Done, State!TypeOK, State!Peek, State!Acquire,
             State!Read, State!ReadCached, State!Truncate, State!Write, State!Release,
             State!StartUse, State!IsDeactivated, State!Crash
    <3> QED
      BY <2>2, <3>1
         DEF StateSteps, State!TypeOK, State!Peek, State!Acquire, State!Read, State!ReadCached,
             State!Truncate, State!Write, State!Release, State!StartUse, State!IsDeactivated, State!Crash
  <2> QED
    BY <2>1, <2>2 DEF State!Next, StateSteps, BeforeIsDone, State!Done
<1>2. SUFFICES ASSUME Intact', NEW u \in StateUsers, NEW d \in StateUsers,
                      statePc'[u] \in {"used", "fired"}, StateKind[d] = "disable",
                      d \in doneBefore'[u], ~Harmed(d)'
      PROVE  d \in copies'[u]["agents"] \/ copies'[u] = State!Empty
  BY <1>1 DEF State!DisableMissedOnlyMidRewrite, Intact, Harmed, State!Empty, State!Sections
<1>3. Intact /\ ~Harmed(d)
  BY <1>2, StatePersistent
<1>4. CASE statePc[u] \in {"used", "fired"} /\ copies'[u] = copies[u] /\ doneBefore'[u] = doneBefore[u]
  BY <1>2, <1>3, <1>4 DEF State!DisableMissedOnlyMidRewrite, Intact, Harmed
<1>5. CASE State!IsDeactivated(u)
  <2>1. copies'[u] = stateFile /\ d \in doneBefore[u]
    BY <1>2, <1>5 DEF State!IsDeactivated, State!TypeOK
  <2>2. statePc[d] = "done" /\ State!Section(d) = "agents"
    BY <1>2, <2>1 DEF BeforeIsDone, State!Done, State!Section
  <2>3. ~TuiWrote
    BY <1>3 DEF TuiWrote, Harmed, State!MayUndo
  <2>4. \/ d \in stateFile["agents"]
        \/ \E q \in StateUsers : statePc[q] = "truncated"
    BY <1>2, <1>3, <2>2 DEF WrittenIsKept, UpdateKept
  <2> QED
    BY <1>3, <2>1, <2>3, <2>4 DEF TruncatedIsEmpty
<1>6. CASE UNCHANGED stateVars
  BY <1>2, <1>4, <1>6 DEF stateVars
<1>7. ASSUME NEW p \in StateUsers, StateSteps(p)
      PROVE  \/ State!IsDeactivated(u)
             \/ /\ statePc[u] \in {"used", "fired"} /\ copies'[u] = copies[u]
                /\ doneBefore'[u] = doneBefore[u]
  BY <1>2, <1>7 DEF StateSteps, State!TypeOK, State!Peek, State!Acquire, State!Read,
         State!ReadCached, State!Truncate, State!Write, State!Release, State!StartUse, State!IsDeactivated, State!Crash
<1> QED
  BY <1>4, <1>5, <1>6, <1>7 DEF State!Next, StateSteps

\* At first nothing is written.
LEMMA StateInitially == State!Init => StateInv
<1> SUFFICES ASSUME State!Init PROVE StateInv
  OBVIOUS
<1>1. State!TypeOK
  BY DEF State!Init, State!TypeOK, State!Empty, State!Contents, State!Sections
<1>2. \A p \in StateUsers : statePc[p] = "idle" /\ doneBefore[p] = {}
  BY DEF State!Init
<1> QED
  BY <1>1, <1>2 DEF StateInv, InsideHolds, ReadIsCurrent, TruncatedIsEmpty,
     WrittenIsKept, BeforeIsDone, State!DisableMissedOnlyMidRewrite

\* So every step preserves what is known of state.json.
LEMMA StateInvInductive == StateInv /\ [State!Next]_stateVars => StateInv'
  BY StateTypeInductive, StateHoldsInductive, StateCurrentInductive, StateKeptInductive,
     StateUseInductive DEF StateInv

\* What was finished is lost only to stale writers.
LEMMA OnlyStaleLose == StateInv => State!LostOnlyToStaleWriters
<1> SUFFICES ASSUME WrittenIsKept, Intact, NEW p \in StateUsers, statePc[p] = "done"
    PROVE  \/ p \in stateFile[State!Section(p)]
           \/ \E q \in StateUsers : statePc[q] = "truncated" /\ p \in copies[q][State!Section(p)]
           \/ Harmed(p)
  BY DEF StateInv, State!LostOnlyToStaleWriters, Intact, Harmed
<1> QED
  BY DEF WrittenIsKept, UpdateKept

-----------------------------------------------------------------------------
(* The health of agents *)

\* The bounds are naturals; and the component counts as everybody does.
LEMMA HealthConstants ==
    /\ Window \in Nat /\ Threshold \in Nat /\ Ttl \in Nat
    /\ MaxTime \in Nat \ {0} /\ MaxResults \in Nat /\ MaxOrders \in Nat
  BY HealthAssumption
LEMMA HealthCardinality == \A S : Health!Cardinality(S) = Cardinality(S)
  BY DEF Health!Cardinality, Cardinality

\* The length of a block is one of those configured.
LEMMA BlockDurationType == \A c \in Nat : Health!BlockDurationFor(c) \in Nat
<1> SUFFICES ASSUME NEW c \in Nat PROVE Health!BlockDurationFor(c) \in Nat
  OBVIOUS
<1>1. Durations \in Seq(Nat \X Nat) /\ Durations # <<>>
  BY HealthAssumption
<1>2. /\ Len(Durations) \in Nat /\ DOMAIN Durations = 1..Len(Durations) /\ Len(Durations) # 0
      /\ \A i \in DOMAIN Durations : Durations[i] \in Nat \X Nat
  BY <1>1
<1>3. \A i \in DOMAIN Durations : Durations[i][2] \in Nat
  BY <1>2
<1> DEFINE reached == {i \in DOMAIN Durations : c >= Durations[i][1]}
<1>4. CASE reached = {}
  BY <1>2, <1>3, <1>4 DEF Health!BlockDurationFor
<1>5. CASE reached # {}
  <2>1. reached \in SUBSET (0..Len(Durations))
    BY <1>2
  <2> HIDE DEF reached
  <2>2. \E i \in reached : \A j \in reached : j <= i
    BY <1>2, <1>5, <2>1, LargestNatural
  <2>3. (CHOOSE i \in reached : \A j \in reached : j <= i) \in reached
    BY <2>2
  <2>4. reached \subseteq DOMAIN Durations
    BY DEF reached
  <2>5. Health!BlockDurationFor(c)
          = Durations[CHOOSE i \in reached : \A j \in reached : j <= i][2]
    BY <1>5 DEF Health!BlockDurationFor, reached
  <2> QED
    BY <1>3, <2>3, <2>4, <2>5
<1> QED
  BY <1>4, <1>5

\* What is on file about an agent, or in somebody's copy, is what became of it: failures it had,
\* and no block or one that was deserved.
Earned(a, e) ==
    /\ e.failureTimes \subseteq failures[a]
    /\ e.disabledTo # 0 => Health!Deserved(a, e.disabledTo)

HealthInv ==
    /\ Health!TypeOK
    /\ \A a \in Agents : IsFiniteSet(failures[a])
    /\ \A a \in Agents : \A f \in failures[a] : f.at <= time
    /\ \A a \in Agents : Earned(a, health[a]) /\ \A p \in Users : Earned(a, snapshot[p][a])

\* Time goes on and failures are added: what was deserved stays so.
LEMMA StaysDeserved ==
    ASSUME HealthInv, time' \in Nat, time <= time',
           NEW a \in Agents, failures[a] \subseteq failures'[a], IsFiniteSet(failures'[a])
    PROVE  \A until : Health!Deserved(a, until) => Health!Deserved(a, until)'
<1> SUFFICES ASSUME NEW until, Health!Deserved(a, until) PROVE Health!Deserved(a, until)'
  OBVIOUS
<1>0. PICK u \in 1..time : \E n \in Threshold..Cardinality(Health!Recent(a, u)) :
        until = u + Health!BlockDurationFor(n)
  BY HealthCardinality DEF Health!Deserved
<1>1. PICK n \in Threshold..Cardinality(Health!Recent(a, u)) :
        until = u + Health!BlockDurationFor(n)
  BY <1>0
<1>2. time \in Nat /\ Threshold \in Nat
  BY HealthConstants DEF HealthInv, Health!TypeOK
<1>3. Health!Recent(a, u) \subseteq Health!Recent(a, u)'
  BY DEF Health!Recent
<1>4. IsFiniteSet(Health!Recent(a, u)')
  <2>1. Health!Recent(a, u)' \subseteq failures'[a]
    BY DEF Health!Recent
  <2> QED
    BY <2>1, FS_Subset
<1>5. /\ IsFiniteSet(Health!Recent(a, u))
      /\ Cardinality(Health!Recent(a, u)) <= Cardinality(Health!Recent(a, u)')
  BY <1>3, <1>4, FS_Subset
<1>6. Cardinality(Health!Recent(a, u)) \in Nat /\ Cardinality(Health!Recent(a, u)') \in Nat
  BY <1>4, <1>5, FS_CardinalityType
<1>7. u \in 1..time' /\ n \in Threshold..Cardinality(Health!Recent(a, u)')
  BY <1>2, <1>5, <1>6
<1>8. Health!BlockDurationFor(n)' = Health!BlockDurationFor(n)
  BY DEF Health!BlockDurationFor
<1> QED
  BY <1>1, <1>7, <1>8, HealthCardinality DEF Health!Deserved
\* What somebody has earned, he has earned for good.
LEMMA StaysEarned ==
    ASSUME HealthInv, time' \in Nat, time <= time',
           NEW a \in Agents, failures[a] \subseteq failures'[a], IsFiniteSet(failures'[a])
    PROVE  \A e : Earned(a, e) => Earned(a, e)'
  BY StaysDeserved DEF Earned

\* The types are kept.
LEMMA HealthTypeInductive == HealthInv /\ [Health!Next]_healthVars => Health!TypeOK'
<1> SUFFICES ASSUME HealthInv, [Health!Next]_healthVars PROVE Health!TypeOK'
  OBVIOUS
<1> USE HealthConstants DEF HealthInv, Health!TypeOK
<1>0. /\ \A e \in Health!Entry, d \in Nat : [e EXCEPT !.deactivatedAt = d] \in Health!Entry
      /\ \A e \in Health!Entry, ts \in SUBSET Health!Failure, d \in Nat :
           [e EXCEPT !.failureTimes = ts, !.disabledTo = d] \in Health!Entry
  BY DEF Health!Entry
<1>1. CASE UNCHANGED healthVars
  BY <1>1 DEF healthVars
<1>2. CASE Health!Tick
  BY <1>2 DEF Health!Tick
<1>3. ASSUME NEW p \in Users, Health!Load(p) PROVE Health!TypeOK'
  BY <1>3 DEF Health!Load
<1>4. ASSUME NEW p \in Users, Health!FilterHealthy(p) PROVE Health!TypeOK'
  <2>1. \A e \in Health!Entry : Health!PruneEntry(e) \in Health!Entry
    BY DEF Health!PruneEntry, Health!PruneOldFailures, Health!Entry
  <2>2. [a \in Agents |-> IF a \in pool[p] THEN Health!PruneEntry(snapshot[p][a]) ELSE snapshot[p][a]]
          \in [Agents -> Health!Entry]
    BY <2>1
  <2> QED
    BY <1>4, <2>2 DEF Health!FilterHealthy
<1>5. ASSUME NEW p \in Users, NEW a \in Agents, Health!Reactivate(p, a) \/ Health!PickAgent(p, a)
      PROVE  Health!TypeOK'
  <2>1. CASE Health!Reactivate(p, a)
    <3>1. [health[a] EXCEPT !.deactivatedAt = 0] \in Health!Entry
      BY <1>0
    <3>2. health' \in [Agents -> Health!Entry]
      BY <2>1, <3>1 DEF Health!Reactivate
    <3> QED
      BY <2>1, <3>2 DEF Health!Reactivate
  <2>2. CASE Health!PickAgent(p, a)
    BY <2>2 DEF Health!PickAgent
  <2> QED
    BY <1>5, <2>1, <2>2
<1>6. ASSUME NEW a \in Agents, NEW d \in BOOLEAN, Health!SetDeactivated(a, d) PROVE Health!TypeOK'
  <2>1. PICK t \in Nat : health' = [health EXCEPT ![a].deactivatedAt = t]
    <3>1. time \in Nat /\ 0 \in Nat
      OBVIOUS
    <3> QED
      BY <1>6, <3>1 DEF Health!SetDeactivated
  <2>2. [health[a] EXCEPT !.deactivatedAt = t] \in Health!Entry
    BY <1>0
  <2>3. health' \in [Agents -> Health!Entry]
    BY <2>1, <2>2
  <2> QED
    BY <1>6, <2>3 DEF Health!SetDeactivated
<1>7. ASSUME NEW p \in Users, NEW ok \in BOOLEAN, Health!RecordResult(p, ok) PROVE Health!TypeOK'
  <2> DEFINE a == using[p]
             failed == IF ok THEN {} ELSE {[at |-> time, nr |-> Cardinality(failures[a])]}
             times == Health!PruneOldFailures(health[a].failureTimes \cup failed)
             until == IF ~ok /\ Cardinality(times) >= Threshold
                      THEN time + Health!BlockDurationFor(Cardinality(times)) ELSE 0
  <2>1. a \in Agents /\ failed \in SUBSET Health!Failure /\ IsFiniteSet(failed)
    <3>1. Cardinality(failures[a]) \in Nat /\ time \in Nat
      BY FS_CardinalityType
    <3>2. [at |-> time, nr |-> Cardinality(failures[a])] \in Health!Failure
      BY <3>1 DEF Health!Failure
    <3> QED
      BY <3>2, FS_EmptySet, FS_Singleton
  <2>2. times \in SUBSET Health!Failure
    BY <2>1 DEF Health!PruneOldFailures, Health!Entry
  <2>3. IsFiniteSet(times)
    <3>1. times \subseteq failures[a] \cup failed
      BY <2>1 DEF Health!PruneOldFailures, Earned
    <3> QED
      BY <2>1, <3>1, FS_Union, FS_Subset
  <2>4. until \in Nat
    <3>1. Cardinality(times) \in Nat /\ time \in Nat
      BY <2>3, FS_CardinalityType
    <3>2. Health!BlockDurationFor(Cardinality(times)) \in Nat
      BY <3>1, BlockDurationType
    <3>3. time + Health!BlockDurationFor(Cardinality(times)) \in Nat
      BY <3>1, <3>2
    <3> QED
      BY <3>3
  <2>5. /\ health' = [health EXCEPT ![a].failureTimes = times, ![a].disabledTo = until]
        /\ failures' = [failures EXCEPT ![a] = @ \cup failed]
        /\ procPc' = [procPc EXCEPT ![p] = "idle"]
        /\ results < MaxResults /\ results' = results + 1
        /\ UNCHANGED <<time, snapshot, pool, using, reactivate, orders>>
    BY <1>7, HealthCardinality DEF Health!RecordResult
  <2> HIDE DEF a, failed, times, until
  <2>6. [health[a] EXCEPT !.failureTimes = times, !.disabledTo = until] \in Health!Entry
    BY <1>0, <2>1, <2>2, <2>4
  <2>7. health' \in [Agents -> Health!Entry]
    BY <2>1, <2>5, <2>6
  <2>8. failures' \in [Agents -> SUBSET Health!Failure]
    BY <2>1, <2>5
  <2> QED
    BY <2>5, <2>7, <2>8
<1> QED
  BY <1>1, <1>2, <1>3, <1>4, <1>5, <1>6, <1>7 DEF Health!Next

\* Every step preserves the invariant: a copy, however old, is of what an agent earned, and a new
\* block is decided for failures that are all within the window that ends now.
LEMMA HealthInvInductive == HealthInv /\ [Health!Next]_healthVars => HealthInv'
<1> SUFFICES ASSUME HealthInv, [Health!Next]_healthVars PROVE HealthInv'
  OBVIOUS
<1>0. Health!TypeOK /\ Health!TypeOK' /\ time \in Nat
  BY HealthTypeInductive DEF HealthInv, Health!TypeOK
<1> DEFINE Kept == /\ time' \in Nat /\ time <= time'
                   /\ \A a \in Agents : failures[a] \subseteq failures'[a] /\ IsFiniteSet(failures'[a])
<1>1. ASSUME UNCHANGED <<time, failures>>
      PROVE  Kept /\ \A a \in Agents : \A e : Earned(a, e) <=> Earned(a, e)'
  BY <1>0, <1>1 DEF HealthInv, Earned, Health!Deserved, Health!Recent, Health!BlockDurationFor
<1>2. CASE UNCHANGED healthVars
  BY <1>0, <1>1, <1>2 DEF healthVars, HealthInv
<1>3. CASE Health!Tick
  <2>1. UNCHANGED <<health, snapshot, failures>> /\ time' = time + 1
    BY <1>3 DEF Health!Tick
  <2>2. Kept
    BY <1>0, <2>1 DEF HealthInv
  <2>3. \A a \in Agents : \A e : Earned(a, e) => Earned(a, e)'
    BY <2>2, StaysEarned
  <2>4. \A a \in Agents : \A f \in failures'[a] : f.at <= time'
    BY <1>0, <2>1 DEF HealthInv, Health!TypeOK, Health!Failure
  <2> QED
    BY <1>0, <2>1, <2>2, <2>3, <2>4 DEF HealthInv
<1>4. ASSUME NEW p \in Users, Health!Load(p) PROVE HealthInv'
  <2>1. UNCHANGED <<time, failures, health>> /\ snapshot' = [snapshot EXCEPT ![p] = health]
    BY <1>4 DEF Health!Load
  <2> QED
    BY <1>0, <1>1, <2>1 DEF HealthInv, Health!TypeOK
<1>5. ASSUME NEW p \in Users, Health!FilterHealthy(p) PROVE HealthInv'
  <2>1. UNCHANGED <<time, failures, snapshot>>
    BY <1>5 DEF Health!FilterHealthy
  <2>2. ASSUME NEW a \in Agents, NEW e \in Health!Entry, Earned(a, e)
        PROVE  Earned(a, Health!PruneEntry(e))
    BY <2>2 DEF Earned, Health!PruneEntry, Health!PruneOldFailures, Health!Entry
  <2>3. ASSUME NEW a \in Agents PROVE Earned(a, health'[a])
    <3>1. /\ Earned(a, health[a]) /\ Earned(a, snapshot[p][a])
          /\ Earned(a, Health!PruneEntry(snapshot[p][a]))
      BY <1>0, <2>2 DEF HealthInv, Health!TypeOK
    <3>2. \/ health'[a] = health[a] \/ health'[a] = snapshot[p][a]
          \/ health'[a] = Health!PruneEntry(snapshot[p][a])
      BY <1>5 DEF Health!FilterHealthy
    <3> QED
      BY <3>1, <3>2
  <2> QED
    BY <1>0, <1>1, <2>1, <2>3 DEF HealthInv
<1>6. ASSUME UNCHANGED <<time, failures, snapshot>>,
             \A a \in Agents : health'[a].failureTimes = health[a].failureTimes
                               /\ health'[a].disabledTo = health[a].disabledTo
      PROVE  HealthInv'
  <2>1. \A a \in Agents : Earned(a, health'[a])
    BY <1>6 DEF HealthInv, Earned
  <2> QED
    BY <1>0, <1>1, <1>6, <2>1 DEF HealthInv
<1>7. ASSUME NEW p \in Users, NEW a \in Agents, Health!Reactivate(p, a) PROVE HealthInv'
  BY <1>0, <1>6, <1>7 DEF Health!Reactivate, Health!TypeOK, Health!Entry
<1>8. ASSUME NEW p \in Users, NEW a \in Agents, Health!PickAgent(p, a) PROVE HealthInv'
  BY <1>6, <1>8 DEF Health!PickAgent
<1>9. ASSUME NEW a \in Agents, NEW d \in BOOLEAN, Health!SetDeactivated(a, d) PROVE HealthInv'
  BY <1>0, <1>6, <1>9 DEF Health!SetDeactivated, Health!TypeOK, Health!Entry
<1>10. ASSUME NEW p \in Users, NEW ok \in BOOLEAN, Health!RecordResult(p, ok) PROVE HealthInv'
  <2>0. PICK a, failed, times, until :
          /\ a = using[p]
          /\ failed = IF ok THEN {} ELSE {[at |-> time, nr |-> Cardinality(failures[a])]}
          /\ times = Health!PruneOldFailures(health[a].failureTimes \cup failed)
          /\ until = IF ~ok /\ Cardinality(times) >= Threshold
                     THEN time + Health!BlockDurationFor(Cardinality(times)) ELSE 0
    OBVIOUS
  <2>1. /\ a \in Agents /\ IsFiniteSet(failed) /\ \A f \in failed : f.at = time
    <3>1. a \in Agents
      BY <1>0, <2>0 DEF Health!TypeOK
    <3>2. IsFiniteSet(failed)
      BY <2>0, FS_EmptySet, FS_Singleton
    <3>3. \A f \in failed : f.at = time
      BY <2>0
    <3> QED
      BY <3>1, <3>2, <3>3
  <2>2. /\ health' = [health EXCEPT ![a].failureTimes = times, ![a].disabledTo = until]
        /\ failures' = [failures EXCEPT ![a] = @ \cup failed]
        /\ UNCHANGED <<time, snapshot>>
    BY <1>10, <2>0, HealthCardinality DEF Health!RecordResult
  <2>3. /\ times \subseteq failures[a] \cup failed
        /\ \A f \in times : f.at + Window >= time
    BY <2>0, <2>1 DEF Health!PruneOldFailures, HealthInv, Earned
  <2>4. until # 0 => until = time + Health!BlockDurationFor(Cardinality(times))
                     /\ Cardinality(times) >= Threshold
    BY <2>0
  <2>5. /\ failures'[a] = failures[a] \cup failed
        /\ \A b \in Agents : b # a => failures'[b] = failures[b] /\ health'[b] = health[b]
        /\ health'[a].failureTimes = times /\ health'[a].disabledTo = until
    BY <1>0, <2>1, <2>2 DEF Health!TypeOK, Health!Entry
  <2>6. Kept
    <3>1. IsFiniteSet(failures[a] \cup failed)
      BY <2>1, FS_Union DEF HealthInv
    <3> QED
      BY <1>0, <2>2, <2>5, <3>1 DEF HealthInv
  <2>7. \A b \in Agents : \A e : Earned(b, e) => Earned(b, e)'
    BY <2>6, StaysEarned
  <2>8. \A b \in Agents : \A f \in failures'[b] : f.at <= time'
    BY <1>0, <2>1, <2>2, <2>5 DEF HealthInv
  <2>9. ASSUME NEW e, e.failureTimes = times, e.disabledTo = until PROVE Earned(a, e)'
    <3>0. PICK u \in 1..time : u = time
      BY <1>0 DEF Health!TypeOK
    <3>1. times \subseteq Health!Recent(a, u)'
      BY <2>1, <2>2, <2>3, <2>5, <2>8, <3>0 DEF Health!Recent
    <3>2. IsFiniteSet(Health!Recent(a, u)')
      <4>1. Health!Recent(a, u)' \subseteq failures'[a]
        BY DEF Health!Recent
      <4> QED
        BY <2>1, <2>6, <4>1, FS_Subset
    <3>3. /\ IsFiniteSet(times)
          /\ Cardinality(times) <= Cardinality(Health!Recent(a, u)')
      BY <3>1, <3>2, FS_Subset
    <3>4. Cardinality(times) \in Nat /\ Cardinality(Health!Recent(a, u)') \in Nat
      BY <3>2, <3>3, FS_CardinalityType
    <3>5. until # 0 => Health!Deserved(a, until)'
      <4>1. SUFFICES ASSUME NEW t, t = until, until # 0 PROVE Health!Deserved(a, t)'
        OBVIOUS
      <4>2. PICK n \in Nat : n = Cardinality(times)
        BY <3>4
      <4>3. n \in Threshold..Cardinality(Health!Recent(a, u)')
        BY <2>4, <3>3, <3>4, <4>1, <4>2, HealthConstants
      <4>4. u \in 1..time'
        BY <2>2
      <4>5. Health!BlockDurationFor(n)' = Health!BlockDurationFor(n)
        BY DEF Health!BlockDurationFor
      <4>6. t = u + Health!BlockDurationFor(n)'
        BY <2>4, <3>0, <4>1, <4>2, <4>5
      <4> QED
        BY <4>3, <4>4, <4>6, HealthCardinality DEF Health!Deserved
    <3> QED
      BY <2>3, <2>5, <2>9, <3>5 DEF Earned
  <2>10. ASSUME NEW b \in Agents PROVE Earned(b, health[b])'
    <3>1. CASE b = a
      <4>1. PICK e : e = health'[a]
        OBVIOUS
      <4>2. Earned(a, e)'
        BY <2>5, <2>9, <4>1
      <4> QED
        BY <3>1, <4>1, <4>2 DEF Earned
    <3>2. CASE b # a
      <4>1. Earned(b, health[b])
        BY DEF HealthInv
      <4>2. health'[b] = health[b]
        BY <2>5, <3>2
      <4>3. PICK e : e = health[b]
        OBVIOUS
      <4>4. Earned(b, e)'
        BY <2>7, <4>1, <4>3
      <4> QED
        BY <4>2, <4>3, <4>4 DEF Earned
    <3> QED
      BY <3>1, <3>2
  <2>11. ASSUME NEW b \in Agents, NEW q \in Users PROVE Earned(b, snapshot[q][b])'
    <3>1. Earned(b, snapshot[q][b]) /\ snapshot' = snapshot
      BY <2>2 DEF HealthInv
    <3>2. PICK e : e = snapshot[q][b]
      OBVIOUS
    <3>3. Earned(b, e)'
      BY <2>7, <3>1, <3>2
    <3> QED
      BY <3>1, <3>2, <3>3 DEF Earned
  <2> QED
    BY <1>0, <2>6, <2>8, <2>10, <2>11 DEF HealthInv
<1> QED
  BY <1>2, <1>3, <1>4, <1>5, <1>7, <1>8, <1>9, <1>10 DEF Health!Next

\* At first nobody has failed.
LEMMA HealthInitially == Health!Init => HealthInv
<1> SUFFICES ASSUME Health!Init PROVE HealthInv
  OBVIOUS
<1>1. [failureTimes |-> {}, disabledTo |-> 0, deactivatedAt |-> 0] \in Health!Entry
  BY DEF Health!Entry
<1>2. Health!TypeOK
  BY <1>1, HealthConstants DEF Health!Init, Health!TypeOK
<1>3. \A a \in Agents : /\ failures[a] = {} /\ health[a].failureTimes = {} /\ health[a].disabledTo = 0
                        /\ \A p \in Users : snapshot[p][a] = health[a]
  BY DEF Health!Init
<1> QED
  BY <1>2, <1>3, FS_EmptySet DEF HealthInv, Earned

-----------------------------------------------------------------------------
(* The breakers of triage *)

Kept(how) == IF how = "timeout" /\ Short < BreakerTtl THEN Short ELSE BreakerTtl
Request == [model : Models, sent : Nat, ended : Nat, how : {"answered", "timeout", "refused"}]

\* Whoever asked m at s had a reason for each time it had failed before.
Reasoned(m, s) == \A f \in Breaker!Failures(m) : f.ended < s => Breaker!MayAsk(f, s)

\* A breaker is about the last that is known of its model.
LastWord(m) ==
    \/ /\ downUntil[m] = 0
       /\ \A f \in Breaker!Failures(m) : \E a \in Breaker!Answers(m) : f.ended <= a.ended
    \/ \E f \in Breaker!Failures(m) :
         /\ downUntil[m] = f.ended + Kept(f.how)
         /\ \A c \in Breaker!Of(m) : c.ended <= f.ended

BreakerTypes ==
    /\ minute \in Nat
    /\ downUntil \in [Models -> Nat]
    /\ askPc \in [Triages -> {"idle", "next", "asking"}]
    /\ left \in [Triages -> Seq(UsableModels)]
    /\ sent \in [Triages -> Nat]
    /\ calls \in SUBSET Request
    /\ \A c \in calls : c.ended <= minute
    /\ \A p \in Triages : sent[p] <= minute /\ (askPc[p] = "asking" => left[p] # <<>>)

\* Nobody, now or earlier, asked without a reason; and what is on file is the last word.
BreakerInv ==
    /\ BreakerTypes
    /\ \A m \in Models : LastWord(m)
    /\ \A c \in calls : Reasoned(c.model, c.sent) /\ c.sent <= c.ended
    /\ \A p \in Triages : askPc[p] = "asking" => Reasoned(Head(left[p]), sent[p])

LEMMA BreakerConstants ==
    /\ AskTimeout \in Nat /\ BreakerTtl \in Nat /\ Short \in Nat /\ UsableModels \subseteq Models
    /\ \A how : Kept(how) \in Nat
  BY BreakerAssumption DEF Kept

\* A list is cut down to models there are.
LEMMA ResolvedType == \A flag \in Flags : Breaker!Resolved(flag) \in Seq(UsableModels)
<1> SUFFICES ASSUME NEW flag \in Flags PROVE Breaker!Resolved(flag) \in Seq(UsableModels)
  OBVIOUS
<1>1. PICK l \in Flags \cup {Use} : Breaker!Resolved(flag) = Only(l, UsableModels)
  BY BreakerOnly DEF Breaker!Resolved
<1>2. PICK S : l \in Seq(S)
  BY BreakerAssumption
<1>3. Only(l, UsableModels) \in Seq(S \cap UsableModels)
  BY <1>2, OnlyKeeps
<1> QED
  BY <1>1, <1>3

\* A reason stays one when more is known, and for whoever asks later.
LEMMA ReasonStays ==
    ASSUME BreakerTypes, calls \subseteq calls', NEW m \in Models,
           NEW f \in Breaker!Failures(m), NEW s \in Nat, NEW t \in Nat, s <= t,
           Breaker!MayAsk(f, s)
    PROVE  Breaker!MayAsk(f, t) /\ Breaker!MayAsk(f, t)'
<1>1. f \in Request /\ f.ended \in Nat /\ f.model = m
  BY DEF BreakerTypes, Breaker!Failures, Breaker!Of, Request
<1>2. /\ \A a \in Breaker!Answers(m) : a \in Breaker!Answers(m)' /\ a.ended \in Nat
      /\ \A g \in Breaker!Failures(m) : g \in Breaker!Failures(m)' /\ g.ended \in Nat
  BY DEF BreakerTypes, Breaker!Answers, Breaker!Failures, Breaker!Of, Request
<1> QED
  BY <1>1, <1>2, BreakerConstants DEF Breaker!MayAsk

\* Requests that ended no earlier than now say nothing against those sent before.
LEMMA ReasonedStays ==
    ASSUME BreakerTypes, calls \subseteq calls', \A c \in calls' \ calls : c.ended = minute,
           NEW m \in Models, NEW s \in Nat, s <= minute, Reasoned(m, s)
    PROVE  Reasoned(m, s)'
<1> SUFFICES ASSUME NEW f \in Breaker!Failures(m)', f.ended < s PROVE Breaker!MayAsk(f, s)'
  BY DEF Reasoned
<1>1. f \in calls
  BY DEF BreakerTypes, Breaker!Failures, Breaker!Of
<1>2. f \in Breaker!Failures(m)
  BY <1>1 DEF Breaker!Failures, Breaker!Of
<1>3. Breaker!MayAsk(f, s)
  BY <1>2 DEF Reasoned
<1> QED
  BY <1>2, <1>3, ReasonStays

\* Whoever finds the breaker closed has a reason.
LEMMA ClosedIsReason ==
    ASSUME BreakerInv, NEW m \in Models, downUntil[m] <= minute
    PROVE  Reasoned(m, minute)
<1> SUFFICES ASSUME NEW f \in Breaker!Failures(m), f.ended < minute
             PROVE  Breaker!MayAsk(f, minute)
  BY DEF Reasoned
<1>0. /\ f \in Request /\ f.ended \in Nat /\ f.model = m /\ f \in Breaker!Of(m) /\ minute \in Nat
      /\ \A c \in Breaker!Of(m) : c \in calls /\ c.ended \in Nat /\ c.sent \in Nat /\ c.ended <= minute
                                  /\ c.model = m
  BY DEF BreakerInv, BreakerTypes, Breaker!Failures, Breaker!Of, Request
<1>1. LastWord(m)
  BY DEF BreakerInv
<1>2. CASE \E a \in Breaker!Answers(m) : f.ended <= a.ended
  BY <1>0, <1>2 DEF Breaker!MayAsk, Breaker!Answers
<1>3. ASSUME NEW g \in Breaker!Failures(m), downUntil[m] = g.ended + Kept(g.how),
             \A c \in Breaker!Of(m) : c.ended <= g.ended
      PROVE  Breaker!MayAsk(f, minute)
  <2>1. g \in Breaker!Of(m) /\ f.ended <= g.ended /\ g.ended + Kept(g.how) <= minute
    BY <1>0, <1>3 DEF Breaker!Failures
  <2>2. g.ended \in Nat /\ g.sent \in Nat /\ g.sent <= g.ended /\ g.ended <= minute /\ g \in calls
    BY <1>0, <2>1 DEF BreakerInv
  <2>3. CASE Kept(g.how) = BreakerTtl
    BY <1>0, <2>1, <2>2, <2>3, BreakerConstants DEF Breaker!MayAsk
  <2>4. CASE g.how = "timeout" /\ Kept(g.how) = Short
    <3>1. CASE g.sent <= f.ended
      BY <1>0, <2>1, <2>4, <3>1 DEF Breaker!MayAsk
    <3>2. CASE f.ended < g.sent
      <4>1. Reasoned(m, g.sent)
        BY <1>0, <2>1, <2>2 DEF BreakerInv
      <4>2. Breaker!MayAsk(f, g.sent)
        BY <3>2, <4>1 DEF Reasoned
      <4>3. PICK s \in Nat : s = g.sent
        BY <2>2
      <4>4. s <= minute /\ Breaker!MayAsk(f, s)
        BY <1>0, <2>2, <4>2, <4>3
      <4>5. f.model = m /\ \A a \in Breaker!Answers(m) : a.ended \in Nat
        BY <1>0 DEF Breaker!Answers
      <4>6. \A h \in Breaker!Failures(m) : h.ended \in Nat
        BY <1>0 DEF Breaker!Failures
      <4> QED
        BY <1>0, <4>4, <4>5, <4>6, BreakerConstants DEF Breaker!MayAsk
    <3> QED
      BY <1>0, <2>2, <3>1, <3>2
  <2> QED
    BY <2>3, <2>4 DEF Kept
<1> QED
  BY <1>1, <1>2, <1>3 DEF LastWord

\* Of the requests, those of other models stay what they are when one is over.
LEMMA OverChangesItsModel ==
    ASSUME BreakerInv, NEW m \in Models, NEW r \in Request, r.ended = minute,
           calls' = calls \cup {r}
    PROVE  /\ r.model # m => UNCHANGED <<Breaker!Of(m), Breaker!Failures(m), Breaker!Answers(m)>>
           /\ r.model = m => /\ Breaker!Of(m)' = Breaker!Of(m) \cup {r}
                             /\ \A c \in Breaker!Of(m)' : c.ended <= r.ended
<1>1. r.model # m => Breaker!Of(m)' = Breaker!Of(m)
  BY DEF Breaker!Of
<1>2. r.model = m => Breaker!Of(m)' = Breaker!Of(m) \cup {r}
  BY DEF Breaker!Of
<1>3. \A c \in Breaker!Of(m) \cup {r} : c.ended <= r.ended
  <2>1. \A c \in Breaker!Of(m) : c \in calls
    BY DEF Breaker!Of
  <2> QED
    BY <2>1 DEF BreakerInv, BreakerTypes, Request
<1> QED
  BY <1>1, <1>2, <1>3 DEF Breaker!Failures, Breaker!Answers

\* What a call of p that is over leaves: a request that had its reasons, and the last word.
LEMMA OverKeeps ==
    ASSUME BreakerInv, NEW p \in Triages, askPc[p] = "asking",
           NEW how \in {"answered", "timeout", "refused"}, Breaker!Over(p, how),
           downUntil' = IF how = "answered" THEN Breaker!Close(Head(left[p]))
                                            ELSE Breaker!Open(Head(left[p]), how),
           NEW q, NEW l \in Seq(UsableModels), askPc' = [askPc EXCEPT ![p] = q], q \in {"idle", "next"},
           left' = [left EXCEPT ![p] = l]
    PROVE  BreakerInv'
<1> DEFINE m == Head(left[p])
           r == [model |-> m, sent |-> sent[p], ended |-> minute, how |-> how]
<1>0. m \in Models /\ left[p] # <<>> /\ sent[p] \in Nat /\ minute \in Nat /\ sent[p] <= minute
  BY BreakerConstants DEF BreakerInv, BreakerTypes
<1>1. PICK x \in Request : x = r
  BY <1>0 DEF Request
<1>2. calls' = calls \cup {x} /\ UNCHANGED <<minute, sent>> /\ x.ended = minute /\ x.model = m
      /\ x.sent = sent[p] /\ x.how = how
  BY <1>1 DEF Breaker!Over
<1>3. BreakerTypes'
  <2>1. downUntil' \in [Models -> Nat]
    BY <1>0, BreakerConstants DEF BreakerInv, BreakerTypes, Breaker!Close, Breaker!Open
  <2> QED
    BY <1>1, <1>2, <2>1 DEF BreakerInv, BreakerTypes, Request
<1>4. ASSUME NEW n \in Models PROVE LastWord(n)'
  <2>1. LastWord(n)
    BY DEF BreakerInv
  <2>2. CASE n # m
    <3>1. UNCHANGED <<Breaker!Of(n), Breaker!Failures(n), Breaker!Answers(n)>>
      BY <1>1, <1>2, <2>2, OverChangesItsModel
    <3>2. downUntil'[n] = downUntil[n]
      BY <2>2 DEF Breaker!Close, Breaker!Open, BreakerInv, BreakerTypes
    <3> QED
      BY <2>1, <3>1, <3>2 DEF LastWord
  <2>3. CASE n = m
    <3>1. Breaker!Of(n)' = Breaker!Of(n) \cup {x} /\ \A c \in Breaker!Of(n)' : c.ended <= x.ended
      BY <1>1, <1>2, <2>3, OverChangesItsModel
    <3>2. CASE how = "answered"
      <4>1. x \in Breaker!Answers(n)'
        BY <1>2, <3>1, <3>2 DEF Breaker!Answers, Breaker!Failures
      <4>2. downUntil'[n] = 0
        BY <2>3, <3>2 DEF Breaker!Close, BreakerInv, BreakerTypes
      <4> QED
        BY <3>1, <4>1, <4>2 DEF LastWord, Breaker!Failures
    <3>3. CASE how # "answered"
      <4>1. x \in Breaker!Failures(n)'
        BY <1>2, <3>1, <3>3 DEF Breaker!Failures
      <4>2. downUntil'[n] = x.ended + Kept(x.how)
        BY <1>2, <2>3, <3>3 DEF Breaker!Open, BreakerInv, BreakerTypes, Kept
      <4> QED
        BY <3>1, <4>1, <4>2 DEF LastWord
    <3> QED
      BY <3>2, <3>3
  <2> QED
    BY <2>2, <2>3
<1>5. ASSUME NEW n \in Models, NEW s \in Nat, s <= minute, Reasoned(n, s) PROVE Reasoned(n, s)'
  BY <1>2, <1>5, ReasonedStays DEF BreakerInv
<1>6. ASSUME NEW c \in calls' PROVE Reasoned(c.model, c.sent)' /\ c.sent <= c.ended
  <2>1. CASE c \in calls
    <3>1. Reasoned(c.model, c.sent) /\ c.model \in Models /\ c.sent \in Nat /\ c.sent <= c.ended
          /\ c.ended \in Nat /\ c.ended <= minute
      BY <2>1 DEF BreakerInv, BreakerTypes, Request
    <3>2. PICK n \in Models, s \in Nat : n = c.model /\ s = c.sent
      BY <3>1
    <3>3. Reasoned(n, s)'
      BY <1>0, <1>5, <3>1, <3>2
    <3> QED
      BY <3>1, <3>2, <3>3
  <2>2. CASE c = x
    <3>1. PICK n \in Models, s \in Nat : n = m /\ s = sent[p]
      BY <1>0
    <3>2. Reasoned(n, s)
      BY <3>1 DEF BreakerInv
    <3>3. Reasoned(n, s)' /\ c.model = n /\ c.sent = s /\ c.ended = minute
      BY <1>0, <1>2, <1>5, <2>2, <3>1, <3>2
    <3> QED
      BY <1>0, <3>1, <3>3
  <2> QED
    BY <1>2, <2>1, <2>2
<1>7. ASSUME NEW o \in Triages, (askPc[o] = "asking")' PROVE Reasoned(Head(left[o]), sent[o])'
  <2>1. o # p /\ askPc[o] = "asking" /\ left'[o] = left[o] /\ sent'[o] = sent[o]
    BY <1>2, <1>7 DEF BreakerInv, BreakerTypes
  <2>2. Reasoned(Head(left[o]), sent[o]) /\ sent[o] <= minute /\ sent[o] \in Nat /\ left[o] # <<>>
        /\ left[o] \in Seq(UsableModels)
    BY <2>1 DEF BreakerInv, BreakerTypes
  <2>3. PICK n \in Models, s \in Nat : n = Head(left[o]) /\ s = sent[o]
    BY <2>2, BreakerConstants
  <2>4. Reasoned(n, s)'
    BY <1>5, <2>2, <2>3
  <2> QED
    BY <2>1, <2>3, <2>4
<1> QED
  BY <1>3, <1>4, <1>6, <1>7 DEF BreakerInv

\* As long as no request ends, what was true of the requests and the files stays so.
LEMMA NothingEnds ==
    ASSUME BreakerInv, UNCHANGED <<downUntil, calls>>, BreakerTypes',
           \A o \in Triages : (askPc[o] = "asking")' => Reasoned(Head(left'[o]), sent'[o])
    PROVE  BreakerInv'
<1>1. \A m \in Models : UNCHANGED <<Breaker!Of(m), Breaker!Failures(m), Breaker!Answers(m)>>
  BY DEF Breaker!Of, Breaker!Failures, Breaker!Answers
<1>2. \A m \in Models : LastWord(m) => LastWord(m)'
  BY <1>1 DEF LastWord
<1>3. ASSUME NEW m \in Models, NEW s, Reasoned(m, s) PROVE Reasoned(m, s)'
  <2>1. \A f \in Breaker!Failures(m) : f.model = m
    BY DEF Breaker!Failures, Breaker!Of
  <2> QED
    BY <1>1, <1>3, <2>1 DEF Reasoned, Breaker!MayAsk
<1>4. ASSUME NEW c \in calls PROVE Reasoned(c.model, c.sent)'
  <2>1. PICK m \in Models, s \in Nat : m = c.model /\ s = c.sent
    BY DEF BreakerInv, BreakerTypes, Request
  <2> QED
    BY <1>3, <2>1 DEF BreakerInv
<1>5. ASSUME NEW o \in Triages, (askPc[o] = "asking")' PROVE Reasoned(Head(left[o]), sent[o])'
  <2>1. PICK m \in Models, s \in Nat : m = Head(left'[o]) /\ s = sent'[o]
    BY <1>5, BreakerConstants DEF BreakerTypes
  <2> QED
    BY <1>3, <1>5, <2>1
<1> QED
  BY <1>2, <1>4, <1>5 DEF BreakerInv

LEMMA BreakerInductive == BreakerInv /\ [Breaker!Next]_breakerVars => BreakerInv'
<1> SUFFICES ASSUME BreakerInv, [Breaker!Next]_breakerVars PROVE BreakerInv'
  OBVIOUS
<1>0. BreakerTypes
  BY DEF BreakerInv
<1>1. CASE Breaker!Tick
  <2>1. BreakerTypes'
    BY <1>0, <1>1 DEF Breaker!Tick, BreakerTypes, Request
  <2> QED
    BY <1>1, <2>1, NothingEnds DEF Breaker!Tick, BreakerInv
<1>2. ASSUME NEW p \in Triages, NEW flag \in Flags, Breaker!Start(p, flag) PROVE BreakerInv'
  <2>1. PICK l \in Seq(UsableModels) : l = Breaker!Resolved(flag)
    BY ResolvedType
  <2>2. BreakerTypes'
    BY <1>0, <1>2, <2>1 DEF Breaker!Start, BreakerTypes
  <2> QED
    BY <1>0, <1>2, <2>2, NothingEnds DEF Breaker!Start, BreakerInv, BreakerTypes
<1>3. ASSUME NEW p \in Triages, Breaker!Skip(p) PROVE BreakerInv'
  <2>0. left[p] \in Seq(UsableModels) /\ left[p] # <<>>
    BY <1>0, <1>3 DEF Breaker!Skip, BreakerTypes
  <2>1. PICK l \in Seq(UsableModels) : l = Tail(left[p])
    <3>1. Tail(left[p]) \in Seq(UsableModels)
      BY <2>0, HeadTailProperties
    <3> QED
      BY <3>1
  <2>2. BreakerTypes'
    BY <1>0, <1>3, <2>1 DEF Breaker!Skip, BreakerTypes
  <2> QED
    BY <1>0, <1>3, <2>2, NothingEnds DEF Breaker!Skip, BreakerInv, BreakerTypes
<1>4. ASSUME NEW p \in Triages, Breaker!Send(p) PROVE BreakerInv'
  <2>1. BreakerTypes'
    BY <1>0, <1>4 DEF Breaker!Send, BreakerTypes
  <2>2. Head(left[p]) \in Models
    BY <1>0, <1>4, BreakerConstants DEF Breaker!Send, BreakerTypes
  <2>3. Reasoned(Head(left[p]), minute)
    BY <1>4, <2>2, ClosedIsReason DEF Breaker!Send
  <2> QED
    BY <1>0, <1>4, <2>1, <2>3, NothingEnds DEF Breaker!Send, BreakerInv, BreakerTypes
<1>5. ASSUME NEW p \in Triages, Breaker!Answered(p) PROVE BreakerInv'
  <2>1. <<>> \in Seq(UsableModels)
    OBVIOUS
  <2> QED
    BY <1>5, <2>1, OverKeeps DEF Breaker!Answered
<1>6. ASSUME NEW p \in Triages, NEW how \in {"timeout", "refused"}, Breaker!Failed(p, how)
      PROVE  BreakerInv'
  <2>0. left[p] \in Seq(UsableModels) /\ left[p] # <<>>
    BY <1>0, <1>6 DEF Breaker!Failed, BreakerTypes
  <2>1. PICK l \in Seq(UsableModels) : l = Tail(left[p])
    <3>1. Tail(left[p]) \in Seq(UsableModels)
      BY <2>0, HeadTailProperties
    <3> QED
      BY <3>1
  <2> QED
    BY <1>0, <1>6, <2>1, OverKeeps DEF Breaker!Failed
<1>7. ASSUME NEW p \in Triages, Breaker!End(p) PROVE BreakerInv'
  <2>1. BreakerTypes'
    BY <1>0, <1>7 DEF Breaker!End, BreakerTypes
  <2> QED
    BY <1>0, <1>7, <2>1, NothingEnds DEF Breaker!End, BreakerInv, BreakerTypes
<1>8. CASE UNCHANGED breakerVars
  <2>1. BreakerTypes'
    BY <1>0, <1>8 DEF breakerVars, BreakerTypes
  <2> QED
    BY <1>0, <1>8, <2>1, NothingEnds DEF breakerVars, BreakerInv
<1> QED
  BY <1>1, <1>2, <1>3, <1>4, <1>5, <1>6, <1>7, <1>8 DEF Breaker!Next

LEMMA BreakerInitially == Breaker!Init => BreakerInv
<1> SUFFICES ASSUME Breaker!Init PROVE BreakerInv
  OBVIOUS
<1>1. BreakerTypes
  BY DEF Breaker!Init, BreakerTypes
<1>2. \A m \in Models : LastWord(m)
  BY DEF Breaker!Init, LastWord, Breaker!Failures, Breaker!Of
<1> QED
  BY <1>1, <1>2 DEF BreakerInv, Breaker!Init

LEMMA BreakerShows == BreakerInv => Breaker!BreakersAreDeserved
<1> SUFFICES ASSUME BreakerInv PROVE Breaker!BreakersAreDeserved
  OBVIOUS
<1>1. Breaker!SkipIsDeserved
  <2> SUFFICES ASSUME NEW m \in Models, downUntil[m] > minute
               PROVE  \E f \in Breaker!Failures(m) :
                        /\ f.ended + Kept(f.how) > minute
                        /\ \A a \in Breaker!Answers(m) : a.ended <= f.ended
    BY DEF Breaker!SkipIsDeserved, Kept
  <2>1. LastWord(m) /\ minute \in Nat
    BY DEF BreakerInv, BreakerTypes
  <2> QED
    BY <2>1 DEF LastWord, Breaker!Answers
<1>2. Breaker!NobodyPaysAgain
  <2> SUFFICES ASSUME NEW p \in Triages, askPc[p] = "asking",
                      NEW f \in Breaker!Failures(Head(left[p])), f.ended < sent[p]
               PROVE  Breaker!MayAsk(f, sent[p])
    BY DEF Breaker!NobodyPaysAgain
  <2> QED
    BY DEF BreakerInv, Reasoned
<1> QED
  BY <1>1, <1>2 DEF Breaker!BreakersAreDeserved

-----------------------------------------------------------------------------
(* The configuration of line mode *)

\* The component filters and lists as we do.
LEMMA LineOnly == \A s, T : Line!Only(s, T) = Only(s, T)
  BY DEF Line!Only, Line!FoldLeft, Line!MapThenFoldSet, Line!Max,
         Only, FoldLeft, MapThenFoldSet, Max
LEMMA LineToSet == \A s : Line!ToSet(s) = ToSet(s)
  BY DEF Line!ToSet, ToSet

\* Names that may be on a line, and configurations.
LineNames == Line!Known \cup (UNION {ToSet(l) : l \in Edits})
               \cup {"no line", "absent", "torn", "garbled"}
LineText == [line : Seq(LineNames), rest : BOOLEAN]

\* A configuration without the other settings is one the commands made of nothing.
Plain(c) == c.rest \/ c = Line!Absent \/ c.line = Line!NoLine \/ c.line \in Seq(Line!Known)

LEMMA LineConstants ==
    /\ Registry \in Seq(Line!Known) /\ "torn" \notin Line!Known
    /\ \A l \in Edits : l \in Seq(LineNames)
<1>1. Line!Known = {Registry[i] : i \in DOMAIN Registry}
  BY LineToSet DEF Line!Known, ToSet
<1>2. ASSUME NEW l \in Edits PROVE l \in Seq(LineNames)
  <2>1. l \in Seq({l[i] : i \in DOMAIN l})
    BY LineAssumption
  <2>2. {l[i] : i \in DOMAIN l} \subseteq LineNames
    BY DEF ToSet, LineNames
  <2> QED
    BY <2>1, <2>2
<1>3. Registry \in Seq({Registry[i] : i \in DOMAIN Registry})
      /\ \A i \in DOMAIN Registry : Registry[i] # "torn"
  BY LineAssumption
<1> QED
  BY <1>1, <1>2, <1>3

\* Places in a sequence: what is taken out or put in leaves a sequence of the same things.
LEMMA RemoveType ==
    ASSUME NEW S, NEW s \in Seq(S), NEW i \in DOMAIN s
    PROVE  Line!RemoveAt(s, i) \in Seq(S)
<1>1. Len(s) \in Nat /\ DOMAIN s = 1..Len(s) /\ \A j \in 1..Len(s) : s[j] \in S
  OBVIOUS
<1>2. SubSeq(s, 1, i - 1) \in Seq(S)
  BY <1>1, SubSeqProperties
<1>3. SubSeq(s, i + 1, Len(s)) \in Seq(S)
  BY <1>1, SubSeqProperties
<1> QED
  BY <1>2, <1>3 DEF Line!RemoveAt

LEMMA InsertType ==
    ASSUME NEW S, NEW s \in Seq(S), NEW i \in 1..(Len(s) + 1), NEW e \in S
    PROVE  Line!InsertAt(s, i, e) \in Seq(S)
<1>1. Len(s) \in Nat /\ DOMAIN s = 1..Len(s) /\ \A j \in 1..Len(s) : s[j] \in S
  OBVIOUS
<1>2. SubSeq(s, 1, i - 1) \in Seq(S)
  BY <1>1, SubSeqProperties
<1>3. SubSeq(s, i, Len(s)) \in Seq(S)
  BY <1>1, SubSeqProperties
<1>4. <<e>> \in Seq(S)
  OBVIOUS
<1> QED
  BY <1>2, <1>3, <1>4 DEF Line!InsertAt
LEMMA RemoveLength ==
    ASSUME NEW S, NEW s \in Seq(S), NEW i \in DOMAIN s
    PROVE  Len(Line!RemoveAt(s, i)) = Len(s) - 1
<1>1. Len(s) \in Nat /\ DOMAIN s = 1..Len(s) /\ \A j \in 1..Len(s) : s[j] \in S
  OBVIOUS
<1>2. SubSeq(s, 1, i - 1) \in Seq(S) /\ Len(SubSeq(s, 1, i - 1)) = i - 1
  BY <1>1, SubSeqProperties
<1>3. SubSeq(s, i + 1, Len(s)) \in Seq(S) /\ Len(SubSeq(s, i + 1, Len(s))) = Len(s) - i
  BY <1>1, SubSeqProperties
<1> QED
  BY <1>1, <1>2, <1>3 DEF Line!RemoveAt

\* A command makes at most one configuration of another, with a line of the same names.
LEMMA ChangedOnce ==
    ASSUME NEW c, NEW how \in {"add", "rm", "move"}, NEW a, NEW i
    PROVE  \A d, e \in Line!Changed(c, how, a, i) : d = e
  BY DEF Line!Changed, Line!LineAdd, Line!LineRemove, Line!LineMove

LEMMA ChangedType ==
    ASSUME NEW S, NEW a \in S, NEW c \in [line : Seq(S) \cup {Line!NoLine}, rest : BOOLEAN],
           NEW how \in {"add", "rm", "move"}, NEW i, NEW d \in Line!Changed(c, how, a, i)
    PROVE  d \in [line : Seq(S), rest : {c.rest}]
<1>0. /\ c = [line |-> c.line, rest |-> c.rest] /\ c.rest \in BOOLEAN
      /\ c.line # Line!NoLine => c.line \in Seq(S)
  OBVIOUS
<1> DEFINE at == Line!Position(c.line, a)
<1>1. ASSUME Line!Has(c, a) PROVE c.line \in Seq(S) /\ at \in DOMAIN c.line
  <2>1. \E j \in DOMAIN c.line : c.line[j] = a
    BY <1>1, LineToSet DEF Line!Has, ToSet
  <2> QED
    BY <1>0, <1>1, <2>1 DEF Line!Has, Line!Position
<1>2. CASE how = "add"
  <2>1. /\ ~Line!Has(c, a)
        /\ d = [c EXCEPT !.line = IF @ = Line!NoLine THEN <<a>> ELSE Append(@, a)]
    BY <1>2 DEF Line!Changed, Line!LineAdd
  <2>2. (IF c.line = Line!NoLine THEN <<a>> ELSE Append(c.line, a)) \in Seq(S)
    BY <1>0
  <2> QED
    BY <1>0, <2>1, <2>2
<1>3. CASE how = "rm"
  <2>1. Line!Has(c, a) /\ d = [c EXCEPT !.line = Line!RemoveAt(c.line, at)]
    BY <1>3 DEF Line!Changed, Line!LineRemove
  <2>2. Line!RemoveAt(c.line, at) \in Seq(S)
    BY <1>1, <2>1, RemoveType
  <2> QED
    BY <1>0, <2>1, <2>2
<1>4. CASE how = "move"
  <2>1. /\ Line!Has(c, a) /\ i \in DOMAIN c.line
        /\ d = [c EXCEPT !.line = Line!InsertAt(Line!RemoveAt(c.line, at), i, a)]
    BY <1>4 DEF Line!Changed, Line!LineMove
  <2>2. Line!RemoveAt(c.line, at) \in Seq(S) /\ Len(Line!RemoveAt(c.line, at)) = Len(c.line) - 1
    BY <1>1, <2>1, RemoveType, RemoveLength
  <2>3. i \in 1..(Len(Line!RemoveAt(c.line, at)) + 1)
    BY <1>1, <2>1, <2>2
  <2>4. Line!InsertAt(Line!RemoveAt(c.line, at), i, a) \in Seq(S)
    BY <2>2, <2>3, InsertType
  <2> QED
    BY <1>0, <2>1, <2>4
<1> QED
  BY <1>2, <1>3, <1>4

\* The queue of a run that has a line: its known names, each once.
LEMMA DedupedKeeps ==
    ASSUME NEW S, NEW s \in Seq(S)
    PROVE  /\ IsInjective(Line!Deduped(s))
           /\ ToSet(Line!Deduped(s)) = ToSet(s) \cap Line!Known
<1> DEFINE all == [i \in DOMAIN s |-> i]
           kept == Only(all, Line!Firsts(s))
<1>0. Len(s) \in Nat /\ DOMAIN s = 1..Len(s)
  OBVIOUS
<1>1. all \in Seq(Nat) /\ DOMAIN all = DOMAIN s /\ \A i \in DOMAIN s : all[i] = i
  BY <1>0
<1>2. ToSet(all) = DOMAIN s /\ IsInjective(all)
  BY <1>1 DEF ToSet, IsInjective
<1>3. Line!Firsts(s) \subseteq DOMAIN s
  BY DEF Line!Firsts
<1> HIDE DEF all
<1>4. ToSet(kept) = Line!Firsts(s) /\ IsInjective(kept)
  <2>1. ToSet(kept) = ToSet(all) \cap Line!Firsts(s) /\ IsInjective(kept)
    BY <1>1, <1>2, OnlyKeeps
  <2> QED
    BY <1>2, <1>3, <2>1
<1>5. Line!Deduped(s) = [n \in DOMAIN kept |-> s[kept[n]]]
  BY LineOnly DEF Line!Deduped, all
<1> HIDE DEF kept
<1>6. \A n \in DOMAIN kept : kept[n] \in Line!Firsts(s)
  BY <1>4 DEF ToSet
<1>7. \A i, j \in Line!Firsts(s) : s[i] = s[j] => i = j
  BY <1>0 DEF Line!Firsts
<1>8. IsInjective(Line!Deduped(s))
  BY <1>4, <1>5, <1>6, <1>7 DEF IsInjective
<1>9. ASSUME NEW a \in ToSet(s) \cap Line!Known PROVE a \in ToSet(Line!Deduped(s))
  <2> DEFINE T == {i \in DOMAIN s : s[i] = a}
  <2>1. T \in SUBSET Nat /\ T # {}
    BY <1>0, <1>9 DEF ToSet
  <2>2. PICK i \in T : \A j \in T : i <= j
    BY <2>1, LeastNatural
  <2>3. i \in Line!Firsts(s)
    BY <1>0, <1>9, <2>2 DEF Line!Firsts
  <2>4. PICK n \in DOMAIN kept : kept[n] = i
    BY <1>4, <2>3 DEF ToSet
  <2> QED
    BY <1>5, <2>2, <2>4 DEF ToSet
<1>10. ASSUME NEW a \in ToSet(Line!Deduped(s)) PROVE a \in ToSet(s) \cap Line!Known
  <2>1. PICK n \in DOMAIN kept : a = s[kept[n]]
    BY <1>5, <1>10 DEF ToSet
  <2> QED
    BY <1>6, <2>1 DEF ToSet, Line!Firsts
<1> QED
  BY <1>8, <1>9, <1>10

\* The queue of a run that has none: agents of three tiers, each once.
LEMMA DefaultLineKeeps ==
    ASSUME NEW tier
    PROVE  IsInjective(Line!DefaultLine(tier)) /\ ToSet(Line!DefaultLine(tier)) \subseteq Line!Known
<1> DEFINE Of(t) == Only(Registry, {a \in Line!Known : tier[a] = t})
<1>1. Registry \in Seq(Line!Known) /\ IsInjective(Registry)
  BY LineConstants, LineAssumption DEF IsInjective
<1>2. ASSUME NEW t PROVE /\ Of(t) \in Seq({a \in Line!Known : tier[a] = t})
                         /\ IsInjective(Of(t))
  <2>1. Of(t) \in Seq(Line!Known \cap {a \in Line!Known : tier[a] = t})
    BY <1>1, OnlyKeeps
  <2>2. Line!Known \cap {a \in Line!Known : tier[a] = t} = {a \in Line!Known : tier[a] = t}
    OBVIOUS
  <2>3. Of(t) \in Seq({a \in Line!Known : tier[a] = t})
    BY <2>1, <2>2
  <2>4. IsInjective(Of(t))
    BY <1>1, OnlyKeeps
  <2> QED
    BY <2>3, <2>4
<1>3. Line!DefaultLine(tier) = Of(3) \o Of(2) \o Of(1)
  BY LineOnly DEF Line!DefaultLine
<1> DEFINE x == Of(3)  y == Of(2)  z == Of(1)
<1>4. /\ x \in Seq(Line!Known) /\ \A i \in DOMAIN x : tier[x[i]] = 3
      /\ y \in Seq(Line!Known) /\ \A i \in DOMAIN y : tier[y[i]] = 2
      /\ z \in Seq(Line!Known) /\ \A i \in DOMAIN z : tier[z[i]] = 1
  <2>1. ASSUME NEW t, NEW o, o = Of(t)
        PROVE  o \in Seq(Line!Known) /\ \A i \in DOMAIN o : tier[o[i]] = t
    <3>1. o \in Seq({a \in Line!Known : tier[a] = t})
      BY <1>2, <2>1
    <3>2. DOMAIN o = 1..Len(o) /\ \A i \in 1..Len(o) : o[i] \in {a \in Line!Known : tier[a] = t}
      BY <3>1
    <3> QED
      BY <3>1, <3>2
  <2> QED
    BY <2>1
<1>5. /\ \A i, j \in DOMAIN x : x[i] = x[j] => i = j
      /\ \A i, j \in DOMAIN y : y[i] = y[j] => i = j
      /\ \A i, j \in DOMAIN z : z[i] = z[j] => i = j
  BY <1>2 DEF IsInjective
<1> HIDE DEF x, y, z, Of
<1> DEFINE q == x \o y \o z
<1>6. /\ q \in Seq(Line!Known) /\ Len(q) = Len(x) + Len(y) + Len(z)
      /\ Len(x) \in Nat /\ Len(y) \in Nat /\ Len(z) \in Nat
      /\ DOMAIN q = 1..Len(q) /\ DOMAIN x = 1..Len(x) /\ DOMAIN y = 1..Len(y) /\ DOMAIN z = 1..Len(z)
      /\ \A i \in 1..Len(q) : q[i] = IF i <= Len(x) THEN x[i]
                                     ELSE IF i <= Len(x) + Len(y) THEN y[i - Len(x)]
                                     ELSE z[i - Len(x) - Len(y)]
  BY <1>4
<1> HIDE DEF q
<1>7. \A i \in 1..Len(q) : /\ tier[q[i]] = 3 <=> i <= Len(x)
                           /\ tier[q[i]] = 1 <=> i > Len(x) + Len(y)
  <2> SUFFICES ASSUME NEW i \in 1..Len(q)
               PROVE  /\ tier[q[i]] = 3 <=> i <= Len(x)
                      /\ tier[q[i]] = 1 <=> i > Len(x) + Len(y)
    OBVIOUS
  <2>1. CASE i <= Len(x)
    <3>1. i \in DOMAIN x /\ q[i] = x[i]
      BY <1>6, <2>1
    <3> QED
      BY <1>4, <1>6, <2>1, <3>1
  <2>2. CASE i > Len(x) /\ i <= Len(x) + Len(y)
    <3>1. i - Len(x) \in DOMAIN y /\ q[i] = y[i - Len(x)]
      BY <1>6, <2>2
    <3>2. tier[q[i]] = 2
      BY <1>4, <3>1
    <3> QED
      BY <1>6, <2>2, <3>2
  <2>3. CASE i > Len(x) + Len(y)
    <3>1. i - Len(x) - Len(y) \in DOMAIN z /\ q[i] = z[i - Len(x) - Len(y)]
      BY <1>6, <2>3
    <3> QED
      BY <1>4, <1>6, <2>3, <3>1
  <2> QED
    BY <1>6, <2>1, <2>2, <2>3
<1>8. ASSUME NEW i \in 1..Len(q), NEW j \in 1..Len(q), q[i] = q[j] PROVE i = j
  <2>1. (i <= Len(x) <=> j <= Len(x)) /\ (i > Len(x) + Len(y) <=> j > Len(x) + Len(y))
    BY <1>7, <1>8
  <2>2. CASE i <= Len(x)
    BY <1>5, <1>6, <1>8, <2>1, <2>2
  <2>3. CASE i > Len(x) + Len(y)
    <3>1. /\ i - Len(x) - Len(y) \in DOMAIN z /\ q[i] = z[i - Len(x) - Len(y)]
          /\ j - Len(x) - Len(y) \in DOMAIN z /\ q[j] = z[j - Len(x) - Len(y)]
      BY <1>6, <2>1, <2>3
    <3>2. i - Len(x) - Len(y) = j - Len(x) - Len(y)
      BY <1>5, <1>8, <3>1
    <3> QED
      BY <1>6, <3>2
  <2>4. CASE i > Len(x) /\ i <= Len(x) + Len(y)
    <3>1. /\ i - Len(x) \in DOMAIN y /\ q[i] = y[i - Len(x)]
          /\ j - Len(x) \in DOMAIN y /\ q[j] = y[j - Len(x)]
      BY <1>6, <2>1, <2>4
    <3>2. i - Len(x) = j - Len(x)
      BY <1>5, <1>8, <3>1
    <3> QED
      BY <1>6, <3>2
  <2> QED
    BY <1>6, <2>2, <2>3, <2>4
<1>9. Line!DefaultLine(tier) = q
  BY <1>3 DEF q, x, y, z, Of
<1> QED
  BY <1>6, <1>8, <1>9 DEF IsInjective, ToSet

Writing == {w \in Commands : writer[w] # "idle"}

LineTypes ==
    /\ text \in LineText /\ expected \in LineText
    /\ writer \in [Commands -> {"idle", "text", "write", "sig", "sign"}]
    /\ next \in [Commands -> LineText] /\ got \in [LineRuns -> LineText]
    /\ reader \in [LineRuns -> {"off", "text", "first"}]
    /\ seen \in [LineRuns -> Seq(LineText)]
    /\ overlap \in BOOLEAN /\ unsigned \in BOOLEAN /\ disturbed \in [LineRuns -> BOOLEAN]

\* A text that is what it should be, or all that is left of one that did not parse.
Fits(t) == t = expected \/ (expected = Line!Garbled /\ Line!OnlyNames(t))

\* Unless changes overlap, whoever changes or signs is alone, and about to write what is expected;
\* and when he is done the file holds that, signed but for an edit by hand.
WritersAreDone ==
    /\ Plain(expected) /\ expected # Line!Torn
    /\ ~overlap =>
         /\ \A v, w \in Writing : v = w
         /\ \A w \in Writing : Fits(next[w]) /\ (writer[w] \in {"sig", "sign"} => text = next[w])
         /\ Writing = {} => Fits(text) /\ (~unsigned => sig = text)

\* A run that no change came across has seen what the file still is.
SeenIsOnFile ==
    \A r \in LineRuns :
      /\ reader[r] = "off" => seen[r] = <<>>
      /\ reader[r] # "off" /\ Writing # {} => disturbed[r]
      /\ reader[r] # "off" /\ ~disturbed[r] /\ ~overlap /\ ~unsigned =>
           /\ reader[r] = "text" => got[r] = text
           /\ \A i \in DOMAIN seen[r] : seen[r][i] = Line!RawOf(text)

LineInv == LineTypes /\ WritersAreDone /\ SeenIsOnFile

\* The configurations that stand for no file, for a torn one and for none at all.
LEMMA LineConfigs ==
    /\ {Line!None, Line!Absent, Line!Torn, Line!Garbled} \subseteq LineText
    /\ \A l \in Edits : Line!Config(l, TRUE) \in LineText
    /\ Line!Config(Line!NoLine, TRUE) \in LineText
    /\ Line!None # Line!Torn /\ Line!Absent # Line!Torn
    /\ Plain(Line!None) 
    /\ \A c \in LineText : Line!RawOf(c) \in LineText
<1>1. {Line!NoLine, <<"absent">>, <<"torn">>, <<"garbled">>} \subseteq Seq(LineNames)
  <2>1. \A x \in LineNames : <<x>> \in Seq(LineNames)
    OBVIOUS
  <2>2. {"no line", "absent", "torn", "garbled"} \subseteq LineNames
    BY DEF LineNames
  <2> QED
    BY <2>1, <2>2 DEF Line!NoLine
<1>2. {Line!None, Line!Absent, Line!Torn, Line!Garbled} \subseteq LineText
  BY <1>1 DEF Line!None, Line!Absent, Line!Torn, Line!Garbled, Line!Config, LineText
<1>3. /\ \A l \in Edits : Line!Config(l, TRUE) \in LineText
      /\ Line!Config(Line!NoLine, TRUE) \in LineText
  BY <1>1, LineConstants DEF Line!Config, LineText
<1>4. <<"no line">> # <<"torn">> /\ <<"absent">> # <<"torn">>
  <2>1. <<"no line">>[1] = "no line" /\ <<"torn">>[1] = "torn" /\ <<"absent">>[1] = "absent"
    OBVIOUS
  <2> QED
    BY <2>1
<1>5. Line!None # Line!Torn /\ Line!Absent # Line!Torn
  BY <1>4 DEF Line!None, Line!Absent, Line!Torn, Line!Config, Line!NoLine
<1>6. Plain(Line!None)
  BY DEF Plain, Line!None, Line!Config
<1> QED
  BY <1>2, <1>3, <1>5, <1>6 DEF Line!RawOf

\* A command's change: a configuration like those there are, and never a torn one.
LEMMA ChangedText ==
    ASSUME NEW c \in LineText, NEW a \in Line!Known, NEW how \in {"add", "rm", "move"}, NEW i,
           NEW d \in Line!Changed(Line!RawOf(c), how, a, i)
    PROVE  d \in LineText /\ (Plain(c) /\ c # Line!Torn => Plain(d) /\ d # Line!Torn)
<1> DEFINE o == Line!RawOf(c)
<1>1. o \in LineText
  BY LineConfigs
<1>2. Line!Known \subseteq LineNames
  BY DEF LineNames
<1>3. d \in [line : Seq(LineNames), rest : {o.rest}]
  <2>1. o \in [line : Seq(LineNames) \cup {Line!NoLine}, rest : BOOLEAN] /\ a \in LineNames
    BY <1>1, <1>2 DEF LineText
  <2> HIDE DEF o
  <2>2. d \in Line!Changed(o, how, a, i)
    BY DEF o
  <2> QED
    BY <2>1, <2>2, ChangedType
<1>4. d \in LineText
  BY <1>1, <1>3 DEF LineText
<1>5. ASSUME Plain(c), c # Line!Torn PROVE Plain(d) /\ d # Line!Torn
  <2>1. o.rest \/ o.line = Line!NoLine \/ o.line \in Seq(Line!Known)
    <3>1. (o = c /\ c # Line!Absent) \/ o = Line!None
      BY <1>5 DEF Line!RawOf, Line!Parses
    <3>2. Line!None.line = Line!NoLine
      BY DEF Line!None, Line!Config
    <3> QED
      BY <1>5, <3>1, <3>2 DEF Plain
  <2>2. CASE o.rest
    <3>1. d.rest = o.rest /\ Line!Torn.rest = FALSE
      BY <1>3 DEF Line!Torn, Line!Config
    <3> QED
      BY <2>2, <3>1 DEF Plain
  <2>3. CASE ~o.rest
    <3>1. o \in [line : Seq(Line!Known) \cup {Line!NoLine}, rest : BOOLEAN]
      BY <1>1, <2>1, <2>3 DEF LineText
    <3> HIDE DEF o
    <3>2. d \in Line!Changed(o, how, a, i)
      BY DEF o
    <3>3. d.line \in Seq(Line!Known)
      BY <3>1, <3>2, ChangedType
    <3>4. <<"torn">> \notin Seq(Line!Known)
      <4>1. SUFFICES ASSUME <<"torn">> \in Seq(Line!Known) PROVE FALSE
        OBVIOUS
      <4>2. PICK s \in Seq(Line!Known) : s = <<"torn">>
        BY <4>1
      <4>3. Len(s) = 1 /\ s[1] = "torn"
        BY <4>2
      <4>4. s[1] \in Line!Known
        BY <4>2, <4>3
      <4> QED
        BY <4>3, <4>4, LineConstants
    <3> QED
      <4>1. Line!Torn.line = <<"torn">>
        BY DEF Line!Torn, Line!Config
      <4>2. d.line # Line!Torn.line
        BY <3>3, <3>4, <4>1
      <4> QED
        BY <3>3, <4>2 DEF Plain
  <2> QED
    BY <2>2, <2>3
<1> QED
  BY <1>4, <1>5

\* What a command makes of a text that does not parse, or of what one made of it.
LEMMA NamesStay ==
    ASSUME NEW c \in LineText, c = Line!Garbled \/ Line!OnlyNames(c),
           NEW a \in Line!Known, NEW how \in {"add", "rm", "move"}, NEW i,
           NEW d \in Line!Changed(Line!RawOf(c), how, a, i)
    PROVE  Line!OnlyNames(d)
<1> DEFINE o == Line!RawOf(c)
<1>1. o = Line!None \/ Line!OnlyNames(o)
  BY DEF Line!RawOf, Line!Parses
<1>2. o \in [line : Seq(Line!Known) \cup {Line!NoLine}, rest : BOOLEAN] /\ o.rest = FALSE
  <2>1. CASE o = Line!None
    BY <2>1 DEF Line!None, Line!Config
  <2>2. CASE Line!OnlyNames(o)
    BY <2>2, LineConfigs DEF Line!OnlyNames, LineText
  <2> QED
    BY <1>1, <2>1, <2>2
<1> HIDE DEF o
<1>3. d \in Line!Changed(o, how, a, i)
  BY DEF o
<1>4. d \in [line : Seq(Line!Known), rest : {o.rest}]
  BY <1>2, <1>3, ChangedType
<1> QED
  BY <1>2, <1>4 DEF Line!OnlyNames

\* The steps of a writer, a hand edit, a run's reads.
LEMMA LineCommand == ASSUME LineInv, NEW w \in Commands, Line!Command(w) PROVE LineInv'
<1>0. LineTypes /\ WritersAreDone /\ SeenIsOnFile
  BY DEF LineInv
<1>1. /\ writer[w] = "idle" /\ overlap' = (overlap \/ Writing # {})
      /\ disturbed' = [r \in LineRuns |-> disturbed[r] \/ reader[r] # "off"]
      /\ writer' = [writer EXCEPT ![w] = "text"]
      /\ UNCHANGED <<text, sig, reader, got, seen, unsigned>>
  BY DEF Line!Command, Line!Begin, Line!Busy, Writing, Line!files
<1>2. PICK how \in {"add", "rm", "move"}, a \in Line!Known, i \in 1..2 :
        /\ \E c \in Line!Changed(Line!RawOf(text), how, a, i) : next' = [next EXCEPT ![w] = c]
        /\ expected' \in IF overlap' \/ expected = Line!Garbled THEN {expected}
                         ELSE Line!Changed(Line!RawOf(expected), how, a, i)
  BY DEF Line!Command, Line!RawOf
<1>3. PICK c \in Line!Changed(Line!RawOf(text), how, a, i) : next' = [next EXCEPT ![w] = c]
  BY <1>2
<1>4. c \in LineText
  BY <1>0, ChangedText DEF LineTypes
<1>5. expected' \in LineText /\ Plain(expected') /\ expected' # Line!Torn
  <2>1. CASE overlap' \/ expected = Line!Garbled
    BY <1>0, <1>2, <2>1 DEF LineTypes, WritersAreDone
  <2>2. CASE ~(overlap' \/ expected = Line!Garbled)
    <3>1. PICK d \in Line!Changed(Line!RawOf(expected), how, a, i) : d = expected'
      BY <1>2, <2>2
    <3>2. d \in LineText /\ Plain(d) /\ d # Line!Torn
      BY <1>0, ChangedText DEF LineTypes, WritersAreDone
    <3> QED
      BY <3>1, <3>2
  <2> QED
    BY <2>1, <2>2
<1>6. LineTypes'
  BY <1>0, <1>1, <1>3, <1>4, <1>5 DEF LineTypes
<1>7. Writing' = Writing \cup {w}
  BY <1>0, <1>1 DEF Writing, LineTypes
<1>8. WritersAreDone'
  <2>1. Plain(expected)' /\ expected' # Line!Torn
    BY <1>5 DEF Plain
  <2>2. ASSUME ~overlap' PROVE Writing = {} /\ ~overlap /\ Fits(c)' /\ next'[w] = c
    <3>1. Writing = {} /\ ~overlap /\ Fits(text) /\ next'[w] = c
      BY <1>0, <1>1, <1>3, <2>2 DEF WritersAreDone, LineTypes
    <3>2. CASE expected = Line!Garbled
      <4>1. Line!OnlyNames(c) /\ expected' = Line!Garbled
        BY <1>0, <1>2, <1>3, <3>1, <3>2, NamesStay DEF Fits, LineTypes
      <4> QED
        BY <3>1, <4>1 DEF Fits
    <3>3. CASE expected # Line!Garbled
      <4>1. expected' = c
        BY <1>2, <1>3, <2>2, <3>1, <3>3, ChangedOnce DEF Fits
      <4> QED
        BY <3>1, <4>1 DEF Fits
    <3> QED
      BY <3>2, <3>3
  <2> QED
    BY <1>0, <1>1, <1>7, <2>1, <2>2 DEF WritersAreDone, LineTypes
<1>9. SeenIsOnFile'
  BY <1>0, <1>1 DEF SeenIsOnFile, LineTypes
<1> QED
  BY <1>6, <1>8, <1>9 DEF LineInv

LEMMA LineSign == ASSUME LineInv, NEW w \in Commands, Line!SignConfig(w) PROVE LineInv'
<1>0. LineTypes /\ WritersAreDone /\ SeenIsOnFile
  BY DEF LineInv
<1>1. /\ writer[w] = "idle" /\ overlap' = (overlap \/ Writing # {})
      /\ disturbed' = [r \in LineRuns |-> disturbed[r] \/ reader[r] # "off"]
      /\ writer' = [writer EXCEPT ![w] = "sig"] /\ next' = [next EXCEPT ![w] = text]
      /\ UNCHANGED <<text, sig, reader, got, seen, expected, unsigned>>
  BY DEF Line!SignConfig, Line!Begin, Line!Busy, Writing, Line!files
<1>2. LineTypes'
  BY <1>0, <1>1 DEF LineTypes
<1>3. Writing' = Writing \cup {w}
  BY <1>0, <1>1 DEF Writing, LineTypes
<1>4. WritersAreDone'
  <2>1. Plain(expected)' /\ expected' # Line!Torn
    BY <1>0, <1>1 DEF Plain, WritersAreDone
  <2> QED
    BY <1>0, <1>1, <1>3, <2>1 DEF WritersAreDone, Fits, LineTypes
<1>5. SeenIsOnFile'
  BY <1>0, <1>1 DEF SeenIsOnFile, LineTypes
<1> QED
  BY <1>2, <1>4, <1>5 DEF LineInv

LEMMA LineWrite ==
    ASSUME LineInv, NEW w \in Commands, \/ Line!TruncateText(w) \/ Line!WriteText(w)
                                        \/ Line!TruncateSig(w) \/ Line!WriteSig(w)
    PROVE  LineInv'
<1>0. LineTypes /\ WritersAreDone /\ SeenIsOnFile
  BY DEF LineInv
<1>1. /\ w \in Writing /\ UNCHANGED <<reader, got, seen, disturbed, expected, overlap>>
      /\ unsigned' \in BOOLEAN /\ (unsigned' => unsigned)
      /\ \E q \in {"write", "sig", "sign", "idle"} : writer' = [writer EXCEPT ![w] = q]
  <2>1. ASSUME NEW q \in {"write", "sig", "sign", "idle"}, writer' = [writer EXCEPT ![w] = q]
        PROVE  \E o \in {"write", "sig", "sign", "idle"} : writer' = [writer EXCEPT ![w] = o]
    BY <2>1
  <2>2. CASE Line!TruncateText(w)
    BY <1>0, <2>1, <2>2 DEF Writing, LineTypes, Line!TruncateText, Line!runs
  <2>3. CASE Line!WriteText(w)
    BY <1>0, <2>1, <2>3 DEF Writing, LineTypes, Line!WriteText, Line!runs
  <2>4. CASE Line!TruncateSig(w)
    BY <1>0, <2>1, <2>4 DEF Writing, LineTypes, Line!TruncateSig, Line!runs
  <2>5. CASE Line!WriteSig(w)
    <3>1. /\ writer[w] = "sign" /\ writer' = [writer EXCEPT ![w] = "idle"]
          /\ unsigned' = (unsigned /\ text # next[w])
          /\ UNCHANGED <<reader, got, seen, disturbed, expected, overlap>>
      BY <2>5 DEF Line!WriteSig, Line!runs
    <3>2. unsigned' \in BOOLEAN /\ (unsigned' => unsigned)
      BY <3>1
    <3> QED
      BY <2>1, <3>1, <3>2 DEF Writing
  <2> QED
    BY <2>2, <2>3, <2>4, <2>5
<1>2. text' \in LineText /\ next' \in [Commands -> LineText]
  BY <1>0, LineConfigs DEF LineTypes, Line!TruncateText, Line!WriteText, Line!TruncateSig,
     Line!WriteSig
<1>3. LineTypes'
  BY <1>0, <1>1, <1>2 DEF LineTypes
<1>4. Plain(expected)' /\ expected' # Line!Torn
  BY <1>0, <1>1 DEF Plain, WritersAreDone
<1>5. WritersAreDone'
  <2> SUFFICES ASSUME ~overlap
               PROVE  /\ \A v, u \in Writing' : v = u
                      /\ \A u \in Writing' : /\ Fits(next'[u])
                                             /\ writer'[u] \in {"sig", "sign"} => text' = next'[u]
                      /\ Writing' = {} => Fits(text') /\ (~unsigned' => sig' = text')
    BY <1>1, <1>4 DEF WritersAreDone, Fits
  <2>1. /\ Writing = {w} /\ Fits(next[w])
        /\ writer[w] \in {"sig", "sign"} => text = next[w]
    BY <1>0, <1>1 DEF WritersAreDone
  <2>2. Writing' = {w} \/ Writing' = {}
    BY <1>0, <1>1, <2>1 DEF Writing, LineTypes
  <2>3. CASE Line!WriteSig(w)
    BY <1>0, <2>1, <2>2, <2>3 DEF Line!WriteSig, LineTypes, Writing
  <2>4. CASE ~Line!WriteSig(w)
    BY <1>0, <2>1, <2>2, <2>4
       DEF Line!TruncateText, Line!WriteText, Line!TruncateSig, LineTypes, Writing
  <2> QED
    BY <2>3, <2>4
<1>6. SeenIsOnFile'
  BY <1>0, <1>1 DEF SeenIsOnFile, LineTypes
<1> QED
  BY <1>3, <1>5, <1>6 DEF LineInv

LEMMA LineCrash == ASSUME LineInv, NEW w \in Commands, Line!Crash(w) PROVE LineInv'
<1>0. LineTypes /\ WritersAreDone /\ SeenIsOnFile
  BY DEF LineInv
<1>1. /\ overlap' = TRUE /\ UNCHANGED <<text, sig, reader, got, seen, disturbed, expected, unsigned>>
      /\ writer' = [writer EXCEPT ![w] = "idle"] /\ next' = [next EXCEPT ![w] = Line!None]
      /\ w \in Writing
  BY DEF Line!Crash, Line!files, Line!runs, Writing
<1>2. LineTypes'
  BY <1>0, <1>1, LineConfigs DEF LineTypes
<1>3. WritersAreDone'
  BY <1>0, <1>1 DEF WritersAreDone, Plain
<1>4. SeenIsOnFile'
  BY <1>0, <1>1 DEF SeenIsOnFile, LineTypes
<1> QED
  BY <1>2, <1>3, <1>4 DEF LineInv

LEMMA LineHandEdit == ASSUME LineInv, Line!HandEdit PROVE LineInv'
<1>0. LineTypes /\ WritersAreDone /\ SeenIsOnFile
  BY DEF LineInv
<1>1. PICK t : t \in {Line!Config(l, TRUE) : l \in Edits} \cup {Line!Garbled} /\ text' = t
  BY DEF Line!HandEdit
<1>2. /\ expected' = text' /\ unsigned' = TRUE /\ overlap' = (Writing # {})
      /\ disturbed' = [r \in LineRuns |-> disturbed[r] \/ reader[r] # "off"]
      /\ UNCHANGED <<sig, writer, next, reader, got, seen>>
  BY DEF Line!HandEdit, Line!Busy, Writing, Line!writers
<1>3. text' \in LineText /\ Plain(text') /\ text' # Line!Torn
  <2>1. t.rest = TRUE /\ Line!Torn.rest = FALSE
    BY <1>1 DEF Line!Config, Line!Torn, Line!Garbled
  <2> QED
    BY <1>1, <2>1, LineConfigs DEF Plain
<1>4. LineTypes'
  BY <1>0, <1>2, <1>3 DEF LineTypes
<1>5. WritersAreDone'
  BY <1>2, <1>3 DEF WritersAreDone, Plain, Writing, Fits
<1>6. SeenIsOnFile'
  BY <1>0, <1>2 DEF SeenIsOnFile, LineTypes
<1> QED
  BY <1>4, <1>5, <1>6 DEF LineInv

LEMMA LineReadText == ASSUME LineInv, NEW r \in LineRuns, Line!ReadText(r) PROVE LineInv'
<1>0. LineTypes /\ WritersAreDone /\ SeenIsOnFile
  BY DEF LineInv
<1>1. /\ reader[r] # "text"
      /\ reader' = [reader EXCEPT ![r] = "text"] /\ got' = [got EXCEPT ![r] = text]
      /\ disturbed' = [disturbed EXCEPT ![r] = @ \/ Writing # {}]
      /\ UNCHANGED <<text, sig, writer, next, seen, expected, overlap, unsigned>>
  BY DEF Line!ReadText, Line!files, Line!writers, Line!Busy, Writing
<1>2. LineTypes'
  BY <1>0, <1>1 DEF LineTypes
<1>3. WritersAreDone'
  BY <1>0, <1>1 DEF WritersAreDone, Fits, Plain, Writing
<1>4. Writing' = Writing /\ Line!RawOf(text)' = Line!RawOf(text)
  BY <1>1 DEF Writing, Line!RawOf
<1>5. SeenIsOnFile'
  <2> SUFFICES ASSUME NEW o \in LineRuns
               PROVE  /\ reader'[o] = "off" => seen'[o] = <<>>
                      /\ reader'[o] # "off" /\ Writing # {} => disturbed'[o]
                      /\ reader'[o] # "off" /\ ~disturbed'[o] /\ ~overlap /\ ~unsigned =>
                           /\ reader'[o] = "text" => got'[o] = text
                           /\ \A i \in DOMAIN seen[o] : seen[o][i] = Line!RawOf(text)
    BY <1>1, <1>4 DEF SeenIsOnFile
  <2>1. CASE o # r
    BY <1>0, <1>1, <2>1 DEF SeenIsOnFile, LineTypes
  <2>2. CASE o = r
    <3>1. reader[r] = "off" => DOMAIN seen[r] = {}
      BY <1>0 DEF SeenIsOnFile
    <3> QED
      BY <1>0, <1>1, <2>2, <3>1 DEF SeenIsOnFile, LineTypes
  <2> QED
    BY <2>1, <2>2
<1> QED
  BY <1>2, <1>3, <1>5 DEF LineInv

LEMMA LineReadSig == ASSUME LineInv, NEW r \in LineRuns, Line!ReadSig(r) PROVE LineInv'
<1>0. LineTypes /\ WritersAreDone /\ SeenIsOnFile
  BY DEF LineInv
<1> DEFINE v == Line!Verified(got[r], sig)
<1>1. /\ reader[r] = "text" /\ reader' = [reader EXCEPT ![r] = "first"]
      /\ seen' = [seen EXCEPT ![r] = Append(@, v)] /\ got' = [got EXCEPT ![r] = Line!Absent]
      /\ UNCHANGED <<text, sig, writer, next, disturbed, expected, overlap, unsigned>>
  BY DEF Line!ReadSig, Line!files, Line!writers
<1>2. v \in LineText
  BY <1>0, LineConfigs DEF Line!Verified, LineTypes
<1>3. seen[r] \in Seq(LineText) /\ Append(seen[r], v) \in Seq(LineText)
  BY <1>0, <1>2 DEF LineTypes
<1>4. LineTypes'
  BY <1>0, <1>1, <1>3, LineConfigs DEF LineTypes
<1>5. WritersAreDone'
  BY <1>0, <1>1 DEF WritersAreDone, Fits, Plain, Writing
<1>6. Writing' = Writing /\ Line!RawOf(text)' = Line!RawOf(text)
  BY <1>1 DEF Writing, Line!RawOf
<1>7. ASSUME ~disturbed[r], ~overlap, ~unsigned
      PROVE  \A i \in DOMAIN Append(seen[r], v) : Append(seen[r], v)[i] = Line!RawOf(text)
  <2>1. Writing = {} /\ got[r] = text /\ \A i \in DOMAIN seen[r] : seen[r][i] = Line!RawOf(text)
    BY <1>0, <1>1, <1>7 DEF SeenIsOnFile
  <2>2. sig = text
    BY <1>0, <1>7, <2>1 DEF WritersAreDone
  <2>3. v = Line!RawOf(text)
    BY <2>1, <2>2 DEF Line!Verified, Line!RawOf
  <2>4. PICK x \in LineText : x = v
    BY <1>2
  <2>5. \A i \in DOMAIN Append(seen[r], x) :
          \/ i \in DOMAIN seen[r] /\ Append(seen[r], x)[i] = seen[r][i]
          \/ Append(seen[r], x)[i] = x
    BY <1>3
  <2> QED
    BY <2>1, <2>3, <2>4, <2>5
<1>8. SeenIsOnFile'
  <2> HIDE DEF v
  <2> SUFFICES ASSUME NEW o \in LineRuns
               PROVE  /\ reader'[o] = "off" => seen'[o] = <<>>
                      /\ reader'[o] # "off" /\ Writing # {} => disturbed[o]
                      /\ reader'[o] # "off" /\ ~disturbed[o] /\ ~overlap /\ ~unsigned =>
                           /\ reader'[o] = "text" => got'[o] = text
                           /\ \A i \in DOMAIN seen'[o] : seen'[o][i] = Line!RawOf(text)
    BY <1>1, <1>6 DEF SeenIsOnFile
  <2>1. CASE o # r
    BY <1>0, <1>1, <2>1 DEF SeenIsOnFile, LineTypes
  <2>2. CASE o = r
    <3>1. seen'[o] = Append(seen[r], v) /\ reader'[o] = "first"
      BY <1>0, <1>1, <2>2 DEF LineTypes
    <3> QED
      BY <1>0, <1>1, <1>7, <2>2, <3>1 DEF SeenIsOnFile
  <2> QED
    BY <2>1, <2>2
<1> QED
  BY <1>4, <1>5, <1>8 DEF LineInv

LEMMA LineInductive == LineInv /\ [Line!Next]_lineVars => LineInv'
<1> SUFFICES ASSUME LineInv, [Line!Next]_lineVars PROVE LineInv'
  OBVIOUS
<1>1. CASE UNCHANGED lineVars
  BY <1>1 DEF lineVars, LineInv, LineTypes, WritersAreDone, SeenIsOnFile, Plain, Writing, Fits,
     Line!RawOf
<1> QED
  BY <1>1, LineCommand, LineSign, LineWrite, LineCrash, LineHandEdit, LineReadText, LineReadSig
     DEF Line!Next

LEMMA LineInitially == Line!Init => LineInv
<1> SUFFICES ASSUME Line!Init PROVE LineInv
  OBVIOUS
<1>1. text \in LineText /\ Plain(text) /\ text # Line!Torn
  <2>1. text = Line!Absent \/ text = Line!Config(Line!NoLine, TRUE)
    BY DEF Line!Init
  <2>2. Line!Config(Line!NoLine, TRUE).rest = TRUE /\ Line!Torn.rest = FALSE
    BY DEF Line!Config, Line!Torn
  <2>3. Plain(text) /\ text # Line!Torn
    BY <2>1, <2>2, LineConfigs DEF Plain
  <2> QED
    BY <2>1, <2>3, LineConfigs
<1>2. LineTypes
  <2>1. text \in LineText /\ expected \in LineText
    BY <1>1 DEF Line!Init
  <2>2. /\ writer \in [Commands -> {"idle", "text", "write", "sig", "sign"}]
        /\ next \in [Commands -> LineText] /\ got \in [LineRuns -> LineText]
    BY LineConfigs DEF Line!Init
  <2>3. /\ reader \in [LineRuns -> {"off", "text", "first"}]
        /\ seen \in [LineRuns -> Seq(LineText)]
    <3>1. <<>> \in Seq(LineText)
      OBVIOUS
    <3> QED
      BY <3>1 DEF Line!Init
  <2>4. overlap \in BOOLEAN /\ unsigned \in BOOLEAN /\ disturbed \in [LineRuns -> BOOLEAN]
    BY DEF Line!Init
  <2> QED
    BY <2>1, <2>2, <2>3, <2>4 DEF LineTypes
<1>3. Writing = {}
  BY DEF Line!Init, Writing
<1> QED
  BY <1>1, <1>2, <1>3 DEF LineInv, WritersAreDone, Fits, SeenIsOnFile, Line!Init

LEMMA LineShows == LineInv => Line!ConfigIsAsWritten
<1> SUFFICES ASSUME LineInv PROVE Line!ConfigIsAsWritten
  OBVIOUS
<1>1. Line!NothingLost
  BY DEF LineInv, WritersAreDone, Fits, Line!NothingLost, Line!Busy, Writing
<1>2. ASSUME NEW r \in LineRuns, Len(seen[r]) = 2, ~disturbed[r], ~overlap, ~unsigned
      PROVE  LET q == Line!GetLineAgents(seen[r][1], seen[r][2])
             IN /\ seen[r][1] = Line!RawOf(text) /\ seen[r][2] = Line!RawOf(text)
                /\ IsInjective(q) /\ ToSet(q) \subseteq Line!Known
                /\ Line!RawOf(text).line # Line!NoLine
                     => ToSet(q) = ToSet(Line!RawOf(text).line) \cap Line!Known
  <2>1. seen[r] \in Seq(LineText) /\ 1 \in DOMAIN seen[r] /\ 2 \in DOMAIN seen[r] /\ seen[r] # <<>>
    <3>1. seen[r] \in Seq(LineText)
      BY DEF LineInv, LineTypes
    <3>2. DOMAIN seen[r] = 1..2
      BY <1>2, <3>1
    <3> QED
      BY <3>1, <3>2
  <2>2. /\ seen[r][1] = Line!RawOf(text) /\ seen[r][2] = Line!RawOf(text) /\ Writing = {}
    BY <1>2, <2>1 DEF LineInv, SeenIsOnFile
  <2>3. text \in LineText
    BY DEF LineInv, LineTypes
  <2> DEFINE c == Line!RawOf(text)
             q == Line!GetLineAgents(c, c)
  <2>4. c \in LineText /\ c.line \in Seq(LineNames)
    BY <2>3, LineConfigs DEF LineText
  <2>5. CASE c.line # Line!NoLine
    <3>1. q = Line!Deduped(c.line)
      BY <2>5 DEF Line!GetLineAgents
    <3>2. IsInjective(q) /\ ToSet(q) = ToSet(c.line) \cap Line!Known
      BY <2>4, <3>1, DedupedKeeps
    <3> QED
      BY <2>2, <3>1, <3>2
  <2>6. CASE c.line = Line!NoLine
    <3>1. q = Line!DefaultLine(Line!TierOf(c))
      BY <2>6 DEF Line!GetLineAgents
    <3>2. IsInjective(q) /\ ToSet(q) \subseteq Line!Known
      BY <3>1, DefaultLineKeeps
    <3> QED
      BY <2>2, <2>6, <3>2
  <2> QED
    BY <2>5, <2>6
<1>3. \A f : Line!IsInjective(f) = IsInjective(f)
  BY DEF Line!IsInjective, IsInjective
<1>4. Line!RunsGoByFile
  BY <1>2, <1>3, LineToSet DEF Line!RunsGoByFile
<1> QED
  BY <1>1, <1>4 DEF Line!ConfigIsAsWritten

-----------------------------------------------------------------------------
(* The thread of an agent and its host *)

\* The component takes the largest as we do.
LEMMA ThreadMax == \A S : Thread!Max(S) = Max(S)
  BY DEF Thread!Max, Max

Message == [id : Nat, kind : Thread!Kinds, replyTo : Nat, by : Thread!Procs \cup {Thread!Nobody},
            to : Thread!Procs \cup {Thread!Nobody}]

ThreadTypes ==
    /\ thread \in Seq(Message) /\ \A i \in 1..Len(thread) : thread[i].id \in 1..i
    /\ pc \in [Thread!Procs -> {"idle", "posting", "waiting", "answered", "defaulted", "timeout"}]
    /\ draft \in [Thread!Procs -> Message]
    /\ taken \in [Thread!Procs -> Nat] /\ \A p \in Thread!Procs : taken[p] <= Len(thread) + 1
    /\ late \in SUBSET Message /\ unheard \subseteq Thread!Procs \X Thread!Kinds
    /\ qid \in [Askers -> Nat] /\ result \in [Askers -> Nat]

\* The places of the thread, and an answer meant for who asked.
Place == 1..Len(thread)
IsMeant(e) == \E j \in Place : /\ thread[j].kind = "question"
                               /\ thread[j].id = e.replyTo /\ thread[j].by = e.to
Asked(a) == \E j \in Place : /\ thread[j].kind = "question"
                             /\ thread[j].id = qid[a] /\ thread[j].by = a
AnsweredFor(a) == \E j \in Place : thread[j].kind = "answer" /\ thread[j].replyTo = qid[a]

\* What a command is about to post.
DraftOf(p) ==
    /\ taken[p] # 0 => pc[p] = "posting" /\ (p \in Direct \/ Thread!Unheard(draft[p]))
    /\ pc[p] = "posting" => /\ draft[p].by = p
                            /\ draft[p].kind = "question" => p \in Askers
                            /\ draft[p].kind = "answer" => IsMeant(draft[p])

\* How far an asker is: it asks once, waits for an answer to its question, and has its default
\* posted when it ends with it.
AskerOf(a) ==
    /\ pc[a] = "idle" => qid[a] = 0
    /\ pc[a] = "posting" => IF draft[a].kind = "question" THEN qid[a] = 0
                            ELSE draft[a].kind = "answer" /\ draft[a].replyTo = qid[a] /\ qid[a] # 0
    /\ pc[a] \in {"waiting", "answered", "defaulted", "timeout"} => qid[a] # 0
    /\ qid[a] # 0 => Asked(a)
    /\ pc[a] = "defaulted" => AnsweredFor(a)
    /\ result[a] # 0 => /\ pc[a] = "answered" /\ result[a] \in Place
                        /\ Thread!IsAnswerTo(thread[result[a]], qid[a])

\* What is in the thread: questions of the askers, one each unless one went unheard, answers to
\* them; and a later entry with an id that was given before is of somebody without a shared writer.
ThreadEntries ==
    \A i \in Place :
      /\ thread[i].kind = "question" =>
           /\ thread[i].by \in Askers
           /\ thread[i].id = qid[thread[i].by] \/ Thread!Unheard(thread[i])
      /\ thread[i].kind = "answer" => IsMeant(thread[i])
      /\ \A j \in Place : i < j /\ thread[i].id = thread[j].id =>
           thread[j].by \in Direct \/ Thread!Unheard(thread[j])

\* What a daemon may still append is a draft that went unheard.
LateEntries ==
    \A e \in late : /\ Thread!Unheard(e)
                    /\ e.kind = "question" => e.by \in Askers
                    /\ e.kind = "answer" => IsMeant(e)

PostInv ==
    /\ ThreadTypes /\ ThreadEntries /\ LateEntries /\ Thread!AskedOnce
    /\ \A p \in Thread!Procs : DraftOf(p)
    /\ \A a \in Askers : AskerOf(a)

\* The id given next is none of those given, and no larger than the place.
LEMMA NextIdIsNew ==
    ASSUME ThreadTypes
    PROVE  Thread!NextDiscussId \in 1..(Len(thread) + 1) /\ Thread!NextDiscussId \notin Thread!Ids
<1>1. Len(thread) \in Nat /\ DOMAIN thread = 1..Len(thread)
  BY DEF ThreadTypes
<1> DEFINE S == Thread!Ids \cup {0}
<1>2. S \in SUBSET (0..Len(thread)) /\ S # {}
  BY <1>1 DEF ThreadTypes, Thread!Ids
<1> HIDE DEF S
<1>3. Max(S) \in S /\ \A y \in S : y <= Max(S)
  BY <1>1, <1>2, MaxOfPart
<1>4. Thread!NextDiscussId = 1 + Max(S)
  BY ThreadMax DEF Thread!NextDiscussId, S
<1>5. Max(S) \in 0..Len(thread)
  BY <1>2, <1>3
<1>6. 1 + Max(S) \notin S
  BY <1>2, <1>3, <1>5
<1> QED
  BY <1>1, <1>4, <1>5, <1>6 DEF S

\* An entry more leaves the others where they are.
Grown == \/ UNCHANGED thread
         \/ \E e \in Message : e.id \in 1..(Len(thread) + 1) /\ thread' = Append(thread, e)

LEMMA Grows ==
    ASSUME thread \in Seq(Message), NEW e \in Message, thread' = Append(thread, e)
    PROVE  /\ thread' \in Seq(Message) /\ Len(thread) \in Nat /\ Len(thread') = Len(thread) + 1
           /\ thread'[Len(thread) + 1] = e
           /\ \A i \in Place : i \in Place' /\ thread'[i] = thread[i] /\ thread[i] \in Message
           /\ \A i \in Place' : i \in Place \/ i = Len(thread) + 1
  BY DEF Place

LEMMA MeantStays ==
    ASSUME Grown, thread \in Seq(Message)
    PROVE  /\ \A e : IsMeant(e) => IsMeant(e)'
           /\ \A i \in Place : i \in Place' /\ thread'[i] = thread[i]
<1>1. CASE UNCHANGED thread
  BY <1>1 DEF IsMeant, Place
<1>2. ASSUME NEW e \in Message, thread' = Append(thread, e)
      PROVE  \A i \in Place : i \in Place' /\ thread'[i] = thread[i]
  BY <1>2, Grows
<1> QED
  BY <1>1, <1>2 DEF Grown, IsMeant

\* Nothing in the thread changes while nobody appends.
LEMMA EntriesStay ==
    ASSUME PostInv, UNCHANGED <<thread, late, unheard, qid>>
    PROVE  ThreadEntries' /\ LateEntries' /\ Thread!AskedOnce'
  BY DEF PostInv, ThreadEntries, LateEntries, Thread!AskedOnce, Place, IsMeant, Thread!Unheard

LEMMA PostCompose ==
    ASSUME PostInv, NEW p \in Thread!Procs, NEW e \in Message, Thread!Compose(p, e), e.by = p,
           taken[p] = 0,
           e.kind = "question" => p \in Askers,
           e.kind = "answer" => IsMeant(e),
           p \in Askers => IF e.kind = "question" THEN qid[p] = 0
                           ELSE e.kind = "answer" /\ e.replyTo = qid[p] /\ qid[p] # 0,
           p \in Askers => result[p] = 0
    PROVE  PostInv'
<1>1. /\ pc' = [pc EXCEPT ![p] = "posting"] /\ draft' = [draft EXCEPT ![p] = e]
      /\ UNCHANGED <<thread, taken, late, unheard, qid, result>>
  BY DEF Thread!Compose
<1>2. ThreadTypes'
  BY <1>1 DEF PostInv, ThreadTypes
<1>3. ThreadEntries' /\ LateEntries' /\ Thread!AskedOnce'
  BY <1>1, EntriesStay
<1>4. ASSUME NEW q \in Thread!Procs PROVE DraftOf(q)'
  <2>1. CASE q = p
    BY <1>1, <2>1 DEF PostInv, ThreadTypes, DraftOf, IsMeant, Place
  <2>2. CASE q # p
    BY <1>1, <2>2 DEF PostInv, ThreadTypes, DraftOf, IsMeant, Place, Thread!Unheard
  <2> QED
    BY <2>1, <2>2
<1>5. ASSUME NEW a \in Askers PROVE AskerOf(a)'
  <2>1. a \in Thread!Procs /\ AskerOf(a)
    BY DEF PostInv, Thread!Procs
  <2>2. CASE a = p
    BY <1>1, <2>1, <2>2 DEF PostInv, ThreadTypes, AskerOf, Asked, AnsweredFor, Place
  <2>3. CASE a # p
    BY <1>1, <2>1, <2>3 DEF PostInv, ThreadTypes, AskerOf, Asked, AnsweredFor, Place
  <2> QED
    BY <2>2, <2>3
<1> QED
  BY <1>2, <1>3, <1>4, <1>5 DEF PostInv

LEMMA PostPosted ==
    ASSUME PostInv, NEW p \in Thread!Procs, pc[p] = "posting", NEW id \in 1..(Len(thread) + 1),
           Thread!Posted(p, id),
           p \in Direct \/ Thread!Unheard(draft[p]) \/ id \notin Thread!Ids
    PROVE  PostInv'
<1>d. PICK d \in Message : d = draft[p]
  BY DEF PostInv, ThreadTypes
<1> DEFINE q == IF d.kind = "question" THEN "waiting" ELSE IF p \in Askers THEN "defaulted" ELSE "idle"
<1>0. thread \in Seq(Message) /\ Len(thread) \in Nat /\ DraftOf(p) /\ d.by = p
      /\ DOMAIN thread = Place
  BY <1>d DEF PostInv, ThreadTypes, DraftOf, Place
<1>1. PICK e \in Message : /\ e = [d EXCEPT !.id = id] /\ e.id = id /\ e.by = p /\ e.kind = d.kind
                           /\ e.replyTo = d.replyTo /\ e.to = d.to
  <2>1. id \in Nat
    BY <1>0
  <2>2. [d EXCEPT !.id = id] \in Message
    BY <2>1 DEF Message
  <2> QED
    BY <1>0, <2>2 DEF Message
<1>2. /\ thread' = Append(thread, e) /\ draft' = [draft EXCEPT ![p] = Thread!NoDraft]
      /\ taken' = [taken EXCEPT ![p] = 0] /\ pc' = [pc EXCEPT ![p] = q]
      /\ qid' = IF d.kind = "question" THEN [qid EXCEPT ![p] = id] ELSE qid
      /\ UNCHANGED <<result, late, unheard>>
  BY <1>d, <1>1 DEF Thread!Posted
<1>3. /\ thread' \in Seq(Message) /\ Len(thread') = Len(thread) + 1
      /\ thread'[Len(thread) + 1] = e /\ Len(thread) + 1 \in Place'
      /\ \A i \in Place : i \in Place' /\ thread'[i] = thread[i] /\ thread[i] \in Message
      /\ \A i \in Place' : i \in Place \/ i = Len(thread) + 1
  BY <1>0, <1>1, <1>2, Grows DEF Place
<1>4. Grown
  BY <1>1, <1>2 DEF Grown
<1>5. Thread!NoDraft \in Message
  BY DEF Thread!NoDraft, Thread!Entry, Message, Thread!Kinds
<1>6. d.kind = "question" => p \in Askers /\ qid[p] = 0
  BY <1>0, <1>d DEF DraftOf, PostInv, AskerOf
<1>7. \A a \in Askers : qid'[a] # qid[a] => d.kind = "question" /\ a = p /\ qid'[a] = id
  BY <1>2, <1>6 DEF PostInv, ThreadTypes
<1>8. qid' \in [Askers -> Nat] /\ (d.kind = "question" => qid'[p] = id)
  BY <1>2, <1>6 DEF PostInv, ThreadTypes
<1>9. ThreadTypes'
  <2>1. \A i \in 1..Len(thread') : thread'[i].id \in 1..i
    <3>1. ASSUME NEW i \in Place' PROVE thread'[i].id \in 1..i
      <4>1. CASE i \in Place
        BY <1>3, <4>1 DEF PostInv, ThreadTypes, Place
      <4>2. CASE i = Len(thread) + 1
        BY <1>1, <1>3, <4>2
      <4> QED
        BY <1>3, <4>1, <4>2
    <3> QED
      BY <3>1 DEF Place
  <2>2. /\ pc' \in [Thread!Procs -> {"idle", "posting", "waiting", "answered", "defaulted", "timeout"}]
        /\ draft' \in [Thread!Procs -> Message] /\ taken' \in [Thread!Procs -> Nat]
    BY <1>2, <1>5 DEF PostInv, ThreadTypes
  <2>3. \A o \in Thread!Procs : taken'[o] <= Len(thread') + 1
    BY <1>0, <1>2, <1>3 DEF PostInv, ThreadTypes
  <2> QED
    BY <1>2, <1>3, <1>8, <2>1, <2>2, <2>3 DEF PostInv, ThreadTypes
<1>10. d.kind = "answer" => IsMeant(e)'
  <2>1. d.kind = "answer" => IsMeant(d)
    BY <1>0, <1>d DEF DraftOf
  <2>2. IsMeant(d) => IsMeant(d)'
    BY <1>0, <1>4, MeantStays
  <2> QED
    BY <1>1, <2>1, <2>2 DEF IsMeant
<1>u. /\ \A o : Thread!Unheard(o)' <=> Thread!Unheard(o)
      /\ Thread!Unheard(e) <=> Thread!Unheard(draft[p])
  BY <1>d, <1>1, <1>2 DEF Thread!Unheard
<1>11. ThreadEntries'
  <2> SUFFICES ASSUME NEW i \in Place'
               PROVE  /\ thread'[i].kind = "question" =>
                           /\ thread'[i].by \in Askers
                           /\ thread'[i].id = qid'[thread'[i].by] \/ Thread!Unheard(thread'[i])
                      /\ thread'[i].kind = "answer" => IsMeant(thread[i])'
                      /\ \A j \in Place' : i < j /\ thread'[i].id = thread'[j].id =>
                           thread'[j].by \in Direct \/ Thread!Unheard(thread'[j])
    BY <1>2 DEF ThreadEntries, Thread!Unheard
  <2>1. CASE i = Len(thread) + 1
    <3>1. thread'[i] = e /\ e.id \in Nat
      BY <1>0, <1>1, <1>3, <2>1
    <3>2. (d.kind = "answer" => IsMeant(thread[i])')
      BY <1>10, <3>1 DEF IsMeant
    <3>3. \A j \in Place' : ~(i < j)
      BY <1>0, <1>3, <2>1 DEF Place
    <3> QED
      BY <1>1, <1>6, <1>8, <3>1, <3>2, <3>3
  <2>2. CASE i \in Place
    <3>1. thread'[i] = thread[i] /\ thread[i] \in Message
      BY <1>3, <2>2
    <3>2. thread[i].kind = "question" =>
            thread[i].by \in Askers /\ (thread[i].id = qid'[thread[i].by] \/ Thread!Unheard(thread[i]))
      <4> SUFFICES ASSUME thread[i].kind = "question", ~Thread!Unheard(thread[i])
                   PROVE  thread[i].by \in Askers /\ thread[i].id = qid'[thread[i].by]
        BY <2>2 DEF PostInv, ThreadEntries
      <4>1. thread[i].by \in Askers /\ thread[i].id = qid[thread[i].by] /\ thread[i].id # 0
        BY <2>2 DEF PostInv, ThreadEntries, ThreadTypes, Place
      <4> QED
        BY <1>6, <1>7, <4>1
    <3>3. thread[i].kind = "answer" => IsMeant(thread[i])'
      <4>1. PICK m \in Message : m = thread[i]
        BY <3>1
      <4>2. IsMeant(m) => IsMeant(m)'
        BY <1>0, <1>4, MeantStays
      <4> QED
        BY <2>2, <3>1, <4>1, <4>2 DEF PostInv, ThreadEntries, IsMeant
    <3>4. ASSUME NEW j \in Place', i < j, thread'[i].id = thread'[j].id
          PROVE  thread'[j].by \in Direct \/ Thread!Unheard(thread'[j])
      <4>1. CASE j \in Place
        BY <1>3, <2>2, <3>1, <3>4, <4>1 DEF PostInv, ThreadEntries
      <4>2. CASE j = Len(thread) + 1
        <5>1. id \in Thread!Ids
          BY <1>0, <1>1, <1>3, <2>2, <3>1, <3>4, <4>2 DEF Thread!Ids
        <5> QED
          BY <1>1, <1>3, <1>u, <4>2, <5>1
      <4> QED
        BY <1>3, <4>1, <4>2
    <3> QED
      BY <3>1, <3>2, <3>3, <3>4
  <2> QED
    BY <1>3, <2>1, <2>2
<1>14. LateEntries'
  <2> SUFFICES ASSUME NEW o \in late
               PROVE  /\ Thread!Unheard(o) /\ (o.kind = "question" => o.by \in Askers)
                      /\ o.kind = "answer" => IsMeant(o)'
    BY <1>2, <1>u DEF LateEntries
  <2>1. IsMeant(o) => IsMeant(o)'
    BY <1>0, <1>4, MeantStays
  <2> QED
    BY <2>1 DEF PostInv, LateEntries
<1>15. Thread!AskedOnce'
  <2>1. d.kind = "question" => \A i \in Place :
          thread[i].kind = "question" /\ thread[i].by = p => Thread!Unheard(thread[i])
    BY <1>6 DEF PostInv, ThreadEntries, ThreadTypes, Place
  <2>2. d.kind = "question" => \A i \in Place :
          thread[i].kind = "question" /\ thread[i].by = p => Thread!Unheard(e)
    BY <1>1, <2>1 DEF Thread!Unheard
  <2>3. \A i, j \in Place : thread[i].kind = "question" /\ thread[j].kind = "question"
                             /\ thread[i].by = thread[j].by => i = j \/ Thread!Unheard(thread[i])
    BY <1>0 DEF PostInv, Thread!AskedOnce
  <2>4. DOMAIN thread' = Place'
    BY <1>3 DEF Place
  <2> SUFFICES ASSUME NEW i \in Place', NEW j \in Place', thread'[i].kind = "question",
                      thread'[j].kind = "question", thread'[i].by = thread'[j].by, i # j
               PROVE  Thread!Unheard(thread'[i])
    BY <1>2, <2>4 DEF Thread!AskedOnce, Thread!Unheard
  <2>5. CASE i \in Place /\ j \in Place
    BY <1>3, <2>3, <2>5
  <2>6. CASE i \in Place /\ j = Len(thread) + 1
    BY <1>1, <1>3, <2>1, <2>6
  <2>7. CASE i = Len(thread) + 1
    BY <1>1, <1>3, <2>2, <2>7
  <2> QED
    BY <1>3, <2>5, <2>6, <2>7
<1>12. ASSUME NEW o \in Thread!Procs PROVE DraftOf(o)'
  <2>1. CASE o = p
    BY <1>0, <1>2, <2>1 DEF PostInv, ThreadTypes, DraftOf
  <2>2. CASE o # p
    <3>1. /\ pc'[o] = pc[o] /\ draft'[o] = draft[o] /\ taken'[o] = taken[o] /\ DraftOf(o)
      BY <1>2, <2>2 DEF PostInv, ThreadTypes
    <3>2. IsMeant(draft[o]) => IsMeant(draft[o])'
      <4>1. PICK m \in Message : m = draft[o]
        BY DEF PostInv, ThreadTypes
      <4>2. IsMeant(m) => IsMeant(m)'
        BY <1>0, <1>4, MeantStays
      <4> QED
        BY <3>1, <4>1, <4>2 DEF IsMeant
    <3>3. Thread!Unheard(draft[o])' <=> Thread!Unheard(draft[o])
      BY <1>2, <3>1 DEF Thread!Unheard
    <3> QED
      BY <3>1, <3>2, <3>3 DEF DraftOf
  <2> QED
    BY <2>1, <2>2
<1>13. ASSUME NEW a \in Askers PROVE AskerOf(a)'
  <2>0. a \in Thread!Procs /\ AskerOf(a)
    BY DEF PostInv, Thread!Procs
  <2>1. CASE a = p
    <3>1. result[a] = 0
      BY <2>0, <2>1 DEF AskerOf
    <3>2. CASE d.kind = "question"
      <4>1. pc'[a] = "waiting" /\ qid'[a] = id
        BY <1>2, <1>8, <2>0, <2>1, <3>2 DEF PostInv, ThreadTypes
      <4>2. Asked(a)'
        BY <1>1, <1>3, <2>1, <3>2, <4>1 DEF Asked
      <4> QED
        BY <1>2, <3>1, <4>1, <4>2 DEF AskerOf
    <3>3. CASE d.kind # "question"
      <4>1. pc'[a] = "defaulted" /\ qid'[a] = qid[a] /\ qid[a] # 0 /\ Asked(a)
            /\ d.kind = "answer" /\ d.replyTo = qid[a]
        BY <1>2, <1>d, <2>0, <2>1, <3>3 DEF PostInv, ThreadTypes, AskerOf
      <4>2. AnsweredFor(a)'
        BY <1>1, <1>3, <4>1 DEF AnsweredFor
      <4>3. Asked(a)'
        BY <1>3, <4>1 DEF Asked
      <4> QED
        BY <1>2, <3>1, <4>1, <4>2, <4>3 DEF AskerOf
    <3> QED
      BY <3>2, <3>3
  <2>2. CASE a # p
    <3>1. /\ pc'[a] = pc[a] /\ draft'[a] = draft[a] /\ qid'[a] = qid[a] /\ result'[a] = result[a]
      BY <1>2, <1>7, <2>0, <2>2 DEF PostInv, ThreadTypes
    <3>2. (Asked(a) => Asked(a)') /\ (AnsweredFor(a) => AnsweredFor(a)')
      BY <1>3, <3>1 DEF Asked, AnsweredFor
    <3>3. result[a] # 0 => /\ result[a] \in Place' /\ thread'[result[a]] = thread[result[a]]
      BY <1>3, <2>0 DEF AskerOf
    <3> QED
      BY <2>0, <3>1, <3>2, <3>3 DEF AskerOf, Thread!IsAnswerTo
  <2> QED
    BY <2>1, <2>2
<1> QED
  BY <1>9, <1>11, <1>12, <1>13, <1>14, <1>15 DEF PostInv

\* A request goes unheard, and stays with the daemon.
LEMMA PostUnheard ==
    ASSUME PostInv, NEW p \in Thread!Procs, Thread!RequestTimesOut(p)
    PROVE  PostInv' /\ UNCHANGED <<thread, watch, inbox>>
<1>d. PICK d \in Message : d = draft[p]
  BY DEF PostInv, ThreadTypes
<1>1. /\ late' = late \cup {d} /\ unheard' = unheard \cup {<<p, d.kind>>} /\ pc[p] = "posting"
      /\ UNCHANGED <<thread, pc, draft, taken, qid, result, watch, inbox>>
  BY <1>d DEF Thread!RequestTimesOut
<1>2. d.by = p /\ (d.kind = "question" => p \in Askers) /\ (d.kind = "answer" => IsMeant(d))
      /\ d.kind \in Thread!Kinds
  BY <1>d, <1>1 DEF PostInv, DraftOf, Message
<1>3. /\ \A o : Thread!Unheard(o) => Thread!Unheard(o)'
      /\ Thread!Unheard(d)'
      /\ \A o : IsMeant(o)' <=> IsMeant(o)
  BY <1>1, <1>2 DEF Thread!Unheard, IsMeant, Place
<1>4. ThreadTypes'
  BY <1>1, <1>2 DEF PostInv, ThreadTypes
<1>5. ThreadEntries'
  <2>1. \A i \in Place : Thread!Unheard(thread[i]) => Thread!Unheard(thread[i])'
    BY <1>1 DEF Thread!Unheard
  <2>2. \A i \in Place : IsMeant(thread[i]) => IsMeant(thread[i])'
    BY <1>1 DEF IsMeant, Place
  <2> QED
    BY <1>1, <2>1, <2>2 DEF PostInv, ThreadEntries, Place
<1>6. LateEntries'
  BY <1>1, <1>2, <1>3 DEF PostInv, LateEntries
<1>7. Thread!AskedOnce'
  BY <1>1 DEF PostInv, Thread!AskedOnce, Thread!Unheard
<1>8. \A o \in Thread!Procs : DraftOf(o)'
  BY <1>1 DEF PostInv, DraftOf, IsMeant, Place, Thread!Unheard
<1>9. \A a \in Askers : AskerOf(a)'
  BY <1>1 DEF PostInv, AskerOf, Asked, AnsweredFor, Place, Thread!IsAnswerTo
<1> QED
  BY <1>1, <1>4, <1>5, <1>6, <1>7, <1>8, <1>9 DEF PostInv

\* The daemon appends it after all.
LEMMA PostLate ==
    ASSUME PostInv, Thread!AppendLate
    PROVE  PostInv' /\ Grown /\ UNCHANGED <<watch, inbox>>
<1>0. thread \in Seq(Message) /\ Len(thread) \in Nat /\ DOMAIN thread = Place /\ ThreadTypes
  BY DEF PostInv, ThreadTypes, Place
<1>i. PICK id \in 1..(Len(thread) + 1) : id = Thread!NextDiscussId /\ id \notin Thread!Ids
  BY <1>0, NextIdIsNew
<1>d. PICK d \in late : /\ thread' = Append(thread, [d EXCEPT !.id = id]) /\ late' = late \ {d}
                        /\ UNCHANGED <<pc, draft, taken, unheard, qid, result, watch, inbox>>
  BY <1>i DEF Thread!AppendLate
<1>1. PICK e \in Message : /\ e = [d EXCEPT !.id = id] /\ e.id = id /\ e.by = d.by
                           /\ e.kind = d.kind /\ e.replyTo = d.replyTo /\ e.to = d.to
  <2>1. id \in Nat /\ d \in Message
    BY <1>0 DEF ThreadTypes
  <2>2. [d EXCEPT !.id = id] \in Message
    BY <2>1 DEF Message
  <2> QED
    BY <2>1, <2>2 DEF Message
<1>2. /\ thread' \in Seq(Message) /\ Len(thread') = Len(thread) + 1
      /\ thread'[Len(thread) + 1] = e /\ Len(thread) + 1 \in Place'
      /\ \A i \in Place : i \in Place' /\ thread'[i] = thread[i] /\ thread[i] \in Message
      /\ \A i \in Place' : i \in Place \/ i = Len(thread) + 1
      /\ DOMAIN thread' = Place'
  BY <1>0, <1>1, <1>d, Grows DEF Place
<1>3. Grown
  BY <1>1, <1>d DEF Grown
<1>4. /\ Thread!Unheard(e) /\ (e.kind = "question" => e.by \in Askers)
      /\ \A o : Thread!Unheard(o)' <=> Thread!Unheard(o)
  BY <1>1, <1>d DEF PostInv, LateEntries, Thread!Unheard
<1>5. \A o : IsMeant(o) => IsMeant(o)'
  BY <1>0, <1>3, MeantStays
<1>6. e.kind = "answer" => IsMeant(e)'
  <2>1. d.kind = "answer" => IsMeant(d)
    BY DEF PostInv, LateEntries
  <2> QED
    BY <1>1, <1>5, <2>1 DEF IsMeant
<1>7. ThreadTypes'
  <2>1. ASSUME NEW i \in Place' PROVE thread'[i].id \in 1..i
    <3>1. CASE i \in Place
      BY <1>2, <3>1 DEF PostInv, ThreadTypes, Place
    <3>2. CASE i = Len(thread) + 1
      BY <1>1, <1>2, <3>2
    <3> QED
      BY <1>2, <3>1, <3>2
  <2>2. \A o \in Thread!Procs : taken'[o] <= Len(thread') + 1
    BY <1>0, <1>d, <1>2 DEF PostInv, ThreadTypes
  <2> QED
    BY <1>0, <1>2, <1>d, <2>1, <2>2 DEF ThreadTypes, Place
<1>8. ThreadEntries'
  <2> SUFFICES ASSUME NEW i \in Place'
               PROVE  /\ thread'[i].kind = "question" =>
                           /\ thread'[i].by \in Askers
                           /\ thread'[i].id = qid[thread'[i].by] \/ Thread!Unheard(thread'[i])
                      /\ thread'[i].kind = "answer" => IsMeant(thread[i])'
                      /\ \A j \in Place' : i < j /\ thread'[i].id = thread'[j].id =>
                           thread'[j].by \in Direct \/ Thread!Unheard(thread'[j])
    BY <1>d DEF ThreadEntries, Thread!Unheard
  <2>1. CASE i = Len(thread) + 1
    <3>1. \A j \in Place' : ~(i < j)
      BY <1>0, <1>2, <2>1 DEF Place
    <3>2. e.kind = "answer" => IsMeant(thread[i])'
      BY <1>2, <1>6, <2>1 DEF IsMeant
    <3> QED
      BY <1>2, <1>4, <2>1, <3>1, <3>2
  <2>2. CASE i \in Place
    <3>1. thread'[i] = thread[i]
      BY <1>2, <2>2
    <3>2. thread[i].kind = "answer" => IsMeant(thread[i])'
      <4>1. PICK m \in Message : m = thread[i]
        BY <1>2, <2>2
      <4> QED
        BY <1>5, <2>2, <3>1, <4>1 DEF PostInv, ThreadEntries, IsMeant
    <3>3. ASSUME NEW j \in Place', i < j, thread'[i].id = thread'[j].id
          PROVE  thread'[j].by \in Direct \/ Thread!Unheard(thread'[j])
      <4>1. CASE j \in Place
        BY <1>2, <2>2, <3>1, <3>3, <4>1 DEF PostInv, ThreadEntries
      <4>2. CASE j = Len(thread) + 1
        BY <1>2, <1>4, <4>2
      <4> QED
        BY <1>2, <4>1, <4>2
    <3> QED
      BY <2>2, <3>1, <3>2, <3>3 DEF PostInv, ThreadEntries
  <2> QED
    BY <1>2, <2>1, <2>2
<1>9. LateEntries'
  BY <1>4, <1>5, <1>d DEF PostInv, LateEntries
<1>10. Thread!AskedOnce'
  <2>1. \A i, j \in Place : thread[i].kind = "question" /\ thread[j].kind = "question"
                             /\ thread[i].by = thread[j].by => i = j \/ Thread!Unheard(thread[i])
    BY <1>0 DEF PostInv, Thread!AskedOnce
  <2> SUFFICES ASSUME NEW i \in Place', NEW j \in Place', thread'[i].kind = "question",
                      thread'[j].kind = "question", thread'[i].by = thread'[j].by, i # j
               PROVE  Thread!Unheard(thread'[i])
    BY <1>2, <1>d DEF Thread!AskedOnce, Thread!Unheard
  <2>2. CASE i \in Place /\ j \in Place
    BY <1>2, <2>1, <2>2
  <2>3. CASE i = Len(thread) + 1
    BY <1>2, <1>4, <2>3
  <2>4. CASE i \in Place /\ j = Len(thread) + 1
    <3>1. thread'[i].by = e.by /\ thread'[i].kind = e.kind
      BY <1>2, <2>4
    <3> QED
      BY <1>4, <3>1 DEF Thread!Unheard
  <2> QED
    BY <1>2, <2>2, <2>3, <2>4
<1>11. ASSUME NEW o \in Thread!Procs PROVE DraftOf(o)'
  <2>1. DraftOf(o) /\ pc'[o] = pc[o] /\ draft'[o] = draft[o] /\ taken'[o] = taken[o]
    BY <1>d DEF PostInv
  <2>2. IsMeant(draft[o]) => IsMeant(draft[o])'
    <3>1. PICK m \in Message : m = draft[o]
      BY DEF PostInv, ThreadTypes
    <3> QED
      BY <1>5, <2>1, <3>1 DEF IsMeant
  <2>3. Thread!Unheard(draft[o])' <=> Thread!Unheard(draft[o])
    BY <1>d, <2>1 DEF Thread!Unheard
  <2> QED
    BY <2>1, <2>2, <2>3 DEF DraftOf
<1>12. ASSUME NEW a \in Askers PROVE AskerOf(a)'
  <2>1. AskerOf(a) /\ pc'[a] = pc[a] /\ draft'[a] = draft[a] /\ qid'[a] = qid[a] /\ result'[a] = result[a]
    BY <1>d DEF PostInv
  <2>2. (Asked(a) => Asked(a)') /\ (AnsweredFor(a) => AnsweredFor(a)')
    BY <1>2, <2>1 DEF Asked, AnsweredFor
  <2>3. result[a] # 0 => result[a] \in Place' /\ thread'[result[a]] = thread[result[a]]
    BY <1>2, <2>1 DEF AskerOf
  <2> QED
    BY <2>1, <2>2, <2>3 DEF AskerOf, Thread!IsAnswerTo
<1> QED
  BY <1>3, <1>7, <1>8, <1>9, <1>10, <1>11, <1>12, <1>d DEF PostInv

\* A watcher has seen ids that are there, and has a last one unless it found the thread empty; and
\* it shows what it should.
WatchInv ==
    /\ watch \in [from : Nat, seen : SUBSET Nat, lastId : Nat, shown : SUBSET Nat]
    /\ watch.from # 0 => /\ watch.seen \subseteq Thread!Ids
                         /\ watch.lastId = 0 => watch.from = 1 /\ watch.seen = {}
    /\ Thread!WatchShows

\* The inbox is at the last of what it printed, a say, which has the last id.
InboxInv ==
    /\ inbox \in [lastId : Nat, last : Nat, shown : SUBSET Nat, repeated : SUBSET Nat]
    /\ inbox.shown \subseteq 1..inbox.last /\ inbox.last <= Len(thread)
    /\ inbox.lastId = 0 => inbox.last = 0
    /\ inbox.lastId # 0 => /\ inbox.last \in inbox.shown /\ thread[inbox.last].id = inbox.lastId
                           /\ thread[inbox.last].kind = "say"
    /\ Thread!InboxShows

ThreadInv == PostInv /\ WatchInv /\ InboxInv

\* As the thread grows they stay true.
LEMMA ReadersStay ==
    ASSUME ThreadInv, Grown, PostInv', UNCHANGED <<watch, inbox>>
    PROVE  WatchInv' /\ InboxInv'
<1>1. /\ Len(thread) \in Nat /\ Len(thread') \in Nat /\ Len(thread) <= Len(thread')
      /\ thread \in Seq(Message) /\ DOMAIN thread = Place /\ DOMAIN thread' = Place'
      /\ \A i \in Place : i \in Place' /\ thread'[i] = thread[i]
      /\ \A i \in Place' : i \in Nat /\ (i \in Place \/ i > Len(thread))
  <2>1. thread \in Seq(Message) /\ thread' \in Seq(Message)
    BY DEF ThreadInv, PostInv, ThreadTypes
  <2>2. \A i \in Place : i \in Place' /\ thread'[i] = thread[i]
    BY <2>1, MeantStays
  <2>3. Len(thread) <= Len(thread')
    <3>1. CASE UNCHANGED thread
      BY <2>1, <3>1
    <3>2. ASSUME NEW e \in Message, thread' = Append(thread, e) PROVE Len(thread) <= Len(thread')
      BY <2>1, <3>2
    <3> QED
      BY <3>1, <3>2 DEF Grown
  <2> QED
    BY <2>1, <2>2, <2>3 DEF Place
<1>2. \A i \in Place : Thread!Twin(i) => Thread!Twin(i)'
  BY <1>1 DEF Thread!Twin
<1>3. Thread!Ids \subseteq Thread!Ids'
  BY <1>1 DEF Thread!Ids
<1>4. WatchInv'
  <2>1. ASSUME watch.from # 0, NEW i \in watch.from..Len(thread'), thread'[i].id \in watch.seen
        PROVE  i \in watch.shown \/ Thread!Twin(i)' \/ (i = 1 /\ watch.from = 1)
    <3>1. i \in Place' /\ watch.from \in Nat
      BY <1>1, <2>1 DEF ThreadInv, WatchInv, Place
    <3>2. CASE i \in Place
      <4>1. i \in watch.from..Len(thread)
        BY <1>1, <2>1, <3>1, <3>2 DEF Place
      <4> QED
        BY <1>1, <1>2, <2>1, <3>2, <4>1 DEF ThreadInv, WatchInv, Thread!WatchShows
    <3>3. CASE i \notin Place
      <4>1. PICK j \in Place : thread[j].id = thread'[i].id
        BY <1>1, <2>1 DEF ThreadInv, WatchInv, Thread!Ids
      <4>2. j # i /\ j \in DOMAIN thread' /\ thread'[j].id = thread'[i].id
        BY <1>1, <3>3, <4>1
      <4> QED
        BY <4>2 DEF Thread!Twin
    <3> QED
      BY <3>2, <3>3
  <2>2. Thread!WatchShows'
    BY <2>1 DEF Thread!WatchShows
  <2> QED
    BY <1>3, <2>2 DEF ThreadInv, WatchInv
<1>5. InboxInv'
  <2>1. inbox.last \in Nat /\ inbox.last <= Len(thread) /\ inbox.shown \subseteq Place
    BY <1>1 DEF ThreadInv, InboxInv, Place
  <2>2. inbox.lastId # 0 => inbox.last \in Place
    BY <2>1 DEF ThreadInv, InboxInv
  <2>3. Thread!InboxShows'
    <3>1. \A i \in Place' : i <= inbox.last => i \in Place
      BY <1>1, <2>1
    <3> QED
      BY <1>1, <1>2, <2>1, <3>1 DEF ThreadInv, InboxInv, Thread!InboxShows
  <2> QED
    BY <1>1, <2>1, <2>2, <2>3 DEF ThreadInv, InboxInv
<1> QED
  BY <1>4, <1>5

LEMMA ThreadFacts ==
    ASSUME ThreadInv
    PROVE  /\ Len(thread) \in Nat /\ DOMAIN thread = Place /\ thread \in Seq(Message)
           /\ \A i \in Place : /\ thread[i] \in Message /\ i \in Nat /\ i <= Len(thread) /\ i # 0
                               /\ thread[i].id \in Nat \ {0}
  BY DEF ThreadInv, PostInv, ThreadTypes, Place

LEMMA ThreadWatchStart == ASSUME ThreadInv, Thread!WatchStart PROVE WatchInv'
<1>1. /\ watch' = [from |-> Len(thread) + 1, seen |-> Thread!Ids, shown |-> {},
                   lastId |-> IF thread = <<>> THEN 0 ELSE thread[Len(thread)].id]
      /\ UNCHANGED thread
  BY DEF Thread!WatchStart
<1>2. CASE thread = <<>>
  BY <1>1, <1>2, ThreadFacts DEF WatchInv, Thread!WatchShows, Thread!Ids, Place
<1>3. CASE thread # <<>>
  <2>1. Len(thread) \in Place
    BY <1>3, ThreadFacts DEF Place
  <2>2. PICK n \in Nat \ {0} : n = thread[Len(thread)].id
    BY <2>1, ThreadFacts
  <2>3. Thread!Ids \in SUBSET Nat
    BY ThreadFacts DEF Thread!Ids
  <2>4. watch' = [from |-> Len(thread) + 1, seen |-> Thread!Ids, shown |-> {}, lastId |-> n]
    BY <1>1, <1>3, <2>2
  <2> HIDE DEF Thread!Ids
  <2>5. Thread!Ids' = Thread!Ids
    BY <1>1 DEF Thread!Ids
  <2>6. watch'.from = Len(thread) + 1 /\ watch'.seen = Thread!Ids /\ watch'.lastId = n
    BY <2>4
  <2>7. Thread!WatchShows'
    BY <1>1, <2>6, ThreadFacts DEF Thread!WatchShows
  <2>8. watch' \in [from : Nat, seen : SUBSET Nat, lastId : Nat, shown : SUBSET Nat]
    BY <2>3, <2>4, ThreadFacts
  <2> QED
    BY <2>5, <2>6, <2>7, <2>8 DEF WatchInv
<1> QED
  BY <1>2, <1>3

LEMMA ThreadWatchTick == ASSUME ThreadInv, Thread!WatchTick PROVE WatchInv'
<1> DEFINE new == {i \in DOMAIN thread : /\ thread[i].id \notin watch.seen
                                         /\ \A j \in 1..(i - 1) : thread[j].id # thread[i].id}
           printed == {i \in new : watch.lastId # 0 \/ \E j \in new : j < i}
           last == IF new = {} THEN watch.lastId ELSE thread[Max(new)].id
<1>0. /\ watch.from # 0 /\ UNCHANGED thread /\ watch.from \in Nat /\ watch.seen \in SUBSET Nat
      /\ watch.lastId \in Nat /\ watch.shown \in SUBSET Nat
  BY DEF Thread!WatchTick, ThreadInv, WatchInv
<1>1. watch' = [watch EXCEPT !.seen = @ \cup Thread!Ids, !.lastId = last,
                              !.shown = @ \cup printed]
  BY ThreadMax DEF Thread!WatchTick
<1>2. new \subseteq Place /\ printed \subseteq new
  BY ThreadFacts
<1>3. \A i \in Place : thread[i].id \in watch.seen \/ i \in new
                       \/ \E j \in Place : j < i /\ thread[j].id = thread[i].id
  BY ThreadFacts DEF Place
<1>4. last \in Nat /\ (new # {} => last # 0)
  <2> SUFFICES ASSUME new # {} PROVE last \in Nat \ {0}
    BY <1>0
  <2> HIDE DEF new
  <2>1. new \in SUBSET (0..Len(thread))
    BY <1>2 DEF Place
  <2>2. Max(new) \in new
    BY <2>1, ThreadFacts, MaxOfPart
  <2> QED
    BY <1>2, <2>2, ThreadFacts
<1>5. \A i \in new : i \in printed \/ (watch.lastId = 0 /\ \A j \in new : j >= i)
  BY <1>2, ThreadFacts
<1>6. watch.lastId = 0 /\ 1 \in Place => 1 \in new
  BY <1>0, ThreadFacts DEF ThreadInv, WatchInv
<1> HIDE DEF new, printed, last
<1>7. /\ watch'.from = watch.from /\ watch'.seen = watch.seen \cup Thread!Ids
      /\ watch'.lastId = last /\ watch'.shown = watch.shown \cup printed
  BY <1>1 DEF ThreadInv, WatchInv
<1>8. watch' \in [from : Nat, seen : SUBSET Nat, lastId : Nat, shown : SUBSET Nat]
  <2>1. Thread!Ids \in SUBSET Nat
    BY ThreadFacts DEF Thread!Ids
  <2>2. printed \in SUBSET Nat
    BY <1>2, ThreadFacts
  <2> QED
    BY <1>0, <1>1, <1>4, <2>1, <2>2 DEF ThreadInv, WatchInv
<1>9. Thread!WatchShows'
  <2> SUFFICES ASSUME NEW i \in watch.from..Len(thread)
               PROVE  i \in watch'.shown \/ Thread!Twin(i) \/ (i = 1 /\ watch.from = 1)
    BY <1>0, <1>7 DEF Thread!WatchShows, Thread!Twin
  <2>1. i \in Place
    BY <1>0, ThreadFacts DEF Place
  <2>2. CASE thread[i].id \in watch.seen
    BY <1>0, <1>7, <2>2 DEF ThreadInv, WatchInv, Thread!WatchShows
  <2>3. CASE \E j \in Place : j < i /\ thread[j].id = thread[i].id
    BY <2>1, <2>3, ThreadFacts DEF Thread!Twin
  <2>4. CASE i \in new
    <3>1. CASE i \in printed
      BY <1>7, <3>1
    <3>2. CASE i \notin printed
      <4>1. watch.lastId = 0 /\ \A j \in new : j >= i
        BY <1>5, <2>4, <3>2
      <4>2. 1 \in new /\ watch.from = 1
        BY <1>0, <1>6, <2>1, <4>1, ThreadFacts DEF ThreadInv, WatchInv, Place
      <4> QED
        BY <2>1, <4>1, <4>2, ThreadFacts
    <3> QED
      BY <3>1, <3>2
  <2> QED
    BY <1>3, <2>1, <2>2, <2>3, <2>4
<1>10. watch'.lastId = 0 => watch'.from = 1 /\ watch'.seen = {}
  <2> SUFFICES ASSUME last = 0 PROVE watch.from = 1 /\ watch.seen \cup Thread!Ids = {}
    BY <1>7
  <2>1. new = {} /\ watch.lastId = 0
    BY <1>4 DEF last
  <2>2. Place = {}
    BY <1>6, <2>1, ThreadFacts DEF Place
  <2>3. Thread!Ids = {}
    BY <2>2, ThreadFacts DEF Thread!Ids
  <2> QED
    BY <1>0, <2>1, <2>3 DEF ThreadInv, WatchInv
<1>11. watch'.seen \subseteq Thread!Ids'
  BY <1>0, <1>7 DEF ThreadInv, WatchInv, Thread!Ids
<1> QED
  BY <1>8, <1>9, <1>10, <1>11 DEF WatchInv

LEMMA ThreadInboxTick == ASSUME ThreadInv, Thread!InboxTick PROVE InboxInv'
<1> DEFINE says == Thread!HostSays(inbox.lastId)
           m == Max(says)
<1>0. /\ inbox.lastId \in Nat /\ inbox.last \in Nat /\ inbox.shown \in SUBSET Nat
      /\ inbox.repeated \in SUBSET Nat /\ inbox.last <= Len(thread)
      /\ inbox.shown \subseteq 1..inbox.last /\ UNCHANGED thread
  BY DEF ThreadInv, InboxInv, Thread!InboxTick
<1>1. /\ says # {}
      /\ inbox' = [lastId |-> thread[m].id, last |-> m, shown |-> inbox.shown \cup says,
                   repeated |-> inbox.repeated \cup (inbox.shown \cap says)]
  BY ThreadMax DEF Thread!InboxTick
<1>2. /\ says \subseteq Place /\ \A i \in says : thread[i].kind = "say"
      /\ \A i \in Place : thread[i].kind = "say" =>
           (i \in says <=> (inbox.lastId \in Thread!Ids => \E j \in 1..(i - 1) : thread[j].id = inbox.lastId))
  BY ThreadFacts DEF Thread!HostSays
<1> HIDE DEF says
<1>3. m \in says /\ \A i \in says : i <= m
  <2>1. says \in SUBSET (0..Len(thread))
    BY <1>2 DEF Place
  <2> QED
    BY <1>1, <2>1, ThreadFacts, MaxOfPart
<1>4. m \in Place /\ m \in Nat /\ m <= Len(thread) /\ thread[m].kind = "say" /\ thread[m].id \in Nat \ {0}
  BY <1>2, <1>3, ThreadFacts
<1> HIDE DEF m
<1>5. CASE inbox.lastId = 0
  <2>1. inbox.last = 0 /\ inbox.shown = {}
    BY <1>0, <1>5 DEF ThreadInv, InboxInv
  <2>2. inbox.lastId \notin Thread!Ids
    BY <1>5, ThreadFacts DEF Thread!Ids
  <2>3. \A i \in Place : thread[i].kind = "say" => i \in says
    BY <1>2, <2>2
  <2>4. inbox.repeated = {} \/ \E i \in inbox.shown : Thread!Twin(i)
    BY DEF ThreadInv, InboxInv, Thread!InboxShows
  <2>5. /\ inbox'.last = m /\ inbox'.shown = says /\ inbox'.lastId = thread[m].id
        /\ inbox'.repeated = {}
    BY <1>1, <2>1, <2>4
  <2>6. Thread!InboxShows'
    BY <1>0, <2>3, <2>5, ThreadFacts DEF Thread!InboxShows
  <2>7. \A i \in says : i \in Nat /\ i \in 1..m
    BY <1>2, <1>3, <1>4, ThreadFacts
  <2>8. inbox' \in [lastId : Nat, last : Nat, shown : SUBSET Nat, repeated : SUBSET Nat]
    BY <1>0, <1>1, <1>4, <2>7
  <2> QED
    BY <1>0, <1>3, <1>4, <2>5, <2>6, <2>7, <2>8 DEF InboxInv
<1>6. CASE inbox.lastId # 0
  <2>1. /\ inbox.last \in inbox.shown /\ inbox.last \in Place /\ thread[inbox.last].id = inbox.lastId
        /\ thread[inbox.last].kind = "say"
    BY <1>0, <1>6, ThreadFacts DEF ThreadInv, InboxInv, Place
  <2>2. inbox.lastId \in Thread!Ids
    BY <2>1, ThreadFacts DEF Thread!Ids
  <2>3. \A i \in Place : thread[i].kind = "say" /\ i > inbox.last => i \in says
    BY <1>0, <1>2, <2>1, ThreadFacts DEF Place
  <2>4. inbox.last <= m /\ (inbox.shown \cap says # {} => Thread!Twin(inbox.last))
    <3>1. CASE \E j \in Place : j < inbox.last /\ thread[j].id = inbox.lastId
      <4>1. Thread!Twin(inbox.last)
        BY <1>0, <2>1, <3>1, ThreadFacts DEF Thread!Twin
      <4>2. inbox.last \in says
        BY <1>0, <1>2, <2>1, <3>1, ThreadFacts DEF Place
      <4> QED
        BY <1>3, <4>1, <4>2
    <3>2. CASE ~\E j \in Place : j < inbox.last /\ thread[j].id = inbox.lastId
      <4>1. \A i \in says : i > inbox.last
        <5> SUFFICES ASSUME NEW i \in says PROVE i > inbox.last
          OBVIOUS
        <5>1. i \in Place /\ thread[i].kind = "say"
          BY <1>2
        <5>2. PICK j \in 1..(i - 1) : thread[j].id = inbox.lastId
          BY <1>2, <2>2, <5>1
        <5>3. j \in Place /\ j < i /\ j \in Nat /\ i \in Nat
          BY <5>1, ThreadFacts DEF Place
        <5> QED
          BY <1>0, <3>2, <5>2, <5>3
      <4>2. m > inbox.last
        BY <1>3, <4>1
      <4>3. inbox.shown \cap says = {}
        BY <1>0, <4>1
      <4> QED
        BY <1>0, <1>4, <4>2, <4>3
    <3> QED
      BY <3>1, <3>2
  <2>5. /\ inbox'.last = m /\ inbox'.shown = inbox.shown \cup says /\ inbox'.lastId = thread[m].id
        /\ inbox'.repeated = inbox.repeated \cup (inbox.shown \cap says)
    BY <1>1
  <2>6. \A i \in says : i \in Nat /\ i \in 1..m
    BY <1>2, <1>3, <1>4, ThreadFacts
  <2>7. \A i \in inbox.shown : i \in 1..m
    BY <1>0, <1>4, <2>4
  <2>8. \A i \in Place : thread[i].kind = "say" /\ i <= m => i \in inbox'.shown
    <3> SUFFICES ASSUME NEW i \in Place, thread[i].kind = "say" PROVE i \in inbox'.shown
      OBVIOUS
    <3>1. i > inbox.last \/ i <= inbox.last
      BY <1>0, ThreadFacts
    <3>2. CASE i <= inbox.last
      BY <2>5, <3>2, ThreadFacts DEF ThreadInv, InboxInv, Thread!InboxShows
    <3> QED
      BY <2>3, <2>5, <3>1, <3>2
  <2>9. inbox'.repeated = {} \/ \E i \in inbox'.shown : Thread!Twin(i)
    <3>1. inbox.repeated = {} \/ \E i \in inbox.shown : Thread!Twin(i)
      BY DEF ThreadInv, InboxInv, Thread!InboxShows
    <3> QED
      BY <2>1, <2>4, <2>5, <3>1
  <2>10. Thread!InboxShows'
    BY <1>0, <2>5, <2>8, <2>9, ThreadFacts DEF Thread!InboxShows, Thread!Twin
  <2>11. inbox' \in [lastId : Nat, last : Nat, shown : SUBSET Nat, repeated : SUBSET Nat]
    BY <1>0, <1>1, <1>4, <2>6
  <2> QED
    BY <1>0, <1>3, <1>4, <2>5, <2>6, <2>7, <2>10, <2>11 DEF InboxInv
<1> QED
  BY <1>5, <1>6

\* An entry as a command makes it.
LEMMA EntryIs ==
    ASSUME NEW kind \in Thread!Kinds, NEW r \in Nat, NEW by \in Thread!Procs \cup {Thread!Nobody},
           NEW to \in Thread!Procs \cup {Thread!Nobody}
    PROVE  \E e \in Message : /\ e = Thread!Entry(kind, r, by, to)
                              /\ e.kind = kind /\ e.replyTo = r /\ e.by = by /\ e.to = to
<1> DEFINE e == [id |-> 0, kind |-> kind, replyTo |-> r, by |-> by, to |-> to]
<1>1. e = Thread!Entry(kind, r, by, to)
  BY DEF Thread!Entry
<1>2. e \in Message
  BY DEF Message
<1>3. e.kind = kind /\ e.replyTo = r /\ e.by = by /\ e.to = to
  OBVIOUS
<1> HIDE DEF e
<1> QED
  BY <1>1, <1>2, <1>3

\* A command makes its entry, or an asker is done waiting.
LEMMA ThreadCommand ==
    ASSUME ThreadInv,
           \/ \E a \in Askers : Thread!Ask(a) \/ Thread!Receive(a) \/ Thread!Timeout(a)
           \/ \E h \in Hosts : Thread!Answer(h) \/ Thread!Say(h)
    PROVE  PostInv' /\ UNCHANGED <<thread, watch, inbox>>
<1> USE ThreadAssumption
<1>0. PostInv /\ \A a \in Askers : a \in Thread!Procs /\ AskerOf(a) /\ DraftOf(a)
  BY DEF ThreadInv, PostInv, Thread!Procs
<1>k. Thread!Kinds = {"question", "answer", "say"} /\ 0 \in Nat
  BY DEF Thread!Kinds
<1>1. ASSUME NEW a \in Askers, Thread!Ask(a) PROVE PostInv' /\ UNCHANGED <<thread, watch, inbox>>
  <2>1. PICK e \in Message : /\ e = Thread!Entry("question", 0, a, Thread!Nobody)
                             /\ e.kind = "question" /\ e.by = a
    BY <1>0, <1>k, EntryIs
  <2>2. Thread!Compose(a, e) /\ pc[a] = "idle"
    BY <1>1, <2>1 DEF Thread!Ask
  <2>3. PostInv'
    BY <1>0, <2>1, <2>2, PostCompose DEF AskerOf, DraftOf
  <2> QED
    BY <2>2, <2>3 DEF Thread!Compose
<1>2. ASSUME NEW a \in Askers, Thread!Receive(a) PROVE PostInv' /\ UNCHANGED <<thread, watch, inbox>>
  <2>1. /\ pc[a] = "waiting" /\ Thread!Answers(qid[a]) # {}
        /\ result' = [result EXCEPT ![a] = CHOOSE i \in Thread!Answers(qid[a]) :
                                             \A n \in Thread!Answers(qid[a]) : i <= n]
        /\ pc' = [pc EXCEPT ![a] = "answered"]
        /\ UNCHANGED <<thread, draft, taken, late, unheard, qid, watch, inbox>>
    BY <1>2 DEF Thread!Receive
  <2>2. Thread!Answers(qid[a]) \subseteq Place
        /\ \A i \in Thread!Answers(qid[a]) : Thread!IsAnswerTo(thread[i], qid[a])
    BY ThreadFacts DEF Thread!Answers
  <2>3. PICK i \in Thread!Answers(qid[a]) : result' = [result EXCEPT ![a] = i]
    <3>1. Thread!Answers(qid[a]) \in SUBSET Nat
      BY <2>2, ThreadFacts
    <3>2. \E i \in Thread!Answers(qid[a]) : \A n \in Thread!Answers(qid[a]) : i <= n
      BY <2>1, <3>1, LeastNatural
    <3> QED
      BY <2>1, <3>2
  <2>4. i \in Place /\ i \in Nat /\ Thread!IsAnswerTo(thread[i], qid[a])
    BY <2>2, ThreadFacts
  <2>5. ThreadTypes'
    BY <1>0, <2>1, <2>3, <2>4 DEF PostInv, ThreadTypes
  <2>6. ThreadEntries' /\ LateEntries' /\ Thread!AskedOnce'
    BY <1>0, <2>1, EntriesStay
  <2>7. \A p \in Thread!Procs : DraftOf(p)'
    BY <1>0, <2>1 DEF PostInv, ThreadTypes, DraftOf, IsMeant, Place, Thread!Unheard
  <2>8. ASSUME NEW b \in Askers PROVE AskerOf(b)'
    <3>1. CASE b = a
      <4>1. AskerOf(a) /\ pc'[a] = "answered" /\ result'[a] = i /\ qid'[a] = qid[a] /\ thread' = thread
        BY <1>0, <2>1, <2>3 DEF PostInv, ThreadTypes
      <4>2. qid[a] # 0 /\ Asked(a) /\ Asked(a)'
        BY <2>1, <4>1 DEF AskerOf, Asked, Place
      <4> QED
        BY <2>4, <3>1, <4>1, <4>2 DEF AskerOf, Place, Thread!IsAnswerTo
    <3>2. CASE b # a
      BY <1>0, <2>1, <2>3, <3>2
         DEF PostInv, ThreadTypes, AskerOf, Asked, AnsweredFor, Place, Thread!IsAnswerTo
    <3> QED
      BY <3>1, <3>2
  <2> QED
    BY <2>1, <2>5, <2>6, <2>7, <2>8 DEF PostInv
<1>3. ASSUME NEW a \in Askers, Thread!Timeout(a) PROVE PostInv' /\ UNCHANGED <<thread, watch, inbox>>
  <2>0. pc[a] = "waiting" /\ qid[a] # 0 /\ qid[a] \in Nat /\ Asked(a) /\ result[a] = 0 /\ taken[a] = 0
    BY <1>0, <1>3 DEF Thread!Timeout, AskerOf, DraftOf, PostInv, ThreadTypes
  <2>1. CASE a \in Defaulting
    <3>1. PICK e \in Message : /\ e = Thread!Entry("answer", qid[a], a, a)
                               /\ e.kind = "answer" /\ e.by = a /\ e.to = a /\ e.replyTo = qid[a]
      BY <1>0, <1>k, <2>0, EntryIs
    <3>2. Thread!Compose(a, e) /\ IsMeant(e)
      BY <1>3, <2>0, <2>1, <3>1 DEF Thread!Timeout, Asked, IsMeant
    <3>3. PostInv'
      BY <1>0, <2>0, <3>1, <3>2, PostCompose
    <3> QED
      BY <3>2, <3>3 DEF Thread!Compose
  <2>2. CASE a \notin Defaulting
    <3>1. /\ pc' = [pc EXCEPT ![a] = "timeout"]
          /\ UNCHANGED <<thread, draft, taken, late, unheard, qid, result, watch, inbox>>
      BY <1>3, <2>2 DEF Thread!Timeout
    <3>2. ThreadTypes'
      BY <1>0, <3>1 DEF PostInv, ThreadTypes
    <3>3. ThreadEntries' /\ LateEntries' /\ Thread!AskedOnce'
      BY <1>0, <3>1, EntriesStay
    <3>4. \A p \in Thread!Procs : DraftOf(p)'
      BY <1>0, <2>0, <3>1 DEF PostInv, ThreadTypes, DraftOf, IsMeant, Place, Thread!Unheard
    <3>5. \A b \in Askers : AskerOf(b)'
      BY <1>0, <2>0, <3>1 DEF PostInv, ThreadTypes, AskerOf, Asked, AnsweredFor, Place, Thread!IsAnswerTo
    <3> QED
      BY <3>1, <3>2, <3>3, <3>4, <3>5 DEF PostInv
  <2> QED
    BY <2>1, <2>2
<1>4. ASSUME NEW h \in Hosts PROVE h \in Thread!Procs /\ h \notin Askers /\ DraftOf(h)
  BY <1>0 DEF Thread!Procs, PostInv
<1>5. ASSUME NEW h \in Hosts, Thread!Answer(h) PROVE PostInv' /\ UNCHANGED <<thread, watch, inbox>>
  <2>1. PICK i \in Place : /\ thread[i].kind = "question"
                           /\ Thread!Compose(h, Thread!Entry("answer", thread[i].id, h, thread[i].by))
    BY <1>5, ThreadFacts DEF Thread!Answer
  <2>2. PICK e \in Message : /\ e = Thread!Entry("answer", thread[i].id, h, thread[i].by)
                             /\ e.kind = "answer" /\ e.by = h
                             /\ e.replyTo = thread[i].id /\ e.to = thread[i].by
    <3>1. thread[i].id \in Nat /\ thread[i].by \in Thread!Procs \cup {Thread!Nobody}
      BY ThreadFacts DEF Message
    <3> QED
      BY <1>4, <1>k, <3>1, EntryIs
  <2>3. Thread!Compose(h, e) /\ IsMeant(e) /\ pc[h] = "idle"
    BY <1>5, <2>1, <2>2 DEF IsMeant, Thread!Answer
  <2>4. PostInv'
    BY <1>0, <1>4, <2>2, <2>3, PostCompose DEF DraftOf
  <2> QED
    BY <2>3, <2>4 DEF Thread!Compose
<1>6. ASSUME NEW h \in Hosts, Thread!Say(h) PROVE PostInv' /\ UNCHANGED <<thread, watch, inbox>>
  <2>1. PICK e \in Message : /\ e = Thread!Entry("say", 0, h, Thread!Nobody)
                             /\ e.kind = "say" /\ e.by = h
    BY <1>4, <1>k, EntryIs
  <2>2. Thread!Compose(h, e) /\ pc[h] = "idle"
    BY <1>6, <2>1 DEF Thread!Say
  <2>3. PostInv'
    BY <1>0, <1>4, <2>1, <2>2, PostCompose DEF DraftOf
  <2> QED
    BY <2>2, <2>3 DEF Thread!Compose
<1> QED
  BY <1>1, <1>2, <1>3, <1>5, <1>6

\* A post, with the lock of a shared writer or without.
LEMMA ThreadPost ==
    ASSUME ThreadInv, NEW p \in Thread!Procs,
           Thread!PostShared(p) \/ Thread!TakeId(p) \/ Thread!AppendDiscuss(p)
    PROVE  PostInv' /\ Grown /\ UNCHANGED <<watch, inbox>>
<1>0. PostInv /\ ThreadTypes /\ DraftOf(p)
  BY DEF ThreadInv, PostInv
<1>1. ASSUME NEW id \in 1..(Len(thread) + 1), Thread!Posted(p, id), pc[p] = "posting",
             p \in Direct \/ Thread!Unheard(draft[p]) \/ id \notin Thread!Ids
      PROVE  PostInv' /\ Grown /\ UNCHANGED <<watch, inbox>>
  <2>1. PostInv'
    BY <1>0, <1>1, PostPosted
  <2>2. id \in Nat /\ draft[p] \in Message
    BY <1>0 DEF ThreadTypes
  <2>3. PICK e \in Message : e = [draft[p] EXCEPT !.id = id] /\ e.id = id
    <3>1. PICK d \in Message : d = draft[p]
      BY <2>2
    <3>2. [d EXCEPT !.id = id] \in Message
      BY <2>2 DEF Message
    <3> QED
      BY <3>1, <3>2 DEF Message
  <2> QED
    BY <1>1, <2>1, <2>3 DEF Thread!Posted, Grown
<1>2. CASE Thread!PostShared(p)
  <2>1. PICK id \in 1..(Len(thread) + 1) : id = Thread!NextDiscussId
    BY <1>0, NextIdIsNew
  <2> QED
    BY <1>0, <1>1, <1>2, <2>1, NextIdIsNew DEF Thread!PostShared
<1>3. CASE Thread!TakeId(p)
  <2>1. PICK id \in 1..(Len(thread) + 1) : id = Thread!NextDiscussId
    BY <1>0, NextIdIsNew
  <2>2. /\ pc[p] = "posting" /\ (p \in Direct \/ Thread!Unheard(draft[p]))
        /\ taken' = [taken EXCEPT ![p] = id]
        /\ UNCHANGED <<thread, pc, draft, late, unheard, qid, result, watch, inbox>>
    BY <1>3, <2>1 DEF Thread!TakeId
  <2>3. id \in Nat /\ id <= Len(thread) + 1
    BY <1>0 DEF ThreadTypes
  <2>4. ThreadTypes'
    BY <1>0, <2>2, <2>3 DEF ThreadTypes
  <2>5. ThreadEntries' /\ LateEntries' /\ Thread!AskedOnce'
    BY <1>0, <2>2, EntriesStay
  <2>6. ASSUME NEW o \in Thread!Procs PROVE DraftOf(o)'
    <3>1. /\ DraftOf(o) /\ (o # p => taken'[o] = taken[o]) /\ pc' = pc /\ draft' = draft
          /\ UNCHANGED <<thread, unheard>>
      BY <1>0, <2>2 DEF PostInv, ThreadTypes
    <3>2. CASE o = p
      BY <2>2, <3>1, <3>2 DEF DraftOf, IsMeant, Place, Thread!Unheard
    <3>3. CASE o # p
      BY <3>1, <3>3 DEF DraftOf, IsMeant, Place, Thread!Unheard
    <3> QED
      BY <3>2, <3>3
  <2>7. \A b \in Askers : AskerOf(b)'
    BY <1>0, <2>2 DEF PostInv, AskerOf, Asked, AnsweredFor, Place, Thread!IsAnswerTo
  <2> QED
    BY <2>2, <2>4, <2>5, <2>6, <2>7 DEF PostInv, Grown
<1>4. CASE Thread!AppendDiscuss(p)
  <2>1. /\ taken[p] # 0 /\ Thread!Posted(p, taken[p]) /\ pc[p] = "posting"
        /\ p \in Direct \/ Thread!Unheard(draft[p])
    BY <1>0, <1>4 DEF Thread!AppendDiscuss, DraftOf
  <2>2. PICK id \in 1..(Len(thread) + 1) : id = taken[p]
    BY <1>0, <2>1 DEF ThreadTypes
  <2> QED
    BY <1>1, <2>1, <2>2
<1> QED
  BY <1>2, <1>3, <1>4

LEMMA ThreadInductive == ThreadInv /\ [Thread!Next]_threadVars => ThreadInv'
<1> SUFFICES ASSUME ThreadInv, [Thread!Next]_threadVars PROVE ThreadInv'
  OBVIOUS
<1>0. UNCHANGED <<thread, pc, draft, taken, late, unheard, qid, result>> => PostInv'
  BY EntriesStay DEF ThreadInv, PostInv, ThreadTypes, DraftOf, AskerOf, Asked, AnsweredFor, IsMeant,
     Place, Thread!IsAnswerTo, Thread!Unheard
<1>1. UNCHANGED <<thread, watch>> => WatchInv'
  BY DEF ThreadInv, WatchInv, Thread!WatchShows, Thread!Twin, Thread!Ids
<1>2. UNCHANGED <<thread, inbox>> => InboxInv'
  BY DEF ThreadInv, InboxInv, Thread!InboxShows, Thread!Twin
<1>3. CASE UNCHANGED threadVars
  BY <1>0, <1>1, <1>2, <1>3 DEF threadVars, ThreadInv
<1>4. CASE \E p \in Thread!Procs : Thread!PostShared(p) \/ Thread!TakeId(p) \/ Thread!AppendDiscuss(p)
  BY <1>4, ThreadPost, ReadersStay DEF ThreadInv
<1>9. CASE Thread!AppendLate \/ \E p \in Thread!Procs : Thread!RequestTimesOut(p)
  BY <1>9, PostLate, PostUnheard, ReadersStay DEF ThreadInv, Grown
<1>5. CASE \/ \E a \in Askers : Thread!Ask(a) \/ Thread!Receive(a) \/ Thread!Timeout(a)
           \/ \E h \in Hosts : Thread!Answer(h) \/ Thread!Say(h)
  BY <1>1, <1>2, <1>5, ThreadCommand DEF ThreadInv
<1>6. CASE Thread!WatchStart
  BY <1>0, <1>2, <1>6, ThreadWatchStart DEF ThreadInv, Thread!WatchStart
<1>7. CASE Thread!WatchTick
  BY <1>0, <1>2, <1>7, ThreadWatchTick DEF ThreadInv, Thread!WatchTick
<1>8. CASE Thread!InboxTick
  BY <1>0, <1>1, <1>8, ThreadInboxTick DEF ThreadInv, Thread!InboxTick
<1> QED
  BY <1>3, <1>4, <1>5, <1>6, <1>7, <1>8, <1>9 DEF Thread!Next

LEMMA ThreadInitially == Thread!Init => ThreadInv
<1> SUFFICES ASSUME Thread!Init PROVE ThreadInv
  OBVIOUS
<1>1. thread = <<>> /\ thread \in Seq(Message) /\ Place = {} /\ Len(thread) = 0 /\ DOMAIN thread = {}
  BY DEF Thread!Init, Place
<1>2. Thread!NoDraft \in Message
  BY DEF Thread!NoDraft, Thread!Entry, Message, Thread!Kinds
<1>3. ThreadTypes
  BY <1>1, <1>2 DEF Thread!Init, ThreadTypes, Place
<1>4. PostInv
  <2>1. \A p \in Thread!Procs : DraftOf(p)
    BY DEF Thread!Init, DraftOf
  <2>2. \A a \in Askers : AskerOf(a)
    BY DEF Thread!Init, AskerOf, Thread!Procs
  <2> QED
    BY <1>1, <1>3, <2>1, <2>2 DEF PostInv, ThreadEntries, LateEntries, Thread!AskedOnce, Thread!Init
<1>5. WatchInv
  BY <1>1 DEF Thread!Init, WatchInv, Thread!WatchShows
<1>6. InboxInv
  BY <1>1 DEF Thread!Init, InboxInv, Thread!InboxShows
<1> QED
  BY <1>4, <1>5, <1>6 DEF ThreadInv

LEMMA ThreadShows == ThreadInv => Thread!ConfusionNeedsTwins
<1> SUFFICES ASSUME ThreadInv PROVE Thread!ConfusionNeedsTwins
  OBVIOUS
<1>0. PostInv /\ DOMAIN thread = Place /\ ThreadEntries /\ \A a \in Askers : AskerOf(a)
  BY ThreadFacts DEF ThreadInv, PostInv
<1>1. Thread!TwinsAreDirect
  <2> SUFFICES ASSUME NEW i \in Place, NEW j \in Place, j # i, thread[j].id = thread[i].id
               PROVE  \E n \in Place : /\ thread[n].id = thread[i].id
                                       /\ thread[n].by \in Direct \/ Thread!Unheard(thread[n])
    BY <1>0 DEF Thread!TwinsAreDirect, Thread!Twin
  <2>1. i < j \/ j < i
    BY ThreadFacts
  <2> QED
    BY <1>0, <2>1 DEF ThreadEntries
<1>5. ASSUME NEW a \in Askers, NEW i \in Place, thread[i].kind = "answer", thread[i].to = a
      PROVE  thread[i].replyTo = qid[a] \/ <<a, "question">> \in unheard
  <2>1. PICK j \in Place : /\ thread[j].kind = "question" /\ thread[j].id = thread[i].replyTo
                           /\ thread[j].by = a
    BY <1>0, <1>5 DEF ThreadEntries, IsMeant
  <2> QED
    BY <1>0, <2>1 DEF ThreadEntries, Thread!Unheard
<1>2. Thread!AnswerIsMine
  <2> SUFFICES ASSUME NEW a \in Askers, result[a] # 0
               PROVE  \/ thread[result[a]].to = a
                      \/ \E i \in Place : thread[i].id = qid[a] /\ Thread!Twin(i)
    BY <1>0, <1>5 DEF Thread!AnswerIsMine
  <2>1. /\ result[a] \in Place /\ thread[result[a]].kind = "answer"
        /\ thread[result[a]].replyTo = qid[a] /\ qid[a] # 0 /\ Asked(a)
    BY <1>0 DEF AskerOf, Thread!IsAnswerTo
  <2>2. PICK i \in Place : thread[i].kind = "question" /\ thread[i].id = qid[a] /\ thread[i].by = a
    BY <2>1 DEF Asked
  <2>3. PICK j \in Place : thread[j].id = qid[a] /\ thread[j].by = thread[result[a]].to
    BY <1>0, <2>1 DEF ThreadEntries, IsMeant
  <2> QED
    BY <1>0, <2>2, <2>3 DEF Thread!Twin
<1>3. Thread!DefaultSettles
  <2> SUFFICES ASSUME NEW a \in Askers, pc[a] = "defaulted",
                      NEW i \in Thread!UnansweredQuestions, thread[i].by = a,
                      ~Thread!Unheard(thread[i])
               PROVE  FALSE
    BY DEF Thread!DefaultSettles
  <2>1. i \in Place /\ thread[i].id = qid[a] /\ Thread!Answers(thread[i].id) = {}
    BY <1>0 DEF Thread!UnansweredQuestions, ThreadEntries
  <2>2. AnsweredFor(a)
    BY <1>0 DEF AskerOf
  <2> QED
    BY <1>0, <2>1, <2>2 DEF AnsweredFor, Thread!Answers, Thread!IsAnswerTo
<1>4. Thread!WatchShows /\ Thread!InboxShows /\ Thread!AskedOnce
  BY DEF ThreadInv, PostInv, WatchInv, InboxInv
<1> QED
  BY <1>1, <1>2, <1>3, <1>4 DEF Thread!ConfusionNeedsTwins

-----------------------------------------------------------------------------
(* The feedback file *)

\* The limits are naturals.
LEMMA FeedbackConstants ==
    /\ MaxEntries \in Nat /\ MaxBytes \in Nat /\ MaxLogItems \in Nat /\ FeedbackTtl \in Nat
    /\ MaxFeedback \in Nat /\ MaxDay \in Nat /\ TextSizes \subseteq Nat
  BY FeedbackAssumption

\* The component filters as we do.
LEMMA FeedbackOnly == \A s, T : Feedback!Only(s, T) = Only(s, T)
  BY DEF Feedback!Only, Feedback!FoldLeft, Feedback!MapThenFoldSet, Feedback!Max,
         Only, FoldLeft, MapThenFoldSet, Max
LEMMA FeedbackMax == \A S : Feedback!Max(S) = Max(S)
  BY DEF Feedback!Max, Max

\* A fold over the first n numbers, largest last, is defined, and goes step by step.
Folds(f, n, b, H) ==
  f = [S \in SUBSET (1..n) |-> IF S = {} THEN b ELSE H[<<f[S \ {Max(S)}], Max(S)>>]]

LEMMA FoldExists ==
  ASSUME NEW n \in Nat, NEW D, NEW b \in D, NEW H \in [D \X (1..n) -> D]
  PROVE  \E f \in [SUBSET (1..n) -> D] : Folds(f, n, b, H)
<1> DEFINE Has(l) == \E f \in [SUBSET (1..l) -> D] : Folds(f, l, b, H)
           Good == {l \in Nat : l <= n => Has(l)}
<1>1. Has(0)
  <2> DEFINE f == [S \in {{}} |-> b]
  <2>1. SUBSET (1..0) = {{}}
    OBVIOUS
  <2>2. f \in [SUBSET (1..0) -> D] /\ Folds(f, 0, b, H)
    BY <2>1 DEF Folds
  <2> QED
    BY <2>2
<1>2. ASSUME NEW l \in Nat, l + 1 <= n, Has(l) PROVE Has(l + 1)
  <2>2. PICK f \in [SUBSET (1..l) -> D] : Folds(f, l, b, H)
    BY <1>2
  <2> DEFINE h == [S \in SUBSET (1..(l + 1)) |->
                     IF l + 1 \in S THEN H[<<f[S \ {l + 1}], l + 1>>] ELSE f[S]]
  <2>3. ASSUME NEW S \in SUBSET (1..(l + 1))
        PROVE  h[S] \in D
    <3>1. l + 1 \in 1..n
      BY <1>2
    <3>2. S \ {l + 1} \in SUBSET (1..l)
      OBVIOUS
    <3>3. f[S \ {l + 1}] \in D
      BY <2>2, <3>2
    <3>4. l + 1 \notin S => S \in SUBSET (1..l)
      OBVIOUS
    <3> QED
      BY <2>2, <3>1, <3>3, <3>4
  <2>4. ASSUME NEW S \in SUBSET (1..(l + 1))
        PROVE  h[S] = IF S = {} THEN b ELSE H[<<h[S \ {Max(S)}], Max(S)>>]
    <3>1. CASE l + 1 \in S
      <4>1. Max(S) \in S /\ \A y \in S : y <= Max(S)
        <5>1. l + 1 \in Nat /\ S \in SUBSET (0..(l + 1)) /\ S # {}
          BY <3>1
        <5> QED
          BY <5>1, MaxOfPart
      <4>2. Max(S) = l + 1
        <5>1. l + 1 <= Max(S) /\ Max(S) \in 1..(l + 1)
          BY <3>1, <4>1
        <5> QED
          BY <5>1
      <4>3. S \ {l + 1} \in SUBSET (1..(l + 1)) /\ l + 1 \notin S \ {l + 1}
        OBVIOUS
      <4>4. h[S \ {l + 1}] = f[S \ {l + 1}]
        BY <4>3
      <4> QED
        BY <3>1, <4>2, <4>4
    <3>2. CASE l + 1 \notin S
      <4>1. S \in SUBSET (1..l) /\ h[S] = f[S]
        BY <3>2
      <4>2. f[S] = IF S = {} THEN b ELSE H[<<f[S \ {Max(S)}], Max(S)>>]
        BY <2>2, <4>1 DEF Folds
      <4>3. l + 1 \notin S \ {Max(S)} /\ S \ {Max(S)} \in SUBSET (1..(l + 1))
        BY <3>2
      <4>4. h[S \ {Max(S)}] = f[S \ {Max(S)}]
        BY <4>3
      <4> QED
        BY <4>1, <4>2, <4>4
    <3> QED
      BY <3>1, <3>2
  <2>5. h = [S \in SUBSET (1..(l + 1)) |-> h[S]]
    OBVIOUS
  <2> HIDE DEF h
  <2>6. h \in [SUBSET (1..(l + 1)) -> D] /\ Folds(h, l + 1, b, H)
    BY <2>3, <2>4, <2>5 DEF Folds
  <2> QED
    BY <2>6
<1> HIDE DEF Has
<1>3. 0 \in Good /\ \A l \in Nat : l \in Good => l + 1 \in Good
  BY <1>1, <1>2
<1>4. n \in Good
  <2> HIDE DEF Good
  <2> QED
    BY <1>3, Induction
<1>5. Has(n)
  BY <1>4
<1> QED
  BY <1>5 DEF Has

\* The size of what is kept adds up entry by entry.
Sums(g, es) ==
  /\ g \in [0..Len(es) -> Nat] /\ g[0] = 0 /\ g[Len(es)] = Feedback!JsonlByteSize(es)
  /\ \A i \in 1..Len(es) : g[i] = g[i - 1] + Feedback!Size(es[i])

LEMMA SizeType == \A e \in Feedback!Entries : Feedback!Size(e) \in Nat
<1> SUFFICES ASSUME NEW e \in Feedback!Entries PROVE Feedback!Size(e) \in Nat
  OBVIOUS
<1>1. e.text \in Nat /\ Len(e.log) \in Nat
  <2>1. e.text \in TextSizes
    BY DEF Feedback!Entries
  <2>2. PICK l \in Seq(0..MaxDay) : l = e.log
    BY DEF Feedback!Entries
  <2>3. Len(l) \in Nat
    OBVIOUS
  <2>4. e.text \in Nat
    BY <2>1, FeedbackConstants
  <2> QED
    BY <2>2, <2>3, <2>4, Zenon
<1> QED
  BY <1>1 DEF Feedback!Size

LEMMA SizeSums ==
  ASSUME NEW es \in Seq(Feedback!Entries) PROVE \E g : Sums(g, es)
<1>0. PICK n \in Nat : n = Len(es) /\ DOMAIN es = 1..n /\ \A i \in 1..n : es[i] \in Feedback!Entries
  OBVIOUS
<1> DEFINE H == [x \in Nat \X (1..n) |-> x[1] + Feedback!Size(es[x[2]])]
<1>1. H \in [Nat \X (1..n) -> Nat]
  <2>1. \A i \in 1..n : Feedback!Size(es[i]) \in Nat
    BY <1>0, SizeType
  <2> QED
    BY <2>1
<1>2. PICK h \in [SUBSET (1..n) -> Nat] : Folds(h, n, 0, H)
  <2> HIDE DEF H
  <2> QED
    BY <1>1, FoldExists
<1> DEFINE Iter(f) == f = [S \in SUBSET (1..n) |->
                             IF S = {} THEN 0 ELSE f[S \ {Max(S)}] + Feedback!Size(es[Max(S)])]
<1>3. ASSUME NEW S \in SUBSET (1..n), S # {} PROVE Max(S) \in 1..n
  <2>1. S \in SUBSET (0..n)
    OBVIOUS
  <2> QED
    BY <1>3, <2>1, MaxOfPart
<1>4. Iter(h)
  <2>1. ASSUME NEW S \in SUBSET (1..n), S # {}
        PROVE  H[<<h[S \ {Max(S)}], Max(S)>>] = h[S \ {Max(S)}] + Feedback!Size(es[Max(S)])
    <3>1. h[S \ {Max(S)}] \in Nat /\ Max(S) \in 1..n
      BY <1>2, <1>3, <2>1
    <3> QED
      BY <3>1
  <2> HIDE DEF H
  <2>2. ASSUME NEW S \in SUBSET (1..n)
        PROVE  h[S] = IF S = {} THEN 0 ELSE h[S \ {Max(S)}] + Feedback!Size(es[Max(S)])
    <3>1. h[S] = IF S = {} THEN 0 ELSE H[<<h[S \ {Max(S)}], Max(S)>>]
      BY <1>2 DEF Folds
    <3> QED
      BY <2>1, <3>1
  <2>3. h = [S \in SUBSET (1..n) |-> h[S]]
    BY <1>2
  <2> QED
    BY <2>2, <2>3, Zenon
<1> DEFINE f == CHOOSE f : Iter(f)
<1>5. Iter(f)
  BY <1>4
<1>6. Feedback!JsonlByteSize(es) = f[1..n]
  BY <1>0, FeedbackMax
     DEF Feedback!JsonlByteSize, Feedback!FoldLeft, Feedback!MapThenFoldSet
<1> HIDE DEF f
<1>7. f[1..0] = 0 /\ \A i \in 1..n : f[1..i] = f[1..(i - 1)] + Feedback!Size(es[i])
  <2>1. 1..0 = {} /\ {} \in SUBSET (1..n)
    OBVIOUS
  <2>2. f[1..0] = 0
    BY <1>5, <2>1
  <2>3. ASSUME NEW i \in 1..n PROVE f[1..i] = f[1..(i - 1)] + Feedback!Size(es[i])
    <3>1. 1..i \in SUBSET (1..n) /\ 1..i # {} /\ (1..i) \ {i} = 1..(i - 1)
      OBVIOUS
    <3>2. Max(1..i) = i
      BY MaxOfAll
    <3>3. f[1..i] = f[(1..i) \ {Max(1..i)}] + Feedback!Size(es[Max(1..i)])
      BY <1>5, <3>1
    <3> QED
      BY <3>1, <3>2, <3>3
  <2> QED
    BY <2>2, <2>3
<1> DEFINE g == [i \in 0..n |-> f[1..i]]
<1>8. g[0] = 0 /\ g[n] = f[1..n] /\ \A i \in 1..n : g[i] = g[i - 1] + Feedback!Size(es[i])
  <2>1. ASSUME NEW i \in 1..n PROVE i \in 0..n /\ i - 1 \in 0..n
    OBVIOUS
  <2> QED
    BY <1>7, <2>1
<1> HIDE DEF g
<1>9. \A i \in 0..n : g[i] \in Nat
  <2> DEFINE Good == {i \in Nat : i <= n => g[i] \in Nat}
  <2>1. 0 \in Good
    BY <1>8
  <2>2. ASSUME NEW i \in Nat, i \in Good PROVE i + 1 \in Good
    <3>1. SUFFICES ASSUME i + 1 <= n PROVE g[i + 1] \in Nat
      OBVIOUS
    <3>2. i + 1 \in 1..n /\ (i + 1) - 1 = i /\ g[i] \in Nat
      BY <1>0, <2>2, <3>1
    <3>3. Feedback!Size(es[i + 1]) \in Nat
      BY <1>0, <3>2, SizeType
    <3>4. g[i + 1] = g[i] + Feedback!Size(es[i + 1])
      BY <1>8, <3>2
    <3> QED
      BY <3>2, <3>3, <3>4
  <2> HIDE DEF Good
  <2>3. Nat \subseteq Good
    BY <2>1, <2>2, Induction
  <2> QED
    BY <2>3 DEF Good
<1>10. g = [i \in 0..n |-> g[i]]
  BY DEF g
<1> QED
  BY <1>0, <1>6, <1>8, <1>9, <1>10 DEF Sums

\* A part of the entries, some of them shorter, takes no more room.
LEMMA SizeOfPart ==
  ASSUME NEW es \in Seq(Feedback!Entries), NEW q \in Seq(Feedback!Entries),
         NEW m \in [1..Len(q) -> 1..Len(es)],
         \A j, l \in 1..Len(q) : j < l => m[j] < m[l],
         \A j \in 1..Len(q) : Feedback!Size(q[j]) <= Feedback!Size(es[m[j]])
  PROVE  Feedback!JsonlByteSize(q) <= Feedback!JsonlByteSize(es) /\ Len(q) <= Len(es)
<1>0. /\ Len(es) \in Nat /\ Len(q) \in Nat
      /\ \A i \in 1..Len(es) : Feedback!Size(es[i]) \in Nat
      /\ \A j \in 1..Len(q) : Feedback!Size(q[j]) \in Nat
  BY SizeType
<1>1. PICK g : Sums(g, es)
  BY SizeSums
<1>2. PICK h : Sums(h, q)
  BY SizeSums
<1> DEFINE Flat(z) == \A i \in 0..Len(es) : z <= Len(es) /\ i <= z => g[i] <= g[z]
           Under(j) == j \in 1..Len(q) => h[j] <= g[m[j]] /\ j <= m[j]
<1>3. \A z \in Nat : Flat(z)
  <2> DEFINE Good == {z \in Nat : Flat(z)}
  <2>1. Flat(0)
    BY <1>1 DEF Sums
  <2>2. ASSUME NEW z \in Nat, Flat(z) PROVE Flat(z + 1)
    <3>1. SUFFICES ASSUME NEW i \in 0..Len(es), z + 1 <= Len(es), i <= z + 1 PROVE g[i] <= g[z + 1]
      OBVIOUS
    <3>2. z + 1 \in 1..Len(es) /\ (z + 1) - 1 = z /\ z \in 0..Len(es)
      BY <1>0, <3>1
    <3>3. g[z + 1] = g[z] + Feedback!Size(es[z + 1])
      BY <1>1, <3>2 DEF Sums
    <3>4. g[z] \in Nat /\ g[z + 1] \in Nat /\ g[i] \in Nat /\ Feedback!Size(es[z + 1]) \in Nat
      BY <1>0, <1>1, <3>2 DEF Sums
    <3>5. CASE i = z + 1
      BY <3>4, <3>5
    <3>6. CASE i # z + 1
      <4>1. i <= z /\ z <= Len(es)
        BY <3>1, <3>2, <3>6
      <4>2. g[i] <= g[z]
        BY <2>2, <4>1
      <4> QED
        BY <3>3, <3>4, <4>2
    <3> QED
      BY <3>5, <3>6
  <2> HIDE DEF Flat
  <2>3. 0 \in Good /\ \A z \in Nat : z \in Good => z + 1 \in Good
    BY <2>1, <2>2
  <2>4. Nat \subseteq Good
    <3> HIDE DEF Good
    <3> QED
      BY <2>3, Induction
  <2> QED
    BY <2>4
<1>4. ASSUME NEW i \in 0..Len(es), NEW z \in 0..Len(es), i <= z PROVE g[i] <= g[z]
  BY <1>3, <1>4
<1>5. \A j \in Nat : Under(j)
  <2> DEFINE Good == {j \in Nat : Under(j)}
  <2>1. Under(0)
    OBVIOUS
  <2>2. ASSUME NEW j \in Nat, Under(j) PROVE Under(j + 1)
    <3>1. SUFFICES ASSUME j + 1 \in 1..Len(q) PROVE h[j + 1] <= g[m[j + 1]] /\ j + 1 <= m[j + 1]
      OBVIOUS
    <3>2. PICK z \in 1..Len(es) : z = m[j + 1]
      BY <3>1
    <3>3. PICK i \in 0..Len(es) : i < z /\ j <= i /\ h[j] <= g[i]
      <4>1. CASE j = 0
        <5>1. h[0] = 0 /\ g[0] = 0 /\ 0 \in 0..Len(es)
          BY <1>0, <1>1, <1>2 DEF Sums
        <5>2. 0 < z /\ j <= 0 /\ h[j] <= g[0]
          BY <4>1, <5>1
        <5> QED
          BY <5>1, <5>2
      <4>2. CASE j # 0
        <5>1. j \in 1..Len(q) /\ j < j + 1
          BY <1>0, <3>1, <4>2
        <5>2. m[j] \in 1..Len(es) /\ m[j] < m[j + 1] /\ h[j] <= g[m[j]] /\ j <= m[j]
          BY <2>2, <3>1, <5>1
        <5>3. m[j] \in 0..Len(es)
          BY <5>2
        <5> QED
          BY <3>2, <5>2, <5>3
      <4> QED
        BY <4>1, <4>2
    <3>4. /\ z - 1 \in 0..Len(es) /\ i <= z - 1 /\ (j + 1) - 1 = j
          /\ j \in 0..Len(q) /\ j + 1 \in 0..Len(q) /\ z \in 0..Len(es)
      BY <1>0, <3>1, <3>3
    <3>5. g[i] <= g[z - 1]
      BY <1>4, <3>4
    <3>6. g[z] = g[z - 1] + Feedback!Size(es[z]) /\ h[j + 1] = h[j] + Feedback!Size(q[j + 1])
      BY <1>1, <1>2, <3>1, <3>4 DEF Sums
    <3>7. Feedback!Size(q[j + 1]) <= Feedback!Size(es[z])
      BY <3>1, <3>2
    <3>8. /\ g[i] \in Nat /\ g[z] \in Nat /\ g[z - 1] \in Nat /\ h[j] \in Nat /\ h[j + 1] \in Nat
          /\ Feedback!Size(q[j + 1]) \in Nat /\ Feedback!Size(es[z]) \in Nat
      BY <1>0, <1>1, <1>2, <3>1, <3>4 DEF Sums
    <3>9. h[j + 1] <= g[z]
      BY <3>3, <3>5, <3>6, <3>7, <3>8
    <3>10. j + 1 <= z
      BY <3>3
    <3> QED
      BY <3>2, <3>9, <3>10
  <2> HIDE DEF Under
  <2>3. 0 \in Good /\ \A j \in Nat : j \in Good => j + 1 \in Good
    BY <2>1, <2>2
  <2>4. Nat \subseteq Good
    <3> HIDE DEF Good
    <3> QED
      BY <2>3, Induction
  <2> QED
    BY <2>4
<1>6. PICK b, a : b = h[Len(q)] /\ a = g[Len(es)]
  OBVIOUS
<1>7. CASE Len(q) = 0
  <2>1. b = 0
    BY <1>2, <1>6, <1>7 DEF Sums
  <2> QED
    BY <1>0, <1>1, <1>2, <1>6, <1>7, <2>1 DEF Sums
<1>8. CASE Len(q) # 0
  <2>1. Len(q) \in 1..Len(q) /\ m[Len(q)] \in 1..Len(es)
    BY <1>0, <1>8
  <2>2. b <= g[m[Len(q)]] /\ Len(q) <= m[Len(q)]
    BY <1>0, <1>5, <1>6, <2>1
  <2>3. PICK z \in 0..Len(es) : z = m[Len(q)]
    BY <1>0, <2>1
  <2>4. g[z] <= a /\ g[z] \in Nat
    BY <1>0, <1>1, <1>4, <1>6, <2>3 DEF Sums
  <2> QED
    BY <1>0, <1>1, <1>2, <1>6, <2>2, <2>3, <2>4 DEF Sums
<1> QED
  BY <1>7, <1>8

\* The order of eviction has a first: what goes is not protected, and of no later class than
\* anything else that is not.
LEMMA FindIs ==
  ASSUME NEW es \in Seq(Feedback!Entries), NEW p, NEW i, i = Feedback!FindEvictionIndex(es, p)
  PROVE  \/ i = 0 /\ \A z \in 1..Len(es) : es[z].id = p
         \/ /\ i \in 1..Len(es) /\ es[i].id # p
            /\ \A z \in 1..Len(es) : es[z].id # p => Feedback!Class(es[i]) <= Feedback!Class(es[z])
<1> DEFINE may == {z \in DOMAIN es : es[z].id # p}
           Before(a, b) == \/ Feedback!Class(es[a]) < Feedback!Class(es[b])
                           \/ /\ Feedback!Class(es[a]) = Feedback!Class(es[b])
                              /\ \/ es[a].created < es[b].created
                                 \/ es[a].created = es[b].created /\ a <= b
<1>0. DOMAIN es = 1..Len(es) /\ Len(es) \in Nat
  OBVIOUS
<1>1. CASE may = {}
  <2>1. i = 0
    BY <1>1 DEF Feedback!FindEvictionIndex
  <2> QED
    BY <1>0, <1>1, <2>1
<1>2. CASE may # {}
  <2>1. \A z \in may : z \in Nat /\ Feedback!Class(es[z]) \in Nat /\ es[z].created \in Nat
    <3>1. ASSUME NEW z \in may PROVE es[z].created \in Nat
      <4>1. es[z] \in Feedback!Entries
        OBVIOUS
      <4> QED
        BY <4>1, FeedbackConstants DEF Feedback!Entries
    <3> QED
      BY <1>0, <3>1 DEF Feedback!Class
  <2> DEFINE cs == {Feedback!Class(es[z]) : z \in may}
  <2>2. PICK c \in cs : \A d \in cs : c <= d
    <3>1. cs \in SUBSET Nat /\ cs # {}
      BY <1>2, <2>1
    <3> HIDE DEF cs
    <3> QED
      BY <3>1, LeastNatural
  <2> DEFINE ts == {es[z].created : z \in {l \in may : Feedback!Class(es[l]) = c}}
  <2>3. PICK t \in ts : \A u \in ts : t <= u
    <3>1. ts \in SUBSET Nat /\ ts # {}
      BY <2>1, <2>2
    <3> HIDE DEF ts
    <3> QED
      BY <3>1, LeastNatural
  <2> DEFINE ks == {l \in may : Feedback!Class(es[l]) = c /\ es[l].created = t}
  <2>4. PICK a \in ks : \A b \in ks : a <= b
    <3>1. ks \in SUBSET Nat /\ ks # {}
      BY <2>1, <2>3
    <3> HIDE DEF ks
    <3> QED
      BY <3>1, LeastNatural
  <2>5. ASSUME NEW b \in may PROVE Before(a, b)
    <3>1. a \in may /\ Feedback!Class(es[a]) = c /\ es[a].created = t
      BY <2>4
    <3>2. c <= Feedback!Class(es[b])
      BY <2>2
    <3>3. Feedback!Class(es[b]) = c => t <= es[b].created
      BY <2>3
    <3>4. Feedback!Class(es[b]) = c /\ es[b].created = t => a <= b
      BY <2>4
    <3> QED
      BY <2>1, <3>1, <3>2, <3>3, <3>4
  <2>6. a \in may
    BY <2>4
  <2>7. i = CHOOSE x \in may : \A z \in may : Before(x, z)
    BY <1>2 DEF Feedback!FindEvictionIndex
  <2> HIDE DEF may, Before
  <2>8. i \in may /\ \A z \in may : Before(i, z)
    BY <2>5, <2>6, <2>7
  <2>9. i \in 1..Len(es) /\ es[i].id # p
    BY <1>0, <2>8 DEF may
  <2>10. ASSUME NEW z \in 1..Len(es), es[z].id # p
         PROVE  Feedback!Class(es[i]) <= Feedback!Class(es[z])
    <3>1. z \in may
      BY <1>0, <2>10 DEF may
    <3> QED
      BY <2>1, <2>8, <3>1 DEF Before
  <2> QED
    BY <2>9, <2>10
<1> QED
  BY <1>1, <1>2

\* What is left when one goes.
LEMMA RemovedIs ==
  ASSUME NEW S, NEW s \in Seq(S), NEW z \in 1..Len(s), NEW r, r = Feedback!RemoveAt(s, z)
  PROVE  /\ r \in Seq(S) /\ Len(r) = Len(s) - 1
         /\ \A j \in 1..Len(r) : r[j] = IF j < z THEN s[j] ELSE s[j + 1]
<1>0. Len(s) \in Nat /\ \A j \in 1..Len(s) : s[j] \in S
  OBVIOUS
<1>1. PICK a : a = SubSeq(s, 1, z - 1)
  OBVIOUS
<1>2. PICK b : b = SubSeq(s, z + 1, Len(s))
  OBVIOUS
<1>3. a \in Seq(S) /\ Len(a) = z - 1 /\ \A j \in 1..(z - 1) : a[j] = s[j]
  BY <1>0, <1>1
<1>4. b \in Seq(S) /\ Len(b) = Len(s) - z /\ \A j \in 1..(Len(s) - z) : b[j] = s[j + z]
  BY <1>0, <1>2
<1>5. r = a \o b
  BY <1>1, <1>2 DEF Feedback!RemoveAt
<1>6. r \in Seq(S) /\ Len(r) = Len(a) + Len(b)
  BY <1>3, <1>4, <1>5, ConcatProperties
<1>7. Len(r) = Len(s) - 1
  BY <1>0, <1>3, <1>4, <1>6
<1>8. ASSUME NEW j \in 1..Len(r) PROVE r[j] = IF j < z THEN s[j] ELSE s[j + 1]
  <2>1. r[j] = IF j <= Len(a) THEN a[j] ELSE b[j - Len(a)]
    BY <1>3, <1>4, <1>5, <1>6, ConcatProperties
  <2>2. CASE j < z
    <3>1. j <= Len(a) /\ j \in 1..(z - 1)
      BY <1>3, <1>7, <2>2
    <3> QED
      BY <1>3, <2>1, <2>2, <3>1
  <2>3. CASE ~(j < z)
    <3>1. ~(j <= Len(a)) /\ j - Len(a) \in 1..(Len(s) - z) /\ (j - Len(a)) + z = j + 1
      BY <1>0, <1>3, <1>7, <2>3
    <3> QED
      BY <1>4, <2>1, <2>3, <3>1
  <2> QED
    BY <2>2, <2>3
<1> QED
  BY <1>6, <1>7, <1>8

\* No two entries share an id.
OneIdEach(es) == \A i, z \in 1..Len(es) : es[i].id = es[z].id => i = z

\* What evictions have left: entries of before; and what they took was not protected, and of no
\* later class than anything that is left and is not.
LeftOf(q, es, p) ==
  /\ q \in Seq(Feedback!Entries) /\ OneIdEach(q) /\ Len(q) <= Len(es)
  /\ \A j \in 1..Len(q) : \E i \in 1..Len(es) : q[j] = es[i]
  /\ \A i \in 1..Len(es) :
       \/ \E j \in 1..Len(q) : q[j] = es[i]
       \/ /\ es[i].id # p
          /\ \A j \in 1..Len(q) : q[j].id # p => Feedback!Class(es[i]) <= Feedback!Class(q[j])

\* One more eviction.
Evicted(q, p) ==
  IF Feedback!Fits(q) \/ Feedback!FindEvictionIndex(q, p) = 0 THEN q
  ELSE Feedback!RemoveAt(q, Feedback!FindEvictionIndex(q, p))

LEMMA EvictedType ==
  ASSUME NEW q \in Seq(Feedback!Entries), NEW p
  PROVE  /\ Evicted(q, p) \in Seq(Feedback!Entries)
         /\ \/ Evicted(q, p) = q /\ (Feedback!Fits(q) \/ Feedback!FindEvictionIndex(q, p) = 0)
            \/ Len(Evicted(q, p)) = Len(q) - 1
<1>1. PICK z : z = Feedback!FindEvictionIndex(q, p)
  OBVIOUS
<1>2. z = 0 \/ z \in 1..Len(q)
  BY <1>1, FindIs
<1>3. CASE Feedback!Fits(q) \/ z = 0
  BY <1>1, <1>3 DEF Evicted
<1>4. CASE ~Feedback!Fits(q) /\ z # 0
  <2>1. Evicted(q, p) = Feedback!RemoveAt(q, z) /\ z \in 1..Len(q)
    BY <1>1, <1>2, <1>4 DEF Evicted
  <2> QED
    BY <2>1, RemovedIs
<1> QED
  BY <1>3, <1>4

LEMMA EvictedLeaves ==
  ASSUME NEW es \in Seq(Feedback!Entries), NEW p, NEW q, LeftOf(q, es, p)
  PROVE  LeftOf(Evicted(q, p), es, p)
<1>0. q \in Seq(Feedback!Entries) /\ Len(q) \in Nat /\ Len(es) \in Nat
  BY DEF LeftOf
<1>1. PICK z : z = Feedback!FindEvictionIndex(q, p)
  OBVIOUS
<1>2. CASE Feedback!Fits(q) \/ z = 0
  <2>1. Evicted(q, p) = q
    BY <1>1, <1>2 DEF Evicted
  <2> QED
    BY <2>1
<1>3. CASE ~Feedback!Fits(q) /\ z # 0
  <2>1. PICK r : r = Feedback!RemoveAt(q, z)
    OBVIOUS
  <2>2. Evicted(q, p) = r
    BY <1>1, <1>3, <2>1 DEF Evicted
  <2>3. /\ z \in 1..Len(q) /\ q[z].id # p
        /\ \A j \in 1..Len(q) : q[j].id # p => Feedback!Class(q[z]) <= Feedback!Class(q[j])
    BY <1>0, <1>1, <1>3, FindIs
  <2>4. /\ r \in Seq(Feedback!Entries) /\ Len(r) = Len(q) - 1
        /\ \A j \in 1..Len(r) : r[j] = IF j < z THEN q[j] ELSE q[j + 1]
    BY <1>0, <2>1, <2>3, RemovedIs
  <2> DEFINE Was(j) == IF j < z THEN j ELSE j + 1
  <2>5. ASSUME NEW j \in 1..Len(r) PROVE Was(j) \in 1..Len(q) /\ Was(j) # z /\ r[j] = q[Was(j)]
    BY <1>0, <2>3, <2>4
  <2>6. ASSUME NEW l \in 1..Len(q), l # z PROVE \E j \in 1..Len(r) : Was(j) = l
    <3>1. CASE l < z
      <4>1. l \in 1..Len(r) /\ Was(l) = l
        BY <1>0, <2>3, <2>4, <3>1
      <4> QED
        BY <4>1
    <3>2. CASE ~(l < z)
      <4>1. l - 1 \in 1..Len(r) /\ Was(l - 1) = l
        BY <1>0, <2>3, <2>4, <2>6, <3>2
      <4> QED
        BY <4>1
    <3> QED
      BY <3>1, <3>2
  <2>7. ASSUME NEW i \in 1..Len(r), NEW j \in 1..Len(r), Was(i) = Was(j) PROVE i = j
    <3>1. i \in Nat /\ j \in Nat /\ z \in Nat
      BY <1>0, <2>3, <2>4
    <3> QED
      BY <2>7, <3>1
  <2> HIDE DEF Was
  <2>8. ASSUME NEW i \in 1..Len(r), NEW j \in 1..Len(r), r[i].id = r[j].id PROVE i = j
    <3>1. /\ Was(i) \in 1..Len(q) /\ r[i] = q[Was(i)]
          /\ Was(j) \in 1..Len(q) /\ r[j] = q[Was(j)]
      BY <2>5
    <3>2. Was(i) = Was(j)
      BY <2>8, <3>1 DEF LeftOf, OneIdEach
    <3> QED
      BY <2>7, <3>2
  <2>9. Len(r) <= Len(es)
    BY <1>0, <2>4 DEF LeftOf
  <2>10. ASSUME NEW j \in 1..Len(r) PROVE \E i \in 1..Len(es) : r[j] = es[i]
    BY <2>5 DEF LeftOf
  <2>11. ASSUME NEW i \in 1..Len(es)
         PROVE  \/ \E j \in 1..Len(r) : r[j] = es[i]
                \/ /\ es[i].id # p
                   /\ \A j \in 1..Len(r) :
                        r[j].id # p => Feedback!Class(es[i]) <= Feedback!Class(r[j])
    <3>1. CASE \E l \in 1..Len(q) : q[l] = es[i]
      <4>1. PICK l \in 1..Len(q) : q[l] = es[i]
        BY <3>1
      <4>2. CASE l = z
        BY <2>3, <2>5, <4>1, <4>2
      <4>3. CASE l # z
        BY <2>5, <2>6, <4>1, <4>3
      <4> QED
        BY <4>2, <4>3
    <3>2. CASE /\ es[i].id # p
               /\ \A l \in 1..Len(q) : q[l].id # p => Feedback!Class(es[i]) <= Feedback!Class(q[l])
      BY <2>5, <3>2
    <3> QED
      BY <3>1, <3>2 DEF LeftOf
  <2>12. LeftOf(r, es, p)
    BY <2>4, <2>8, <2>9, <2>10, <2>11 DEF LeftOf, OneIdEach
  <2> QED
    BY <2>2, <2>12
<1> QED
  BY <1>2, <1>3

LEMMA EmptyFits == Feedback!Fits(<<>>)
<1>1. <<>> \in Seq(Feedback!Entries) /\ Len(<<>>) = 0
  OBVIOUS
<1>2. PICK g : Sums(g, <<>>)
  BY <1>1, SizeSums
<1>3. Feedback!JsonlByteSize(<<>>) = 0
  BY <1>1, <1>2 DEF Sums
<1> QED
  BY <1>1, <1>3, FeedbackConstants DEF Feedback!Fits

\* The loop of evictions, one by one.
LEMMA EvictSteps ==
  ASSUME NEW es \in Seq(Feedback!Entries), NEW p
  PROVE  \E g : /\ g[0] = es /\ g[Len(es)] = Feedback!Evict(es, p)
                /\ \A i \in 1..Len(es) : g[i] = Evicted(g[i - 1], p)
<1>0. PICK n \in Nat : n = Len(es) /\ DOMAIN es = 1..n
  OBVIOUS
<1> DEFINE D == Seq(Feedback!Entries)
           H == [x \in D \X (1..n) |-> Evicted(x[1], p)]
<1>1. H \in [D \X (1..n) -> D]
  <2>1. \A q \in D : Evicted(q, p) \in D
    BY EvictedType
  <2> HIDE DEF D
  <2> QED
    BY <2>1
<1>2. PICK h \in [SUBSET (1..n) -> D] : Folds(h, n, es, H)
  <2> HIDE DEF H, D
  <2>1. es \in D
    BY DEF D
  <2> QED
    BY <1>1, <2>1, FoldExists
<1> DEFINE Iter(f) == f = [S \in SUBSET (1..n) |->
                             IF S = {} THEN es ELSE Evicted(f[S \ {Max(S)}], p)]
<1>3. Iter(h)
  <2>1. ASSUME NEW S \in SUBSET (1..n), S # {}
        PROVE  H[<<h[S \ {Max(S)}], Max(S)>>] = Evicted(h[S \ {Max(S)}], p)
    <3>1. Max(S) \in 1..n
      <4>1. S \in SUBSET (0..n)
        OBVIOUS
      <4> QED
        BY <2>1, <4>1, MaxOfPart
    <3>2. h[S \ {Max(S)}] \in D
      <4>1. S \ {Max(S)} \in SUBSET (1..n)
        OBVIOUS
      <4> HIDE DEF D
      <4> QED
        BY <1>2, <4>1
    <3> HIDE DEF D
    <3> QED
      BY <3>1, <3>2
  <2> HIDE DEF H, D
  <2>2. ASSUME NEW S \in SUBSET (1..n)
        PROVE  h[S] = IF S = {} THEN es ELSE Evicted(h[S \ {Max(S)}], p)
    <3>1. h[S] = IF S = {} THEN es ELSE H[<<h[S \ {Max(S)}], Max(S)>>]
      BY <1>2 DEF Folds
    <3> QED
      BY <2>1, <3>1
  <2>3. h = [S \in SUBSET (1..n) |-> h[S]]
    BY <1>2
  <2> QED
    BY <2>2, <2>3, Zenon
<1> DEFINE f == CHOOSE f : Iter(f)
<1>4. Iter(f)
  BY <1>3
<1>5. Feedback!Evict(es, p) = f[1..n]
  <2>1. DOMAIN [i \in DOMAIN es |-> i] = 1..n
    BY <1>0
  <2> QED
    BY <2>1, FeedbackMax
       DEF Feedback!Evict, Feedback!FoldLeft, Feedback!MapThenFoldSet, Evicted
<1> HIDE DEF f
<1>6. f[1..0] = es /\ \A i \in 1..n : f[1..i] = Evicted(f[1..(i - 1)], p)
  <2>1. 1..0 = {} /\ {} \in SUBSET (1..n)
    OBVIOUS
  <2>2. f[1..0] = es
    BY <1>4, <2>1
  <2>3. ASSUME NEW i \in 1..n PROVE f[1..i] = Evicted(f[1..(i - 1)], p)
    <3>1. 1..i \in SUBSET (1..n) /\ 1..i # {} /\ (1..i) \ {i} = 1..(i - 1)
      OBVIOUS
    <3>2. Max(1..i) = i
      BY MaxOfAll
    <3>3. f[1..i] = Evicted(f[(1..i) \ {Max(1..i)}], p)
      BY <1>4, <3>1
    <3> QED
      BY <3>1, <3>2, <3>3
  <2> QED
    BY <2>2, <2>3
<1> DEFINE g == [i \in 0..n |-> f[1..i]]
<1>7. g[0] = es /\ g[n] = f[1..n] /\ \A i \in 1..n : g[i] = Evicted(g[i - 1], p)
  <2>1. ASSUME NEW i \in 1..n PROVE i \in 0..n /\ i - 1 \in 0..n
    OBVIOUS
  <2> QED
    BY <1>6, <2>1
<1> HIDE DEF g
<1> QED
  BY <1>0, <1>5, <1>7

\* So the limits hold in the end, unless the protected entry alone exceeds them; and nothing goes
\* that fits.
LEMMA EvictKeeps ==
  ASSUME NEW es \in Seq(Feedback!Entries), NEW p, OneIdEach(es), NEW r, r = Feedback!Evict(es, p)
  PROVE  /\ LeftOf(r, es, p)
         /\ Feedback!Fits(r) \/ Len(r) = 1
         /\ Feedback!Fits(es) => r = es
<1>0. PICK n \in Nat : n = Len(es)
  OBVIOUS
<1>1. PICK g : /\ g[0] = es /\ g[n] = r
               /\ \A i \in 1..n : g[i] = Evicted(g[i - 1], p)
  BY <1>0, EvictSteps
<1> DEFINE Done(q) == Feedback!Fits(q) \/ Feedback!FindEvictionIndex(q, p) = 0
           Stage(i) == i <= n => /\ LeftOf(g[i], es, p)
                                 /\ Done(g[i]) \/ Len(g[i]) = n - i
                                 /\ Feedback!Fits(es) => g[i] = es
<1>2. Stage(0)
  <2>1. LeftOf(es, es, p)
    BY DEF LeftOf
  <2>2. Len(es) = n - 0 /\ g[0] = es
    BY <1>0, <1>1
  <2> QED
    BY <2>1, <2>2
<1>3. ASSUME NEW i \in Nat, Stage(i) PROVE Stage(i + 1)
  <2>1. SUFFICES ASSUME i + 1 <= n
                 PROVE  /\ LeftOf(g[i + 1], es, p)
                        /\ Done(g[i + 1]) \/ Len(g[i + 1]) = n - (i + 1)
                        /\ Feedback!Fits(es) => g[i + 1] = es
    OBVIOUS
  <2>2. i + 1 \in 1..n /\ (i + 1) - 1 = i /\ i <= n
    BY <1>0, <2>1
  <2>3. PICK q : q = g[i]
    OBVIOUS
  <2>4. g[i + 1] = Evicted(q, p)
    BY <1>1, <2>2, <2>3
  <2>5. LeftOf(q, es, p) /\ (Done(q) \/ Len(q) = n - i) /\ (Feedback!Fits(es) => q = es)
    BY <1>3, <2>2, <2>3
  <2>6. LeftOf(Evicted(q, p), es, p)
    BY <2>5, EvictedLeaves
  <2>7. Done(q) => Evicted(q, p) = q
    BY DEF Evicted
  <2>8. q \in Seq(Feedback!Entries)
    BY <2>5 DEF LeftOf
  <2>9. (Evicted(q, p) = q /\ Done(q)) \/ Len(Evicted(q, p)) = Len(q) - 1
    BY <2>8, EvictedType
  <2>10. Done(Evicted(q, p)) \/ Len(Evicted(q, p)) = n - (i + 1)
    BY <1>0, <2>5, <2>7, <2>9
  <2> QED
    BY <2>4, <2>5, <2>6, <2>7, <2>10
<1>4. Stage(n)
  <2> DEFINE Good == {i \in Nat : Stage(i)}
  <2> HIDE DEF Stage
  <2>1. 0 \in Good /\ \A i \in Nat : i \in Good => i + 1 \in Good
    BY <1>2, <1>3
  <2>2. Nat \subseteq Good
    <3> HIDE DEF Good
    <3> QED
      BY <2>1, Induction
  <2> QED
    BY <1>0, <2>2
<1>5. LeftOf(r, es, p) /\ (Feedback!Fits(es) => r = es) /\ (Done(r) \/ Len(r) = n - n)
  BY <1>0, <1>1, <1>4
<1>6. r \in Seq(Feedback!Entries) /\ Len(r) \in Nat /\ OneIdEach(r)
  BY <1>5 DEF LeftOf
<1>7. Len(r) = 0 => Feedback!Fits(r)
  <2>1. Len(r) = 0 => r = <<>>
    BY <1>6
  <2> QED
    BY <2>1, EmptyFits
<1>8. Feedback!FindEvictionIndex(r, p) = 0 => Len(r) <= 1
  <2>1. SUFFICES ASSUME Feedback!FindEvictionIndex(r, p) = 0, ~(Len(r) <= 1) PROVE FALSE
    BY <1>6
  <2>2. \A z \in 1..Len(r) : r[z].id = p
    BY <1>6, <2>1, FindIs
  <2>3. 1 \in 1..Len(r) /\ 2 \in 1..Len(r)
    BY <1>6, <2>1
  <2> QED
    BY <1>6, <2>2, <2>3 DEF OneIdEach
<1>9. Feedback!Fits(r) \/ Len(r) = 1
  <2>1. PICK l \in Nat : l = Len(r)
    BY <1>6
  <2>2. CASE Feedback!Fits(r)
    BY <2>2
  <2>3. CASE Feedback!FindEvictionIndex(r, p) = 0
    <3>1. l = 0 \/ l = 1
      BY <1>8, <2>1, <2>3
    <3> QED
      BY <1>7, <2>1, <3>1
  <2>4. CASE Len(r) = n - n
    <3>1. l = 0
      BY <1>0, <2>1, <2>4
    <3> QED
      BY <1>7, <2>1, <3>1
  <2> QED
    BY <1>5, <2>2, <2>3, <2>4
<1> QED
  BY <1>5, <1>9

\* The log of an entry is cut, and nothing else of it.
Kin(a, b) == /\ a.id = b.id /\ a.kind = b.kind /\ a.status = b.status /\ a.resolvedAt = b.resolvedAt

LEMMA KinClass == \A a, b : Kin(a, b) => Feedback!Class(a) = Feedback!Class(b)
  BY DEF Kin, Feedback!Class

LEMMA PruneLogKeeps ==
  ASSUME NEW e \in Feedback!Entries
  PROVE  /\ Feedback!PruneLog(e) \in Feedback!Entries /\ Kin(Feedback!PruneLog(e), e)
         /\ Feedback!Size(Feedback!PruneLog(e)) <= Feedback!Size(e)
<1>0. PICK D : D = 0..MaxDay
  OBVIOUS
<1>1. PICK l \in Seq(D) : l = e.log
  BY <1>0 DEF Feedback!Entries
<1>2. PICK T : T = {at \in Feedback!ToSet(e.log) : now - at <= FeedbackTtl}
  OBVIOUS
<1>3. PICK f : f = Only(l, T)
  OBVIOUS
<1>4. f \in Seq(D) /\ Len(f) <= Len(l)
  <2>1. Only(l, T) \in Seq(D) /\ Len(Only(l, T)) <= Len(l)
    BY OnlyKeeps, OnlyStays
  <2> QED
    BY <1>3, <2>1
<1>5. PICK c : c = IF Len(f) <= MaxLogItems THEN f ELSE SubSeq(f, Len(f) - MaxLogItems + 1, Len(f))
  OBVIOUS
<1>6. c \in Seq(D) /\ Len(c) <= Len(l)
  <2>1. CASE Len(f) <= MaxLogItems
    BY <1>4, <1>5, <2>1
  <2>2. CASE ~(Len(f) <= MaxLogItems)
    <3>1. PICK n \in Nat, z \in Nat : n = Len(f) /\ z = MaxLogItems /\ z < n
      BY <1>4, <2>2, FeedbackConstants
    <3>2. PICK a \in Nat : a = n - z + 1 /\ a > 0
      BY <3>1
    <3>3. c = SubSeq(f, a, n)
      BY <1>5, <2>2, <3>1, <3>2
    <3>4. \A i \in a..n : f[i] \in D
      BY <1>4, <3>1, <3>2
    <3>5. c \in Seq(D) /\ Len(c) = IF a <= n THEN n - a + 1 ELSE 0
      <4>1. a \in Int /\ n \in Int
        BY <3>1, <3>2
      <4> QED
        BY <3>3, <3>4, <4>1, SubSeqProperties
    <3>6. Len(c) <= n
      BY <3>1, <3>2, <3>5
    <3> QED
      BY <1>4, <3>1, <3>5, <3>6
  <2> QED
    BY <2>1, <2>2
<1>7. Feedback!PruneLog(e) = [e EXCEPT !.log = c]
  BY <1>1, <1>2, <1>3, <1>5, FeedbackOnly DEF Feedback!PruneLog
<1>8. PICK d : d = [e EXCEPT !.log = c]
  OBVIOUS
<1>9. d \in Feedback!Entries /\ d.log = c /\ d.text = e.text /\ Kin(d, e)
  BY <1>0, <1>6, <1>8 DEF Feedback!Entries, Kin
<1>10. Feedback!Size(d) <= Feedback!Size(e)
  <2>1. PICK x \in Nat : x = e.text
    BY FeedbackConstants DEF Feedback!Entries
  <2>2. Feedback!Size(d) = x + Len(c) /\ Feedback!Size(e) = x + Len(l)
    BY <1>1, <1>9, <2>1 DEF Feedback!Size
  <2> QED
    BY <1>6, <2>1, <2>2
<1> QED
  BY <1>7, <1>8, <1>9, <1>10

\* Pruning leaves entries of before that are not expired; the limits hold, unless one entry alone
\* exceeds them; and what went was expired, or not protected and of no later class than anything
\* left that is not, and only if the limits did not hold.
Pruned(r, es, p) ==
  /\ r \in Seq(Feedback!Entries) /\ OneIdEach(r) /\ Len(r) <= Len(es)
  /\ Feedback!Fits(r) \/ Len(r) = 1
  /\ \A j \in 1..Len(r) : \E i \in 1..Len(es) : Kin(r[j], es[i])
  /\ \A i \in 1..Len(es) : ~Feedback!Expired(es[i]) =>
       \/ \E j \in 1..Len(r) : r[j].id = es[i].id
       \/ /\ ~Feedback!Fits(es) /\ es[i].id # p
          /\ \A j \in 1..Len(r) :
               r[j].id # p => Feedback!Class(es[i]) <= Feedback!Class(r[j])

LEMMA PruneKeeps ==
  ASSUME NEW es \in Seq(Feedback!Entries), NEW p, OneIdEach(es),
         NEW r, r = Feedback!PruneEntries(es, p)
  PROVE  Pruned(r, es, p)
<1>0. Len(es) \in Nat /\ \A i \in 1..Len(es) : es[i] \in Feedback!Entries
  OBVIOUS
<1>1. PICK T : T = {e \in Feedback!ToSet(es) : ~Feedback!Expired(e)}
  OBVIOUS
<1>2. PICK kept : kept = Only(es, T)
  OBVIOUS
<1>3. kept \in Seq(Feedback!Entries) /\ Len(kept) \in Nat /\ DOMAIN kept = 1..Len(kept)
  BY <1>2, OnlyStays
<1>4. PICK m : Places(m, kept, es, Len(es), T)
  BY <1>2, OnlyStays
<1>5. PICK t : t = [i \in DOMAIN kept |-> Feedback!PruneLog(kept[i])]
  OBVIOUS
<1>6. r = Feedback!Evict(t, p)
  BY <1>1, <1>2, <1>5, FeedbackOnly DEF Feedback!PruneEntries
<1>7. ASSUME NEW j \in 1..Len(kept)
      PROVE  /\ t[j] \in Feedback!Entries /\ m[j] \in 1..Len(es) /\ Kin(t[j], es[m[j]])
             /\ Feedback!Size(t[j]) <= Feedback!Size(es[m[j]])
  <2>1. t[j] = Feedback!PruneLog(kept[j]) /\ kept[j] \in Feedback!Entries
    BY <1>3, <1>5
  <2>2. kept[j] = es[m[j]] /\ m[j] \in 1..Len(es)
    BY <1>4 DEF Places
  <2> QED
    BY <2>1, <2>2, PruneLogKeeps
<1>8. t \in Seq(Feedback!Entries) /\ Len(t) = Len(kept)
  <2>1. DOMAIN t = 1..Len(kept) /\ \A j \in 1..Len(kept) : t[j] \in Feedback!Entries
    BY <1>3, <1>5, <1>7
  <2>2. t = [j \in 1..Len(kept) |-> t[j]]
    BY <1>3, <1>5
  <2>3. t \in [1..Len(kept) -> Feedback!Entries]
    BY <2>1, <2>2
  <2> QED
    BY <1>3, <2>3
<1>9. \A j, l \in 1..Len(kept) : j < l => m[j] < m[l]
  BY <1>4 DEF Places
<1>10. OneIdEach(t)
  <2>1. ASSUME NEW i \in 1..Len(kept), NEW z \in 1..Len(kept), t[i].id = t[z].id PROVE i = z
    <3>1. /\ m[i] \in 1..Len(es) /\ t[i].id = es[m[i]].id
          /\ m[z] \in 1..Len(es) /\ t[z].id = es[m[z]].id
      BY <1>7 DEF Kin
    <3>2. m[i] = m[z]
      BY <2>1, <3>1 DEF OneIdEach
    <3>3. ~(i < z) /\ ~(z < i)
      BY <1>9, <3>1, <3>2
    <3> QED
      BY <1>3, <3>3
  <2> QED
    BY <1>8, <2>1 DEF OneIdEach
<1>11. /\ LeftOf(r, t, p)
       /\ Feedback!Fits(r) \/ Len(r) = 1
       /\ Feedback!Fits(t) => r = t
  BY <1>6, <1>8, <1>10, EvictKeeps
<1>12. Feedback!JsonlByteSize(t) <= Feedback!JsonlByteSize(es) /\ Len(t) <= Len(es)
  <2>1. m \in [1..Len(t) -> 1..Len(es)]
    BY <1>4, <1>8 DEF Places
  <2>2. \A j, l \in 1..Len(t) : j < l => m[j] < m[l]
    BY <1>8, <1>9
  <2>3. \A j \in 1..Len(t) : Feedback!Size(t[j]) <= Feedback!Size(es[m[j]])
    BY <1>7, <1>8
  <2> QED
    BY <1>8, <2>1, <2>2, <2>3, SizeOfPart
<1>13. Feedback!Fits(es) => r = t
  <2>1. PICK a \in Nat, b \in Nat : a = Feedback!JsonlByteSize(t) /\ b = Feedback!JsonlByteSize(es)
    <3>1. PICK g : Sums(g, t)
      BY <1>8, SizeSums
    <3>2. PICK h : Sums(h, es)
      BY SizeSums
    <3>3. Feedback!JsonlByteSize(t) \in Nat /\ Feedback!JsonlByteSize(es) \in Nat
      BY <1>0, <1>3, <1>8, <3>1, <3>2 DEF Sums
    <3> QED
      BY <3>3
  <2>2. Feedback!Fits(es) => Feedback!Fits(t)
    BY <1>0, <1>3, <1>8, <1>12, <2>1, FeedbackConstants DEF Feedback!Fits
  <2> QED
    BY <1>11, <2>2
<1>14. r \in Seq(Feedback!Entries) /\ OneIdEach(r) /\ Len(r) \in Nat /\ Len(r) <= Len(t)
  BY <1>11 DEF LeftOf
<1>15. Len(r) <= Len(es)
  BY <1>0, <1>3, <1>8, <1>12, <1>14
<1>16. ASSUME NEW j \in 1..Len(r) PROVE \E i \in 1..Len(es) : Kin(r[j], es[i])
  <2>1. PICK z \in 1..Len(t) : r[j] = t[z]
    BY <1>11 DEF LeftOf
  <2> QED
    BY <1>7, <1>8, <2>1
<1>17. ASSUME NEW i \in 1..Len(es), ~Feedback!Expired(es[i]),
              ~\E j \in 1..Len(r) : r[j].id = es[i].id
       PROVE  /\ ~Feedback!Fits(es) /\ es[i].id # p
              /\ \A j \in 1..Len(r) : r[j].id # p => Feedback!Class(es[i]) <= Feedback!Class(r[j])
  <2>1. es[i] \in T
    BY <1>0, <1>1, <1>17 DEF Feedback!ToSet
  <2>2. PICK z \in 1..Len(kept) : m[z] = i
    BY <1>4, <2>1 DEF Places
  <2>3. z \in 1..Len(t) /\ Kin(t[z], es[i])
    BY <1>7, <1>8, <2>2
  <2>4. t[z].id = es[i].id /\ Feedback!Class(t[z]) = Feedback!Class(es[i])
    BY <2>3, KinClass DEF Kin
  <2>5. ~\E j \in 1..Len(r) : r[j] = t[z]
    BY <1>17, <2>4
  <2>6. /\ t[z].id # p
        /\ \A j \in 1..Len(r) : r[j].id # p => Feedback!Class(t[z]) <= Feedback!Class(r[j])
    BY <1>11, <2>3, <2>5 DEF LeftOf
  <2>7. r # t
    BY <2>3, <2>5
  <2> QED
    BY <1>13, <2>4, <2>6, <2>7
<1> QED
  BY <1>11, <1>14, <1>15, <1>16, <1>17 DEF Pruned

\* The time an entry was settled stays only while it is settled, and ids are given out in order.
Dated(es, most) == \A i \in 1..Len(es) :
    es[i].id <= most /\ (es[i].resolvedAt >= 0 => es[i].status \in Feedback!Over)

\* What the file is after every operation: an id for each entry, the time it was settled only while
\* it is, and within the limits unless one entry alone exceeds them.
FeedbackInv ==
    /\ file \in Seq(Feedback!Entries) /\ now \in 0..MaxDay /\ adds \in 0..MaxFeedback
    /\ OneIdEach(file)
    /\ Dated(file, adds)
    /\ Feedback!Fits(file) \/ Len(file) = 1

LEMMA FeedbackFile ==
  ASSUME FeedbackInv
  PROVE  /\ Len(file) \in Nat /\ DOMAIN file = 1..Len(file)
         /\ \A i \in 1..Len(file) : file[i] \in Feedback!Entries
  BY DEF FeedbackInv

\* Entries among which every one of the file that matters is still there, as it was if it is not
\* the one with this id.
Covers(es, id) == \A i \in 1..Len(file) : ~Feedback!Expired(file[i]) =>
    \E z \in 1..Len(es) : /\ es[z].id = file[i].id /\ ~Feedback!Expired(es[z])
                          /\ es[z].id # id => Feedback!Class(es[z]) = Feedback!Class(file[i])

\* That one is there too, expired only if it was settled before.
Aims(es, id) == \E z \in 1..Len(es) :
    /\ es[z].id = id
    /\ Feedback!Expired(es[z]) =>
         \E i \in 1..Len(file) : file[i].id = id /\ file[i].status \in Feedback!Over

\* A write of such entries.
LEMMA FeedbackWrite ==
  ASSUME FeedbackInv, NEW es \in Seq(Feedback!Entries), NEW name, NEW id, name # "read",
         OneIdEach(es), Dated(es, adds'), now' = now, adds' \in 0..MaxFeedback,
         Feedback!WriteOf(es, name, id), name # "remove" => Covers(es, id),
         id # 0 => Aims(es, id)
  PROVE  FeedbackInv' /\ Feedback!FairStep
<1>0. PICK r : r = Feedback!PruneEntries(es, id)
  OBVIOUS
<1>1. file' = r /\ lastOp'.name = name /\ lastOp'.id = id
  BY <1>0 DEF Feedback!WriteOf
<1>2. /\ r \in Seq(Feedback!Entries) /\ OneIdEach(r)
      /\ Feedback!Fits(r) \/ Len(r) = 1
      /\ \A j \in 1..Len(r) : \E i \in 1..Len(es) : Kin(r[j], es[i])
      /\ \A i \in 1..Len(es) : ~Feedback!Expired(es[i]) =>
           \/ \E j \in 1..Len(r) : r[j].id = es[i].id
           \/ /\ es[i].id # id
              /\ \A j \in 1..Len(r) : r[j].id # id => Feedback!Class(es[i]) <= Feedback!Class(r[j])
  BY <1>0, PruneKeeps DEF Pruned
<1>3. Dated(r, adds')
  BY <1>2 DEF Dated, Kin
<1>4. FeedbackInv'
  <2>1. now' \in 0..MaxDay
    BY DEF FeedbackInv
  <2> QED
    BY <1>1, <1>2, <1>3, <2>1 DEF FeedbackInv, OneIdEach, Dated, Feedback!Over
<1>5. Feedback!IdsOf(file') = {r[j].id : j \in 1..Len(r)}
  BY <1>1, <1>2 DEF Feedback!IdsOf
<1>6. Feedback!SettledGoFirst
  <2>1. SUFFICES ASSUME name # "remove", NEW i \in DOMAIN file,
                        file[i].id \notin Feedback!IdsOf(file'), ~Feedback!Expired(file[i]),
                        NEW j \in DOMAIN r, r[j].id # id
                 PROVE  Feedback!Class(file[i]) <= Feedback!Class(r[j])
    BY <1>1 DEF Feedback!SettledGoFirst, Feedback!Lost
  <2>2. i \in 1..Len(file) /\ j \in 1..Len(r)
    BY <1>2, <2>1, FeedbackFile
  <2>3. PICK z \in 1..Len(es) :
          /\ es[z].id = file[i].id /\ ~Feedback!Expired(es[z])
          /\ es[z].id # id => Feedback!Class(es[z]) = Feedback!Class(file[i])
    BY <2>1, <2>2 DEF Covers
  <2>4. ~\E l \in 1..Len(r) : r[l].id = es[z].id
    BY <1>5, <2>1, <2>3
  <2> QED
    BY <1>2, <2>1, <2>2, <2>3, <2>4
<1>7. Feedback!TargetSurvives
  <2>1. SUFFICES ASSUME id # 0, id \notin Feedback!IdsOf(file')
                 PROVE  id \in Feedback!IdsOf(file) /\ Feedback!Get(file, id).status \in Feedback!Over
    BY <1>1 DEF Feedback!TargetSurvives
  <2>2. PICK z \in 1..Len(es) :
          /\ es[z].id = id
          /\ Feedback!Expired(es[z]) =>
               \E i \in 1..Len(file) : file[i].id = id /\ file[i].status \in Feedback!Over
    BY <2>1 DEF Aims
  <2>3. Feedback!Expired(es[z])
    BY <1>2, <1>5, <2>1, <2>2
  <2>4. PICK i \in 1..Len(file) : file[i].id = id /\ file[i].status \in Feedback!Over
    BY <2>2, <2>3
  <2>5. DOMAIN file = 1..Len(file)
    BY FeedbackFile
  <2>6. (CHOOSE n \in DOMAIN file : file[n].id = id) = i
    BY <2>4, <2>5 DEF FeedbackInv, OneIdEach
  <2> QED
    BY <2>4, <2>5, <2>6 DEF Feedback!IdsOf, Feedback!Get
<1>8. Feedback!LimitsHold /\ Feedback!ReadTakesOnlyExpired
  BY <1>1, <1>2 DEF Feedback!LimitsHold, Feedback!ReadTakesOnlyExpired
<1> QED
  BY <1>4, <1>6, <1>7, <1>8 DEF Feedback!FairStep

\* A change of one entry, which it does not make expire.
LEMMA FeedbackChange ==
  ASSUME FeedbackInv, NEW es, NEW name, NEW id, name # "read", id \in Feedback!IdsOf(file),
         es = [i \in DOMAIN file |-> es[i]],
         \A i \in 1..Len(file) :
           /\ es[i] \in Feedback!Entries /\ es[i].id = file[i].id
           /\ file[i].id # id => es[i] = file[i]
           /\ es[i].resolvedAt >= 0 => es[i].status \in Feedback!Over
           /\ Feedback!Expired(es[i]) => Feedback!Expired(file[i]),
         Feedback!WriteOf(es, name, id), UNCHANGED <<now, adds>>
  PROVE  FeedbackInv' /\ Feedback!FairStep
<1>1. PICK n \in Nat : n = Len(file) /\ DOMAIN file = 1..n
  BY FeedbackFile
<1>2. es \in Seq(Feedback!Entries) /\ Len(es) = n
  <2>1. es = [i \in 1..n |-> es[i]] /\ \A i \in 1..n : es[i] \in Feedback!Entries
    BY <1>1
  <2>2. es \in [1..n -> Feedback!Entries]
    BY <2>1
  <2> QED
    BY <1>1, <2>2
<1>3. OneIdEach(es)
  BY <1>1, <1>2 DEF FeedbackInv, OneIdEach
<1>4. /\ now' = now /\ adds' \in 0..MaxFeedback
      /\ Dated(es, adds')
  BY <1>1, <1>2 DEF FeedbackInv, Dated
<1>5. Covers(es, id)
  BY <1>1, <1>2 DEF Covers
<1>6. Aims(es, id)
  <2>1. PICK z \in 1..n : file[z].id = id
    BY <1>1 DEF Feedback!IdsOf
  <2>2. Feedback!Expired(file[z]) => file[z].status \in Feedback!Over
    BY DEF Feedback!Expired
  <2> QED
    BY <1>1, <1>2, <2>1, <2>2 DEF Aims
<1> QED
  BY <1>2, <1>3, <1>4, <1>5, <1>6, FeedbackWrite

\* Part of the file is a file.
LEMMA FeedbackPart ==
  ASSUME FeedbackInv, NEW T, NEW q, q = Only(file, T)
  PROVE  /\ q \in Seq(Feedback!Entries) /\ OneIdEach(q)
         /\ Dated(q, adds)
         /\ Feedback!Fits(q) \/ Len(q) = 1
<1>1. file \in Seq(Feedback!Entries) /\ Len(file) \in Nat
  BY DEF FeedbackInv
<1>2. q \in Seq(Feedback!Entries) /\ Len(q) \in Nat
  BY <1>1, OnlyStays
<1>3. PICK m : Places(m, q, file, Len(file), T)
  BY <1>1, OnlyStays
<1>4. /\ m \in [1..Len(q) -> 1..Len(file)]
      /\ \A j, l \in 1..Len(q) : j < l => m[j] < m[l]
      /\ \A j \in 1..Len(q) : q[j] = file[m[j]]
  BY <1>3 DEF Places
<1>5. OneIdEach(q)
  <2>1. ASSUME NEW i \in 1..Len(q), NEW z \in 1..Len(q), q[i].id = q[z].id PROVE i = z
    <3>1. m[i] \in 1..Len(file) /\ m[z] \in 1..Len(file) /\ file[m[i]].id = file[m[z]].id
      BY <1>4, <2>1
    <3>2. m[i] = m[z]
      BY <3>1 DEF FeedbackInv, OneIdEach
    <3>3. ~(i < z) /\ ~(z < i)
      BY <1>1, <1>4, <3>1, <3>2
    <3> QED
      BY <1>2, <3>3
  <2> QED
    BY <2>1 DEF OneIdEach
<1>6. Dated(q, adds)
  <2>1. \A z \in 1..Len(q) : m[z] \in 1..Len(file) /\ q[z] = file[m[z]]
    BY <1>4
  <2> QED
    BY <2>1 DEF FeedbackInv, Dated
<1>7. Feedback!JsonlByteSize(q) <= Feedback!JsonlByteSize(file) /\ Len(q) <= Len(file)
  <2>1. ASSUME NEW j \in 1..Len(q) PROVE Feedback!Size(q[j]) <= Feedback!Size(file[m[j]])
    <3>1. q[j] = file[m[j]] /\ q[j] \in Feedback!Entries
      BY <1>2, <1>4
    <3>2. Feedback!Size(q[j]) \in Nat
      BY <3>1, SizeType
    <3> QED
      BY <3>1, <3>2
  <2> QED
    BY <1>1, <1>2, <1>4, <2>1, SizeOfPart
<1>8. Feedback!Fits(q) \/ Len(q) = 1
  <2>1. CASE Feedback!Fits(file)
    <3>1. PICK g : Sums(g, q)
      BY <1>2, SizeSums
    <3>2. PICK h : Sums(h, file)
      BY <1>1, SizeSums
    <3>3. Feedback!JsonlByteSize(q) \in Nat /\ Feedback!JsonlByteSize(file) \in Nat
      BY <1>1, <1>2, <3>1, <3>2 DEF Sums
    <3>4. PICK a \in Nat, b \in Nat : a = Feedback!JsonlByteSize(q) /\ b = Feedback!JsonlByteSize(file)
      BY <3>3
    <3>5. a <= b /\ b <= MaxBytes /\ Len(q) <= Len(file) /\ Len(file) <= MaxEntries
      BY <1>7, <2>1, <3>4 DEF Feedback!Fits
    <3>6. PICK c \in Nat, d \in Nat : c = Len(q) /\ d = Len(file)
      BY <1>1, <1>2
    <3>7. c <= MaxEntries /\ a <= MaxBytes
      BY <3>4, <3>5, <3>6, FeedbackConstants
    <3> QED
      BY <3>4, <3>6, <3>7 DEF Feedback!Fits
  <2>2. CASE Len(file) = 1
    <3>1. Len(q) = 0 \/ Len(q) = 1
      <4>1. PICK c \in Nat : c = Len(q)
        BY <1>2
      <4>2. c <= 1
        BY <1>7, <2>2, <4>1
      <4> QED
        BY <4>1, <4>2
    <3>2. Len(q) = 0 => q = <<>>
      BY <1>2
    <3> QED
      BY <3>1, <3>2, EmptyFits
  <2> QED
    BY <2>1, <2>2 DEF FeedbackInv
<1> QED
  BY <1>2, <1>5, <1>6, <1>8

\* An operation keeps the file, and is fair.
LEMMA FeedbackAdd ==
  ASSUME FeedbackInv, NEW kind \in {"note", "bug"}, NEW size \in TextSizes,
         Feedback!AddFeedback(kind, size)
  PROVE  FeedbackInv' /\ Feedback!FairStep
<1>1. PICK n \in Nat : n = Len(file) /\ DOMAIN file = 1..n
  BY FeedbackFile
<1>2. PICK new : new = [id |-> adds + 1, kind |-> kind, status |-> "open", text |-> size,
                        created |-> now, resolvedAt |-> -1, log |-> <<>>]
  OBVIOUS
<1>3. PICK es : es = <<new>> \o file
  OBVIOUS
<1>4. /\ adds < MaxFeedback /\ adds' = adds + 1 /\ now' = now
      /\ Feedback!WriteOf(es, "add", adds + 1)
  BY <1>2, <1>3 DEF Feedback!AddFeedback
<1>5. adds \in Nat /\ now \in 0..MaxDay /\ MaxFeedback \in Nat /\ MaxDay \in Nat
  BY FeedbackConstants DEF FeedbackInv
<1>6. new \in Feedback!Entries /\ new.id = adds + 1 /\ new.status = "open" /\ new.resolvedAt = -1
  <2>1. -1 \in -1..MaxDay /\ adds + 1 \in 1..MaxFeedback
    BY <1>4, <1>5
  <2>2. <<>> \in Seq(0..MaxDay)
    OBVIOUS
  <2> QED
    BY <1>2, <1>5, <2>1, <2>2 DEF Feedback!Entries
<1>7. /\ es \in Seq(Feedback!Entries) /\ Len(es) = n + 1 /\ es[1] = new
      /\ \A i \in 1..n : es[i + 1] = file[i] /\ file[i] \in Feedback!Entries
  <2>1. file \in Seq(Feedback!Entries) /\ <<new>> \in Seq(Feedback!Entries) /\ Len(<<new>>) = 1
    BY <1>6 DEF FeedbackInv
  <2> QED
    BY <1>1, <1>3, <2>1, ConcatProperties
<1>8. ASSUME NEW z \in 1..(n + 1), z # 1
      PROVE  z - 1 \in 1..n /\ es[z] = file[z - 1]
  <2>1. z - 1 \in 1..n /\ (z - 1) + 1 = z
    BY <1>8
  <2> QED
    BY <1>7, <2>1
<1>9. /\ \A i \in 1..n : file[i].id \in Nat /\ file[i].id <= adds
      /\ \A i \in 1..n : file[i].resolvedAt >= 0 => file[i].status \in Feedback!Over
      /\ \A i, l \in 1..n : file[i].id = file[l].id => i = l
  <2>1. Dated(file, adds) /\ OneIdEach(file)
    BY DEF FeedbackInv
  <2>2. \A e \in Feedback!Entries : e.id \in 1..MaxFeedback
    BY DEF Feedback!Entries
  <2>3. \A i \in 1..n : file[i].id \in Nat
    BY <1>7, <2>2
  <2>4. \A i \in 1..n : /\ file[i].id <= adds
                        /\ file[i].resolvedAt >= 0 => file[i].status \in Feedback!Over
    BY <1>1, <2>1 DEF Dated
  <2>5. \A i, l \in 1..n : file[i].id = file[l].id => i = l
    BY <1>1, <2>1 DEF OneIdEach
  <2> QED
    BY <2>3, <2>4, <2>5
<1>10. OneIdEach(es)
  <2>1. ASSUME NEW i \in 1..(n + 1), NEW l \in 1..(n + 1), es[i].id = es[l].id PROVE i = l
    <3>1. CASE i = 1 /\ l = 1
      BY <3>1
    <3>2. CASE i = 1 /\ l # 1
      BY <1>5, <1>6, <1>7, <1>8, <1>9, <2>1, <3>2
    <3>3. CASE i # 1 /\ l = 1
      BY <1>5, <1>6, <1>7, <1>8, <1>9, <2>1, <3>3
    <3>4. CASE i # 1 /\ l # 1
      <4>1. i - 1 = l - 1
        BY <1>8, <1>9, <2>1, <3>4
      <4> QED
        BY <4>1
    <3> QED
      BY <3>1, <3>2, <3>3, <3>4
  <2> QED
    BY <1>7, <2>1 DEF OneIdEach
<1>11. Dated(es, adds')
  <2>1. ASSUME NEW i \in 1..(n + 1)
        PROVE  es[i].id <= adds' /\ (es[i].resolvedAt >= 0 => es[i].status \in Feedback!Over)
    <3>1. CASE i = 1
      BY <1>4, <1>5, <1>6, <1>7, <3>1
    <3>2. CASE i # 1
      BY <1>4, <1>5, <1>8, <1>9, <3>2
    <3> QED
      BY <3>1, <3>2
  <2> QED
    BY <1>7, <2>1 DEF Dated
<1>12. Covers(es, adds + 1)
  <2>1. ASSUME NEW i \in 1..Len(file), ~Feedback!Expired(file[i])
        PROVE  \E z \in 1..Len(es) :
                 /\ es[z].id = file[i].id /\ ~Feedback!Expired(es[z])
                 /\ es[z].id # adds + 1 => Feedback!Class(es[z]) = Feedback!Class(file[i])
    <3>1. i + 1 \in 1..Len(es) /\ es[i + 1] = file[i]
      BY <1>1, <1>7
    <3> QED
      BY <2>1, <3>1
  <2> QED
    BY <2>1 DEF Covers
<1>13. Aims(es, adds + 1)
  <2>1. 1 \in 1..Len(es) /\ es[1].id = adds + 1 /\ ~Feedback!Expired(es[1])
    BY <1>1, <1>6, <1>7 DEF Feedback!Expired, Feedback!Over
  <2> QED
    BY <2>1 DEF Aims
<1>14. adds' \in 0..MaxFeedback
  BY <1>4, <1>5
<1> QED
  BY <1>4, <1>7, <1>10, <1>11, <1>12, <1>13, <1>14, FeedbackWrite

LEMMA FeedbackUpdate ==
  ASSUME FeedbackInv, NEW id, NEW status \in {"open"} \cup Feedback!Over,
         Feedback!UpdateFeedback(id, status)
  PROVE  FeedbackInv' /\ Feedback!FairStep
<1> DEFINE F(e) == [e EXCEPT !.status = status,
                             !.resolvedAt = IF status = "open" THEN -1 ELSE IF @ >= 0 THEN @ ELSE now]
<1>1. PICK es : es = [i \in DOMAIN file |-> IF file[i].id = id THEN F(file[i]) ELSE file[i]]
  OBVIOUS
<1>2. /\ id \in Feedback!IdsOf(file) /\ Feedback!WriteOf(es, "update", id) /\ UNCHANGED <<now, adds>>
  BY <1>1 DEF Feedback!UpdateFeedback, Feedback!Changed
<1>3. /\ now \in 0..MaxDay /\ FeedbackTtl \in Nat /\ MaxDay \in Nat
  BY FeedbackConstants DEF FeedbackInv
<1>4. ASSUME NEW e \in Feedback!Entries
      PROVE  /\ F(e) \in Feedback!Entries /\ F(e).id = e.id
             /\ F(e).resolvedAt >= 0 => F(e).status \in Feedback!Over
             /\ (e.resolvedAt >= 0 => e.status \in Feedback!Over) =>
                  (Feedback!Expired(F(e)) => Feedback!Expired(e))
  <2>1. PICK at \in -1..MaxDay : at = e.resolvedAt
    BY DEF Feedback!Entries
  <2>2. PICK settled \in -1..MaxDay :
          settled = IF status = "open" THEN -1 ELSE IF at >= 0 THEN at ELSE now
    <3>1. -1 \in -1..MaxDay /\ now \in -1..MaxDay
      BY <1>3
    <3> QED
      BY <3>1
  <2>3. F(e) = [e EXCEPT !.status = status, !.resolvedAt = settled]
    BY <2>1, <2>2
  <2>4. /\ F(e) \in Feedback!Entries /\ F(e).id = e.id
        /\ F(e).status = status /\ F(e).resolvedAt = settled
    BY <2>3 DEF Feedback!Entries
  <2>5. settled >= 0 => status \in Feedback!Over /\ (settled = at \/ settled = now)
    BY <2>2 DEF Feedback!Over
  <2>6. now - now = 0 /\ ~(0 > FeedbackTtl)
    BY <1>3
  <2> QED
    BY <2>1, <2>4, <2>5, <2>6 DEF Feedback!Expired
<1> HIDE DEF F
<1>5. ASSUME NEW i \in 1..Len(file)
      PROVE  /\ es[i] \in Feedback!Entries /\ es[i].id = file[i].id
             /\ file[i].id # id => es[i] = file[i]
             /\ es[i].resolvedAt >= 0 => es[i].status \in Feedback!Over
             /\ Feedback!Expired(es[i]) => Feedback!Expired(file[i])
  <2>1. /\ file[i] \in Feedback!Entries /\ i \in DOMAIN file
        /\ file[i].resolvedAt >= 0 => file[i].status \in Feedback!Over
    BY FeedbackFile DEF FeedbackInv, Dated
  <2>2. es[i] = IF file[i].id = id THEN F(file[i]) ELSE file[i]
    BY <1>1, <2>1
  <2> QED
    BY <1>4, <2>1, <2>2
<1>6. es = [i \in DOMAIN file |-> es[i]]
  BY <1>1
<1> QED
  BY <1>2, <1>5, <1>6, FeedbackChange

LEMMA FeedbackText ==
  ASSUME FeedbackInv, NEW id, NEW kind \in {"note", "bug"}, NEW size \in TextSizes,
         Feedback!UpdateText(id, kind, size)
  PROVE  FeedbackInv' /\ Feedback!FairStep
<1> DEFINE F(e) == [e EXCEPT !.kind = kind, !.text = size]
<1>1. PICK es : es = [i \in DOMAIN file |-> IF file[i].id = id THEN F(file[i]) ELSE file[i]]
  OBVIOUS
<1>2. /\ id \in Feedback!IdsOf(file) /\ Feedback!WriteOf(es, "update", id) /\ UNCHANGED <<now, adds>>
  BY <1>1 DEF Feedback!UpdateText, Feedback!Changed
<1>3. ASSUME NEW e \in Feedback!Entries
      PROVE  /\ F(e) \in Feedback!Entries /\ F(e).id = e.id
             /\ F(e).status = e.status /\ F(e).resolvedAt = e.resolvedAt
  BY DEF Feedback!Entries
<1> HIDE DEF F
<1>4. ASSUME NEW i \in 1..Len(file)
      PROVE  /\ es[i] \in Feedback!Entries /\ es[i].id = file[i].id
             /\ file[i].id # id => es[i] = file[i]
             /\ es[i].resolvedAt >= 0 => es[i].status \in Feedback!Over
             /\ Feedback!Expired(es[i]) => Feedback!Expired(file[i])
  <2>1. /\ file[i] \in Feedback!Entries /\ i \in DOMAIN file
        /\ file[i].resolvedAt >= 0 => file[i].status \in Feedback!Over
    BY FeedbackFile DEF FeedbackInv, Dated
  <2>2. es[i] = IF file[i].id = id THEN F(file[i]) ELSE file[i]
    BY <1>1, <2>1
  <2> QED
    BY <1>3, <2>1, <2>2 DEF Feedback!Expired
<1>5. es = [i \in DOMAIN file |-> es[i]]
  BY <1>1
<1> QED
  BY <1>2, <1>4, <1>5, FeedbackChange

LEMMA FeedbackLog ==
  ASSUME FeedbackInv, NEW id, Feedback!AppendFeedbackLog(id)
  PROVE  FeedbackInv' /\ Feedback!FairStep
<1> DEFINE F(e) == [e EXCEPT !.log = Append(@, now)]
<1>1. PICK es : es = [i \in DOMAIN file |-> IF file[i].id = id THEN F(file[i]) ELSE file[i]]
  OBVIOUS
<1>2. /\ id \in Feedback!IdsOf(file) /\ Feedback!WriteOf(es, "log", id) /\ UNCHANGED <<now, adds>>
  BY <1>1 DEF Feedback!AppendFeedbackLog, Feedback!Changed
<1>3. ASSUME NEW e \in Feedback!Entries
      PROVE  /\ F(e) \in Feedback!Entries /\ F(e).id = e.id
             /\ F(e).status = e.status /\ F(e).resolvedAt = e.resolvedAt
  <2>1. PICK D : D = 0..MaxDay
    OBVIOUS
  <2>2. PICK l \in Seq(D) : l = e.log
    BY <2>1 DEF Feedback!Entries
  <2>3. Append(l, now) \in Seq(D)
    BY <2>1 DEF FeedbackInv
  <2> QED
    BY <2>1, <2>2, <2>3 DEF Feedback!Entries
<1> HIDE DEF F
<1>4. ASSUME NEW i \in 1..Len(file)
      PROVE  /\ es[i] \in Feedback!Entries /\ es[i].id = file[i].id
             /\ file[i].id # id => es[i] = file[i]
             /\ es[i].resolvedAt >= 0 => es[i].status \in Feedback!Over
             /\ Feedback!Expired(es[i]) => Feedback!Expired(file[i])
  <2>1. /\ file[i] \in Feedback!Entries /\ i \in DOMAIN file
        /\ file[i].resolvedAt >= 0 => file[i].status \in Feedback!Over
    BY FeedbackFile DEF FeedbackInv, Dated
  <2>2. es[i] = IF file[i].id = id THEN F(file[i]) ELSE file[i]
    BY <1>1, <2>1
  <2> QED
    BY <1>3, <2>1, <2>2 DEF Feedback!Expired
<1>5. es = [i \in DOMAIN file |-> es[i]]
  BY <1>1
<1> QED
  BY <1>2, <1>4, <1>5, FeedbackChange

LEMMA FeedbackRemove ==
  ASSUME FeedbackInv, NEW ids, Feedback!RemoveFeedback(ids)
  PROVE  FeedbackInv' /\ Feedback!FairStep
<1>1. PICK q : q = Only(file, {e \in Feedback!ToSet(file) : e.id \notin ids})
  OBVIOUS
<1>2. Feedback!WriteOf(q, "remove", 0) /\ UNCHANGED <<now, adds>>
  BY <1>1, FeedbackOnly DEF Feedback!RemoveFeedback
<1>3. q \in Seq(Feedback!Entries) /\ OneIdEach(q) /\ Dated(q, adds)
  BY <1>1, FeedbackPart
<1>4. Dated(q, adds') /\ now' = now /\ adds' \in 0..MaxFeedback
  BY <1>2, <1>3 DEF FeedbackInv
<1> QED
  BY <1>2, <1>3, <1>4, FeedbackWrite

LEMMA FeedbackClear ==
  ASSUME FeedbackInv, NEW all \in BOOLEAN, Feedback!ClearFeedback(all)
  PROVE  FeedbackInv' /\ Feedback!FairStep
<1>1. PICK q : q = Only(file, {e \in Feedback!ToSet(file) : e.status \notin Feedback!Over})
  OBVIOUS
<1>2. /\ file' = <<>> \/ file' = q
      /\ lastOp'.name = "remove" /\ lastOp'.id = 0 /\ UNCHANGED <<now, adds>>
  BY <1>1, FeedbackOnly DEF Feedback!ClearFeedback
<1>3. /\ q \in Seq(Feedback!Entries) /\ OneIdEach(q) /\ Dated(q, adds)
      /\ Feedback!Fits(q) \/ Len(q) = 1
  BY <1>1, FeedbackPart
<1>4. PICK es : es = <<>>
  OBVIOUS
<1>5. /\ es \in Seq(Feedback!Entries) /\ OneIdEach(es) /\ Dated(es, adds) /\ Feedback!Fits(es)
  BY <1>4, EmptyFits DEF OneIdEach, Dated
<1>6. PICK r : /\ file' = r /\ r \in Seq(Feedback!Entries) /\ OneIdEach(r) /\ Dated(r, adds)
               /\ Feedback!Fits(r) \/ Len(r) = 1
  BY <1>2, <1>3, <1>4, <1>5
<1>7. FeedbackInv'
  <2>1. now' \in 0..MaxDay /\ adds' \in 0..MaxFeedback
    BY <1>2 DEF FeedbackInv
  <2>2. Dated(file, adds)'
    BY <1>2, <1>6 DEF Dated, Feedback!Over
  <2> QED
    BY <1>6, <2>1, <2>2 DEF FeedbackInv, OneIdEach
<1> QED
  BY <1>2, <1>6, <1>7 DEF Feedback!FairStep, Feedback!LimitsHold, Feedback!SettledGoFirst,
     Feedback!TargetSurvives, Feedback!ReadTakesOnlyExpired

LEMMA FeedbackRead ==
  ASSUME FeedbackInv, Feedback!EvictExpiredOnRead
  PROVE  FeedbackInv' /\ Feedback!FairStep
<1>1. PICK r : r = Feedback!PruneEntries(file, 0)
  OBVIOUS
<1>2. /\ file' = r \/ file' = file
      /\ lastOp'.name = "read" /\ lastOp'.id = 0 /\ UNCHANGED <<now, adds>>
  BY <1>1 DEF Feedback!EvictExpiredOnRead
<1>3. file \in Seq(Feedback!Entries) /\ OneIdEach(file) /\ Dated(file, adds)
  BY DEF FeedbackInv
<1>4. /\ r \in Seq(Feedback!Entries) /\ OneIdEach(r)
      /\ Feedback!Fits(r) \/ Len(r) = 1
      /\ \A j \in 1..Len(r) : \E i \in 1..Len(file) : Kin(r[j], file[i])
      /\ \A i \in 1..Len(file) : ~Feedback!Expired(file[i]) =>
           \/ \E j \in 1..Len(r) : r[j].id = file[i].id
           \/ /\ ~Feedback!Fits(file) /\ file[i].id # 0
              /\ \A j \in 1..Len(r) : r[j].id # 0 => Feedback!Class(file[i]) <= Feedback!Class(r[j])
  <2>1. Pruned(r, file, 0)
    BY <1>1, <1>3, PruneKeeps
  <2> QED
    BY <2>1 DEF Pruned
<1>5. Dated(r, adds)
  BY <1>3, <1>4 DEF Dated, Kin
<1>6. FeedbackInv'
  <2>1. now' \in 0..MaxDay /\ adds' \in 0..MaxFeedback
    BY <1>2 DEF FeedbackInv
  <2>2. Dated(file, adds)' /\ OneIdEach(file)'
    BY <1>2, <1>3, <1>4, <1>5 DEF Dated, OneIdEach, Feedback!Over
  <2>3. Feedback!Fits(file') \/ Len(file') = 1
    BY <1>2, <1>4 DEF FeedbackInv
  <2> QED
    BY <1>2, <1>3, <1>4, <2>1, <2>2, <2>3 DEF FeedbackInv
<1>7. Feedback!LimitsHold /\ Feedback!TargetSurvives
  BY <1>2, <1>4 DEF FeedbackInv, Feedback!LimitsHold, Feedback!TargetSurvives
<1>8. CASE file' = file
  BY <1>2, <1>6, <1>7, <1>8
     DEF Feedback!FairStep, Feedback!SettledGoFirst, Feedback!Lost, Feedback!IdsOf,
         Feedback!ReadTakesOnlyExpired
<1>9. CASE file' = r
  <2>1. Feedback!IdsOf(file') = {r[j].id : j \in 1..Len(r)} /\ DOMAIN r = 1..Len(r)
    BY <1>4, <1>9 DEF Feedback!IdsOf
  <2>2. ASSUME NEW i \in DOMAIN file, file[i].id \notin Feedback!IdsOf(file'),
               ~Feedback!Expired(file[i])
        PROVE  /\ ~Feedback!Fits(file)
               /\ \A j \in 1..Len(r) : r[j].id # 0 => Feedback!Class(file[i]) <= Feedback!Class(r[j])
    <3>1. i \in 1..Len(file)
      BY <2>2, FeedbackFile
    <3>2. ~\E j \in 1..Len(r) : r[j].id = file[i].id
      BY <2>1, <2>2
    <3> QED
      BY <1>4, <2>2, <3>1, <3>2
  <2>3. Feedback!SettledGoFirst
    BY <1>2, <1>9, <2>1, <2>2 DEF Feedback!SettledGoFirst, Feedback!Lost
  <2>4. Feedback!ReadTakesOnlyExpired
    BY <2>2 DEF Feedback!ReadTakesOnlyExpired, Feedback!Lost, FeedbackInv
  <2> QED
    BY <1>6, <1>7, <2>3, <2>4 DEF Feedback!FairStep
<1> QED
  BY <1>2, <1>8, <1>9

\* Every step.
LEMMA FeedbackInductive ==
  FeedbackInv /\ [Feedback!Next]_feedbackVars => FeedbackInv' /\ Feedback!FairStep
<1> SUFFICES ASSUME FeedbackInv, [Feedback!Next]_feedbackVars
             PROVE  FeedbackInv' /\ Feedback!FairStep
  OBVIOUS
<1>1. ASSUME UNCHANGED <<file, adds>>, now' \in 0..MaxDay, lastOp'.id = 0 \/ lastOp' = lastOp
      PROVE  FeedbackInv' /\ Feedback!FairStep
  <2>1. FeedbackInv'
    BY <1>1 DEF FeedbackInv, Dated, OneIdEach, Feedback!Over
  <2>2. Feedback!Lost = {}
    BY <1>1 DEF Feedback!Lost, Feedback!IdsOf
  <2>3. Feedback!LimitsHold
    BY <1>1 DEF FeedbackInv, Feedback!LimitsHold
  <2> QED
    BY <1>1, <2>1, <2>2, <2>3
       DEF Feedback!FairStep, Feedback!SettledGoFirst, Feedback!TargetSurvives,
           Feedback!ReadTakesOnlyExpired
<1>2. CASE UNCHANGED feedbackVars
  BY <1>1, <1>2 DEF feedbackVars, FeedbackInv
<1>3. ASSUME Feedback!Tick PROVE FeedbackInv' /\ Feedback!FairStep
  <2>1. now' \in 0..MaxDay
    BY <1>3, FeedbackConstants DEF Feedback!Tick, FeedbackInv
  <2> QED
    BY <1>1, <1>3, <2>1 DEF Feedback!Tick
<1> QED
  BY <1>2, <1>3, FeedbackAdd, FeedbackUpdate, FeedbackText, FeedbackLog, FeedbackRemove,
     FeedbackClear, FeedbackRead DEF Feedback!Next

LEMMA FeedbackInitially == Feedback!Init => FeedbackInv
<1> SUFFICES ASSUME Feedback!Init PROVE FeedbackInv
  OBVIOUS
<1>1. file = <<>> /\ now = 0 /\ adds = 0
  BY DEF Feedback!Init
<1>2. Len(file) = 0 /\ file \in Seq(Feedback!Entries)
  BY <1>1
<1>3. Feedback!Fits(file)
  BY <1>1, EmptyFits
<1> QED
  BY <1>1, <1>2, <1>3, FeedbackConstants DEF FeedbackInv, OneIdEach, Dated

-----------------------------------------------------------------------------
(* All in one behaviour *)

HelpersInv ==
    /\ AtdInv /\ JobsInv /\ CacheInv /\ BoardInv /\ BrokerInv /\ StateInv
    /\ HealthInv /\ BreakerInv /\ LineInv /\ ThreadInv /\ FeedbackInv

\* It holds at first.
LEMMA HelpersInitially == Init => HelpersInv
<1> SUFFICES ASSUME Atd!Init, Jobs!Init, Cache!Init, Board!Init, Broker!Init, State!Init,
                    Health!Init, Breaker!Init, Line!Init, Thread!Init, Feedback!Init
             PROVE  HelpersInv
  BY DEF Init
<1>1. AtdInv
  BY DEF Atd!Init, AtdInv, AtdTypes, AloneOwns, Alone, Atd!Alive
<1>2. JobsInv
  BY DEF Jobs!Init, JobsInv, Jobs!TypeOK, StartsAlone, Jobs!Starting, Live, Jobs!Idle
<1> QED
  BY <1>1, <1>2, CacheInitially, BoardInitially, BrokerInitially, StateInitially,
     HealthInitially, BreakerInitially, LineInitially, ThreadInitially, FeedbackInitially
     DEF HelpersInv

\* A step is one of the component that is followed, and leaves the others.
LEMMA OneAtATime ==
  [Next]_vars => /\ [Atd!Next]_atdVars /\ [Jobs!Next]_jobVars
                 /\ [Cache!Next]_cacheVars /\ [Board!Next]_boardVars
                 /\ [Broker!Next]_brokerVars /\ [State!Next]_stateVars
                 /\ [Health!Next]_healthVars /\ [Breaker!Next]_breakerVars
                 /\ [Line!Next]_lineVars /\ [Thread!Next]_threadVars
                 /\ [Feedback!Next]_feedbackVars
BY DEF Next, vars, ButCache, ButAtd, ButBroker, ButThread, ButFeedback, ButJobs, ButLine,
       ButHealth, ButBreaker, ButState, ButBoard

\* So every step preserves what is known of each.
LEMMA HelpersAlways == Spec => []HelpersInv
<1>1. HelpersInv /\ [Next]_vars => HelpersInv'
  BY OneAtATime, AtdInvInductive, JobsInvInductive, CacheInvInductive, BoardInvInductive,
     BrokerInvInductive, StateInvInductive, HealthInvInductive, BreakerInductive,
     LineInductive, ThreadInductive, FeedbackInductive DEF HelpersInv
<1> QED
  BY <1>1, HelpersInitially, PTL DEF Spec

\* A Go daemon that has no rival owns the socket and, once up, the pid file, so that every call
\* finds it; a running job is the one on record, or about to be recorded by the start that spawned
\* it, unless starts overlapped or were cut short.
THEOREM BackgroundAlwaysFound == Spec => []BackgroundIsFound
<1>1. HelpersInv => BackgroundIsFound
  <2>1. AtdInv => Atd!LoneDaemonIsFound
    BY DEF AtdInv, AtdTypes, AloneOwns, Alone, Atd!Alive, Atd!LoneDaemonIsFound
  <2>2. ASSUME JobsInv, ~careless, NEW p \in JobPids, Live(p)
        PROVE  record = p \/ Jobs!AboutToRecord(p)
    <3>1. CASE Jobs!Starting = {}
      BY <2>2, <3>1 DEF JobsInv, StartsAlone
    <3>2. CASE Jobs!Starting # {}
      BY <2>2, <3>2 DEF JobsInv, StartsAlone, Jobs!Starting, Jobs!AboutToRecord
    <3> QED
      BY <3>1, <3>2
  <2>3. JobsInv => Jobs!JobsAreFound
    BY <2>2 DEF Jobs!JobsAreFound, Live
  <2> QED
    BY <2>1, <2>3 DEF HelpersInv, BackgroundIsFound
<1> QED
  BY <1>1, HelpersAlways, PTL

\* A cached answer that differs from the bytes on disk is behind an event that is queued or was
\* never sent, and an entry read in a later tick than its signatures is exact.
THEOREM HitsAlwaysJustified == Spec => []HitsAreJustified
<1>1. HelpersInv => HitsAreJustified
  BY HitsFollow DEF HelpersInv, HitsAreJustified
<1> QED
  BY <1>1, HelpersAlways, PTL

\* The board: a row waits for, plans or is compared with another task than its own only through an
\* id given twice; a plan is missing only where a command was cut short; and while the edges
\* are sound there is always a next row to work on.
THEOREM BoardAlwaysWorkable == Spec => []BoardStaysWorkable
<1>1. HelpersInv => BoardStaysWorkable
  BY BoardWorks DEF HelpersInv, BoardStaysWorkable
<1> QED
  BY <1>1, HelpersAlways, PTL

\* A write is in the file once its client returns, once, or twice if the client had stopped waiting
\* for the daemon; an event is passed on once at most, after those its run sent before it.
THEOREM RequestsAlwaysTakeEffect == Spec => []RequestsTakeEffect
<1>1. HelpersInv => RequestsTakeEffect
  BY RequestsDo DEF HelpersInv, RequestsTakeEffect
<1> QED
  BY <1>1, HelpersAlways, PTL

\* An agent's block on file, or in a copy of it, was deserved at some moment: that many of its
\* failures fell into the window before it, and it lasts as long as they call for; a model of
\* triage is skipped for a failure nothing has made up for, and nobody asks one that failed without
\* a reason to.
THEOREM BlocksAreDeserved == Spec => []BlockIsDeserved
<1>1. HealthInv => Health!BlockIsDeserved
  BY DEF HealthInv, Earned, Health!BlockIsDeserved
<1>2. HelpersInv => BlockIsDeserved
  BY <1>1, BreakerShows DEF HelpersInv, BlockIsDeserved
<1> QED
  BY <1>2, HelpersAlways, PTL

\* Changes of the configuration that are made one after the other lose nothing; and a run that no
\* change came across goes by the file, unless an edit is not signed: its queue is the configured
\* line, each known agent once, or else agents of the registry, each once.
THEOREM ConfigAlwaysAsWritten == Spec => []ConfigIsAsWritten
<1>1. HelpersInv => ConfigIsAsWritten
  BY LineShows DEF HelpersInv, ConfigIsAsWritten
<1> QED
  BY <1>1, HelpersAlways, PTL

\* In a thread, where ids are given out without a lock, two entries share an id only if a command
\* without a shared writer wrote one of them; but for these, an asker prints the answer to its own
\* question, a default that is posted settles it, and a watcher or the inbox shows what it passes.
THEOREM ConfusionAlwaysNeedsTwins == Spec => []ConfusionNeedsTwins
<1>1. HelpersInv => ConfusionNeedsTwins
  BY ThreadShows DEF HelpersInv, ConfusionNeedsTwins
<1> QED
  BY <1>1, HelpersAlways, PTL

\* The feedback file is within its limits after every step, unless one entry alone exceeds them;
\* an open entry that nobody removed goes for them only when nothing settled is left to go in its
\* place, and a bug only when no note is; an operation loses what it is about only if that was
\* settled before; and reading takes away only what is expired, or part of a file of one entry.
THEOREM EvictionAlwaysFair == Spec => EvictionIsFair
<1>1. HelpersInv /\ [Next]_vars => [part = "feedback" => Feedback!FairStep]_vars
  BY OneAtATime, FeedbackInductive DEF HelpersInv
<1> QED
  BY <1>1, HelpersAlways, PTL DEF Spec, EvictionIsFair

\* A finished update of state.json - a result, a disable, a pick - is lost only to the TUI and, if
\* it concerns the agents, to a filterHealthy that writes back its older copy, to a pick that the
\* daemon answered with a content that had it not, or, a disable, to a use that found an expired
\* one; and a use that began after an `at disable' was done misses it only if it reads the file in
\* mid-rewrite or one of those undid it.
THEOREM OnlyStaleWritersDoHarm == Spec => []OnlyStaleWritersHarm
<1>1. HelpersInv => OnlyStaleWritersHarm
  BY OnlyStaleLose DEF HelpersInv, StateInv, OnlyStaleWritersHarm
<1> QED
  BY <1>1, HelpersAlways, PTL
=============================================================================
