------------------------------ MODULE HotCache ------------------------------
(***************************************************************************)
(* The hot caches of the Go daemon (web-server/internal/daemon/cache.go)   *)
(* and their reader in the CLI (src/daemon-cache.ts).  A read signs its    *)
(* source paths by size and mtime before it takes the cache's mutex, then  *)
(* under the mutex serves the stored entry or reads the files and stores   *)
(* what it read with the signature taken before.  Writers of the files and *)
(* the file system's change events run beside it.                          *)
(*                                                                         *)
(* "state" stands for the kinds runs, state and health (one file in the    *)
(* state directory), "config" reads two files, "bins" resolves one agent   *)
(* whose only candidate is `tool' in the directory bin.  Kinds share the   *)
(* mutex and nothing else: a behaviour follows the entry of one of them.   *)
(***************************************************************************)
EXTENDS Naturals, Sequences, Functions, FiniteSetsExt

CONSTANTS
    Readers,    \* connections to the daemon
    Kinds,      \* the cache kinds, a subset of {"state", "config", "bins"}
    MaxWrites,  \* bound: changes to the file system
    MaxClock    \* bound: ticks of the clock which stamps the files

VARIABLES
    disk,       \* path -> its content, size and mtime
    clock,      \* the file system's clock, at its granularity
    writes,     \* number of changes made so far: also names the contents
    notified,   \* directory -> the kernel really watches it (inotify)
    watched,    \* the daemon's map of directories it asked to watch
    events,     \* set of paths with an event queued to the event loop
    unnoticed,  \* paths changed since the last read with no event queued: their
                \* directory was not watched, or the event was dropped (history)
    k,          \* the kind which is read in this behaviour
    entry,      \* its stored entry
    mu,         \* holder of the cache's mutex
    rd          \* reader -> its request in progress

vars == <<disk, clock, writes, notified, watched, events, unnoticed, k, entry, mu, rd>>

Dirs == {"at", "bin"}
Files == {"state.json", "config.json", "config.json.hmac", "tool"}
Parent == [p \in Files |-> IF p = "tool" THEN "bin" ELSE "at"]

Absent == 0     \* content of a missing path; a truncated file holds Empty
Empty == 1
NoReader == "none"
\* Contents of two sizes, the first ones of the same.
SizeOf(v) == IF v <= Empty THEN 0 ELSE IF v <= 3 THEN 1 ELSE 2

\* The paths whose signature guards an entry, the files it is read from, and
\* the directories watched for it.
Signed == CASE k = "state" -> <<"state.json">>
            [] k = "config" -> <<"config.json", "config.json.hmac">>
            [] k = "bins" -> <<"bin">>
Sources == IF k = "bins" THEN <<"tool">> ELSE Signed
Watches == IF k = "bins" THEN "bin" ELSE "at"

\* pathSig: absent, or size and mtime (a directory signs its mtime alone).
Sig(p) == IF disk[p].v = Absent THEN <<"absent">> ELSE <<disk[p].size, disk[p].at>>

\* What the sources of k hold now.  For bins only the existence is read.
Content(p) == IF p = "tool" THEN (IF disk[p].v = Absent THEN Absent ELSE 2) ELSE disk[p].v
Current == [i \in DOMAIN Sources |-> Content(Sources[i])]
CurrentSig == [i \in DOMAIN Signed |-> Sig(Signed[i])]

NoEntry == [has |-> FALSE, vals |-> <<>>, sigs |-> <<>>, watchable |-> FALSE,
            dirty |-> FALSE, readAt |-> 0]
Quiet == [pc |-> "idle", sigs |-> <<>>, vals |-> <<>>, readAt |-> 0]

Init ==
    /\ \E there \in BOOLEAN : disk = [p \in Files \union Dirs |->
                 [v |-> IF p = "tool" \/ (p = "bin" /\ ~there) THEN Absent ELSE 2,
                  size |-> IF p \in Files \ {"tool"} THEN 1 ELSE 0,
                  at |-> 0]]
    /\ clock = 0
    /\ writes = 0
    /\ notified = [d \in Dirs |-> d = "at"]       \* newHotCache watches the state dir
    /\ watched = {"at"}
    /\ events = {}
    /\ unnoticed = {}
    /\ k \in Kinds
    /\ entry = NoEntry
    /\ mu = NoReader
    /\ rd = [r \in Readers |-> Quiet]

-----------------------------------------------------------------------------
(* The file system and the processes that write the files *)

cacheVars == <<watched, k, entry, mu, rd>>

\* A change of path p reaches the event queue if its directory is watched and
\* the kernel does not drop the event; events of one path are coalesced.
Notify(ps) ==
    \/ /\ \A p \in ps : notified[Parent[p]]
       /\ events' = events \union ps
       /\ UNCHANGED unnoticed
    \/ /\ unnoticed' = unnoticed \union ps
       /\ UNCHANGED events

\* New contents of p (other files of the directory would only dirty the entry
\* more often): the mtime is the clock's; making or removing a file also
\* stamps its directory.
Put(p, v) ==
    /\ writes < MaxWrites
    /\ p \in Range(Sources) /\ disk[Watches].v # Absent
    /\ writes' = writes + 1
    /\ disk' = [disk EXCEPT ![p] = [v |-> v, size |-> SizeOf(v), at |-> clock],
                            ![Parent[p]].at = IF (v = Absent) # (disk[p].v = Absent)
                                              THEN clock ELSE @]
    /\ Notify({p})
    /\ UNCHANGED <<clock, notified, cacheVars>>

\* writeFileSync truncates, then writes; a writer that dies leaves the file
\* empty.  A rename over the file and an installed binary are one Write.
Truncate(p) == disk[p].v # Empty /\ p # "tool" /\ Put(p, Empty)
Write(p) == Put(p, writes + 3)
Unlink(p) == disk[p].v # Absent /\ Put(p, Absent)

\* A directory is made, or removed and made again: the kernel's watch goes with it, the
\* daemon's map is not told.
Recreate(d) ==
    LET inside == Range(Sources) IN
    /\ writes < MaxWrites
    /\ d = Watches
    /\ writes' = writes + 1
    /\ disk' = [p \in Files \union Dirs |->
                  IF p \in inside THEN [v |-> Absent, size |-> 0, at |-> 0]
                  ELSE IF p = d THEN [v |-> 2, size |-> 0, at |-> clock]
                  ELSE disk[p]]
    /\ notified' = [notified EXCEPT ![d] = FALSE]
    /\ Notify(inside)
    /\ UNCHANGED <<clock, cacheVars>>

Tick ==
    /\ clock < MaxClock
    /\ clock' = clock + 1
    /\ UNCHANGED <<disk, writes, notified, events, unnoticed, cacheVars>>

-----------------------------------------------------------------------------
(* The cache *)

(* Mutant: only the signed paths themselves are looked up. *)
FeedsSignedOnly(p) == p \in Range(Signed)

\* The map from a source path to the entries read from it, which has directories too.
Feeds(p) == p \in Range(Sources)

\* One event is handled: entries which read from its path are dirtied.  The
\* sources of a file entry hold its directory too, so that every event in the
\* directory dirties it.
EventLoop ==
    /\ mu = NoReader
    /\ \E p \in events :
         /\ events' = events \ {p}
         /\ entry' = [entry EXCEPT !.dirty = @ \/ (entry.has /\ Feeds(p))]
    /\ UNCHANGED <<disk, clock, writes, notified, watched, unnoticed, k, mu, rd>>

\* The next path is signed, outside the mutex.
Sign(r) ==
    LET p == Signed[Len(rd[r].sigs) + 1]
    IN
    /\ rd[r].pc \in {"idle", "sign"}
    /\ rd' = [rd EXCEPT ![r].sigs = Append(@, Sig(p)),
                        ![r].pc = IF Len(rd[r].sigs) + 1 = Len(Signed) THEN "lock" ELSE "sign"]
    /\ UNCHANGED <<disk, clock, writes, notified, watched, events, unnoticed, k, entry, mu>>

Hit(r) ==
    entry.has /\ ~entry.dirty /\ entry.watchable /\ entry.sigs = rd[r].sigs

\* Under the mutex: a usable entry is the answer, anything else is read again.
Serve(r) ==
    /\ rd[r].pc = "lock"
    /\ mu = NoReader
    /\ IF Hit(r)
       THEN rd' = [rd EXCEPT ![r] = Quiet] /\ UNCHANGED <<mu, unnoticed>>
       ELSE /\ rd' = [rd EXCEPT ![r].pc = "read", ![r].readAt = clock]
            /\ mu' = r
            /\ unnoticed' = {}
    /\ UNCHANGED <<disk, clock, writes, notified, watched, events, k, entry>>

\* The next source is read (bins: looked for), the mutex held.
Read(r) ==
    LET p == Sources[Len(rd[r].vals) + 1]
    IN
    /\ rd[r].pc = "read"
    /\ rd' = [rd EXCEPT ![r].vals = Append(@, Content(p)),
                        ![r].pc = IF Len(rd[r].vals) + 1 = Len(Sources) THEN "store" ELSE "read"]
    /\ UNCHANGED <<disk, clock, writes, notified, watched, events, unnoticed, k, entry, mu>>

\* watchLocked: a directory once watched is never added again.
WatchLocked(d) ==
    LET there == disk[d].v # Absent IN
    /\ watched' = IF there THEN watched \union {d} ELSE watched
    /\ notified' = [notified EXCEPT ![d] = @ \/ (there /\ d \notin watched)]

\* The entry is stored, dirty or not before: its directory is watched only now,
\* after the files were read.  A resolved binary whose directory cannot be
\* watched is not kept, a file entry is kept and never hit.
Store(r) ==
    LET ok == Watches \in watched \/ disk[Watches].v # Absent
    IN
    /\ rd[r].pc = "store"
    /\ WatchLocked(Watches)
    /\ entry' = IF k = "bins" /\ ~ok THEN NoEntry
                ELSE [has |-> TRUE, vals |-> rd[r].vals, sigs |-> rd[r].sigs,
                      watchable |-> ok, dirty |-> FALSE, readAt |-> rd[r].readAt]
    /\ rd' = [rd EXCEPT ![r] = Quiet]
    /\ mu' = NoReader
    /\ UNCHANGED <<disk, clock, writes, events, unnoticed, k>>

\* A file that does not parse (config bytes are not parsed): the answer is an
\* error, the old entry stays as it is, the client reads the file itself.
Malformed(r) ==
    /\ rd[r].pc = "store"
    /\ k = "state"
    /\ \E i \in DOMAIN rd[r].vals : rd[r].vals[i] > 2
    /\ rd' = [rd EXCEPT ![r] = Quiet]
    /\ mu' = NoReader
    /\ unnoticed' = Range(Sources)    \* the old entry is as unseen as before
    /\ UNCHANGED <<disk, clock, writes, notified, watched, events, k, entry>>

Next ==
    \/ \E p \in Files : Truncate(p) \/ Write(p) \/ Unlink(p)
    \/ \E d \in Dirs : Recreate(d)
    \/ Tick
    \/ EventLoop
    \/ \E r \in Readers : Sign(r) \/ Serve(r) \/ Read(r) \/ Store(r) \/ Malformed(r)

Spec == Init /\ [][Next]_vars

-----------------------------------------------------------------------------
TypeOK ==
    /\ \A p \in Files \union Dirs :
         disk[p].v \in 0..(MaxWrites + 2) /\ disk[p].size \in 0..2 /\ disk[p].at \in 0..MaxClock
    /\ clock \in 0..MaxClock /\ writes \in 0..MaxWrites
    /\ notified \in [Dirs -> BOOLEAN] /\ watched \subseteq Dirs
    /\ events \subseteq Files /\ unnoticed \subseteq Files
    /\ k \in Kinds
    /\ entry.has => Len(entry.vals) = Len(Sources)
    /\ mu \in Readers \union {NoReader}
    /\ \A r \in Readers : (rd[r].pc \in {"read", "store"}) <=> (mu = r)

\* An entry the next read would serve from memory.
Usable == entry.has /\ ~entry.dirty /\ entry.watchable /\ entry.sigs = CurrentSig
Stale == Usable /\ entry.vals # Current

\* A value which a hit would serve over changed bytes is only ever behind an
\* event which is still queued, or which the kernel never sent: because the
\* event was dropped, the directory had been made again under its watch, or was
\* not watched yet while its files were read.  (cache.go:31 says a hit is
\* never served over changed bytes.)
StaleBehindEvent ==
    (Stale /\ mu = NoReader) => Range(Sources) \cap (events \union unnoticed) # {}

\* What the fingerprint is good for when the events are not: an entry read in a
\* later tick than the mtimes it was signed with is exact for as long as its
\* sources exist and sign the same, whatever the writers do.
ExactOnceSettled ==
    (/\ Usable
     /\ \A i \in DOMAIN Signed : /\ disk[Signed[i]].v # Absent
                                  /\ disk[Signed[i]].at < entry.readAt)
    => entry.vals = Current

\* What a hit may be wrong about: the two together.
HitsAreJustified == StaleBehindEvent /\ ExactOnceSettled
=============================================================================
