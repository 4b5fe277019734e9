---------------------------- MODULE FeedbackStore ----------------------------
(***************************************************************************)
(* feedback.jsonl: feedback-store.ts and its callers commands/feedback.ts  *)
(* and bridge/feedback.ts. Every operation reads the file, changes the     *)
(* entries, prunes them to the limits and renames a new file into place,   *)
(* all under the file's lock, so each is one step. Reads prune too, if the *)
(* lock is free.                                                           *)
(*                                                                         *)
(* Time is a clock of ticks, two entries may be of one tick; the size of   *)
(* an entry is what its text takes plus one for each item of its log.      *)
(***************************************************************************)
EXTENDS Integers, Sequences, FiniteSets, SequencesExt

CONSTANTS MaxAdds, MaxClock,            \* bounds: entries ever added, ticks
          MaxEntries, MaxBytes, Ttl,    \* FeedbackConfig; Ttl is resolvedTtlMs and logTtlMs
          MaxLogItems,
          Texts                         \* sizes a text may have

VARIABLES
  file,    \* Seq(entry), the newest first
  clock,
  adds,    \* ids given out
  op       \* history: [name, id], the last operation and the entry it was about, 0 for none

vars == <<file, clock, adds, op>>

Over == {"resolved", "wontfix"}
Entries == [id : 1..MaxAdds, kind : {"note", "bug"}, status : {"open"} \cup Over, text : Texts,
            created : 0..MaxClock, resolvedAt : -1..MaxClock, log : Seq(0..MaxClock)]
IdsOf(es) == {es[i].id : i \in DOMAIN es}
Get(es, id) == es[CHOOSE i \in DOMAIN es : es[i].id = id]

TypeOK == /\ file \in Seq(Entries) /\ Cardinality(IdsOf(file)) = Len(file)
          /\ clock \in 0..MaxClock /\ adds \in 0..MaxAdds

Init == file = <<>> /\ clock = 0 /\ adds = 0 /\ op = [name |-> "none", id |-> 0]

----------------------------------------------------------------------------
(* Pruning *)

Size(e) == e.text + Len(e.log)
JsonlByteSize(es) == FoldLeft(LAMBDA n, e : n + Size(e), 0, es)
Fits(es) == Len(es) <= MaxEntries /\ JsonlByteSize(es) <= MaxBytes

\* What is left of a sequence when only what is in T stays.
Only(s, T) == FoldLeft(LAMBDA q, x : IF x \in T THEN Append(q, x) ELSE q, <<>>, s)

\* An expired entry goes even if it is the one the operation is about.
Expired(e) == e.status \in Over /\ e.resolvedAt >= 0 /\ clock - e.resolvedAt > Ttl

PruneLog(e) ==
  LET fresh == Only(e.log, {at \in ToSet(e.log) : clock - at <= Ttl})
  IN  [e EXCEPT !.log = IF Len(fresh) <= MaxLogItems THEN fresh
                         ELSE SubSeq(fresh, Len(fresh) - MaxLogItems + 1, Len(fresh))]

Class(e) == IF e.status \in Over THEN 0 ELSE IF e.kind = "note" THEN 1 ELSE 2

\* findEvictionIndex: settled before notes before the rest, in a class the oldest, of one
\* tick the first in the file, never the protected one.
FindEvictionIndex(es, protect) ==
  LET may == {i \in DOMAIN es : es[i].id # protect}
      Before(i, k) == \/ Class(es[i]) < Class(es[k])
                      \/ /\ Class(es[i]) = Class(es[k])
                         /\ \/ es[i].created < es[k].created
                            \/ es[i].created = es[k].created /\ i <= k
  IN  IF may = {} THEN 0 ELSE CHOOSE i \in may : \A k \in may : Before(i, k)

\* The loop of pruneEntries: one more goes while they do not fit.
Evict(es, protect) ==
  LET Step(rest, n) ==
        IF Fits(rest) \/ FindEvictionIndex(rest, protect) = 0 THEN rest
        ELSE RemoveAt(rest, FindEvictionIndex(rest, protect))
  IN  FoldLeft(Step, es, [n \in DOMAIN es |-> n])

PruneEntries(es, protect) ==
  LET kept == Only(es, {e \in ToSet(es) : ~Expired(e)})
  IN  Evict([i \in DOMAIN kept |-> PruneLog(kept[i])], protect)

(* Mutant: nothing is protected. *)
WriteUnprotected(es, name, id) == file' = PruneEntries(es, 0) /\ op' = [name |-> name, id |-> id]

\* The entries are pruned, the one with this id last, and written.
WriteOf(es, name, id) == file' = PruneEntries(es, id) /\ op' = [name |-> name, id |-> id]

----------------------------------------------------------------------------
(* The operations *)

\* An entry that alone exceeds the limit is refused before anything is written.
AddFeedback(kind, text) ==
  /\ adds < MaxAdds /\ text <= MaxBytes /\ adds' = adds + 1
  /\ WriteOf(<<[id |-> adds + 1, kind |-> kind, status |-> "open", text |-> text, created |-> clock,
                resolvedAt |-> -1, log |-> <<>>]>> \o file, "add", adds + 1)
  /\ UNCHANGED clock

Changed(id, F(_)) == [i \in DOMAIN file |-> IF file[i].id = id THEN F(file[i]) ELSE file[i]]

\* resolvedAt stays from one settled state to the other and goes with a reopening.
UpdateFeedback(id, status) ==
  /\ id \in IdsOf(file)
  /\ LET F(e) == [e EXCEPT !.status = status,
                           !.resolvedAt = IF status = "open" THEN -1 ELSE IF @ >= 0 THEN @ ELSE clock]
     IN  WriteOf(Changed(id, F), "update", id)
  /\ UNCHANGED <<clock, adds>>

UpdateText(id, kind, text) ==
  /\ id \in IdsOf(file)
  /\ LET F(e) == [e EXCEPT !.kind = kind, !.text = text] IN WriteOf(Changed(id, F), "update", id)
  /\ UNCHANGED <<clock, adds>>

AppendFeedbackLog(id) ==
  /\ id \in IdsOf(file)
  /\ LET F(e) == [e EXCEPT !.log = Append(@, clock)] IN WriteOf(Changed(id, F), "log", id)
  /\ UNCHANGED <<clock, adds>>

\* One unknown id among them and nothing is removed.
RemoveFeedback(ids) ==
  /\ ids # {} /\ ids \subseteq IdsOf(file)
  /\ WriteOf(Only(file, {e \in ToSet(file) : e.id \notin ids}), "remove", 0)
  /\ UNCHANGED <<clock, adds>>

ClearFeedback(all) ==
  /\ file' = IF all THEN <<>> ELSE Only(file, {e \in ToSet(file) : e.status \notin Over})
  /\ op' = [name |-> "remove", id |-> 0]
  /\ UNCHANGED <<clock, adds>>

\* `list`, `show` and `prune`: a file from which nothing is evicted is not written.
EvictExpiredOnRead ==
  /\ LET pruned == PruneEntries(file, 0)
     IN  file' = IF Len(pruned) < Len(file) THEN pruned ELSE file
  /\ op' = [name |-> "read", id |-> 0]
  /\ UNCHANGED <<clock, adds>>

Tick == /\ clock < MaxClock /\ clock' = clock + 1 /\ op' = [name |-> "tick", id |-> 0]
        /\ UNCHANGED <<file, adds>>

Next ==
  \/ \E kind \in {"note", "bug"}, text \in Texts :
       AddFeedback(kind, text) \/ \E id \in 1..MaxAdds : UpdateText(id, kind, text)
  \/ \E id \in 1..MaxAdds : AppendFeedbackLog(id) \/ \E s \in {"open"} \cup Over : UpdateFeedback(id, s)
  \/ \E ids \in SUBSET (1..MaxAdds) : RemoveFeedback(ids)
  \/ \E all \in BOOLEAN : ClearFeedback(all)
  \/ EvictExpiredOnRead \/ Tick

Spec == Init /\ [][Next]_vars

----------------------------------------------------------------------------
(* Properties *)

\* The limits hold after every write; only an entry that is alone may exceed them.
LimitsHold == Fits(file') \/ Len(file') = 1

\* An open entry that nobody removed goes only when no settled entry is left to go in its
\* place, and a bug only when no note is, but for the one the operation protects.
Lost == {file[i] : i \in {k \in DOMAIN file : file[k].id \notin IdsOf(file')}}
SettledGoFirst == op'.name # "remove" =>
  \A e \in Lost : ~Expired(e) =>
    \A i \in DOMAIN file' : file'[i].id # op'.id => Class(e) <= Class(file'[i])

\* The entry an operation is about is there afterwards, unless it was settled too long ago:
\* then the operation reports success and its change is gone.
TargetSurvives == op'.id # 0 /\ op' # op =>
  op'.id \in IdsOf(file') \/ (op'.id \in IdsOf(file) /\ Get(file, op'.id).status \in Over)

\* Reading takes away only what is expired, or a file of one entry that grew over the limit.
ReadTakesOnlyExpired == op'.name = "read" /\ file' # file =>
  Len(file) = 1 \/ \A e \in Lost : Expired(e)

(* What a user of the store relies on at its limits: open findings are the   *)
(* last to go, and an acknowledged write is not lost in its own pruning.     *)
FairStep == LimitsHold /\ SettledGoFirst /\ TargetSurvives /\ ReadTakesOnlyExpired
EvictionIsFair == [][FairStep]_vars
=============================================================================
