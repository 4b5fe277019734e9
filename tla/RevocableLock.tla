--------------------------- MODULE RevocableLock ----------------------------
(***************************************************************************)
(* What a lock file can promise when anyone may unlink it: a lock with one *)
(* owner at most, given only when it is free. It is taken away only from a *)
(* dead owner, by a contender that looked before the owner's name could be *)
(* read, or that saw the name of one who is dead by now, and by one that   *)
(* lost it itself; the owner is not told. FileLock implements it.          *)
(***************************************************************************)
CONSTANTS Procs, NoProc, NoName

VARIABLES owner,     \* who made the lock last, alive or dead, or NoProc
          signed,    \* its name can be read
          dead,      \* who will not come back
          looking,   \* contenders that looked and have not decided
          saw,       \* the name each of them read, or NoName
          revoked    \* who lost the lock and still runs the code it protects

vars == <<owner, signed, dead, looking, saw, revoked>>

Init == /\ owner = NoProc /\ signed = FALSE /\ dead = {}
        /\ looking = {} /\ saw = [p \in Procs |-> NoName] /\ revoked = {}

Acquire(p) == /\ owner = NoProc /\ p \notin revoked \cup dead \cup looking
              /\ owner' = p /\ signed' = FALSE
              /\ UNCHANGED <<dead, looking, saw, revoked>>

Sign(p) == p = owner /\ p \notin dead /\ signed' = TRUE
           /\ UNCHANGED <<owner, dead, looking, saw, revoked>>

Look(p) == /\ p \notin revoked \cup dead \cup looking /\ looking' = looking \cup {p}
           /\ saw' = [saw EXCEPT ![p] = IF signed THEN owner ELSE NoName]
           /\ UNCHANGED <<owner, signed, dead, revoked>>

TurnAway(p) == p \in looking /\ looking' = looking \ {p}
               /\ UNCHANGED <<owner, signed, dead, saw, revoked>>

\* The lock is free again, whoever had it; a living owner goes on without it.
Free(others) == /\ owner' = NoProc /\ signed' = FALSE
                /\ revoked' = others \cup ({owner} \cap (Procs \ dead))

\* A contender decides by what it saw: never against a name it read of one alive.
Revoke(p) == /\ p \in looking /\ saw[p] \in dead \cup {NoName}
             /\ Free(revoked) /\ looking' = looking \ {p} /\ UNCHANGED <<dead, saw>>

\* The owner releases it, or a process that lost it finishes and touches nothing ...
Leave(p) == /\ p \notin dead
            /\ \/ p = owner /\ owner' = NoProc /\ signed' = FALSE /\ UNCHANGED revoked
               \/ p \in revoked /\ revoked' = revoked \ {p} /\ UNCHANGED <<owner, signed>>
            /\ UNCHANGED <<dead, looking, saw>>

\* ... or takes it away from the next owner with its own release.
LeaveAndRevoke(p) == p \in revoked /\ Free(revoked \ {p}) /\ UNCHANGED <<dead, looking, saw>>

\* The lock of the dead stays.
Die(p) == /\ dead' = dead \cup {p} /\ looking' = looking \ {p} /\ revoked' = revoked \ {p}
          /\ UNCHANGED <<owner, signed, saw>>

Next == \E p \in Procs : \/ Acquire(p) \/ Sign(p) \/ Look(p) \/ TurnAway(p) \/ Revoke(p)
                         \/ Leave(p) \/ LeaveAndRevoke(p) \/ Die(p)

Spec == Init /\ [][Next]_vars
=============================================================================
