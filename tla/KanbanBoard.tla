---------------------------- MODULE KanbanBoard ------------------------------
\* The board as its commands leave it over a long time: rows under T<max+1> ids, which are
\* given again once the highest row is gone; `Blocked By' names ids, not tasks; a plan file
\* is named for its id, is made after the board is unlocked and stays when the row goes.
\* (Columns that no command reads, `Blocks' among them, and the order of candidates, by
\* priority and id, are left out. BoardClaims has the lock and compose's leases.)
EXTENDS Naturals, FiniteSets, FiniteSetsExt, Functions

CONSTANTS
  Users,
  MaxId,          \* bound: ids
  MaxAdds         \* bound: calls of `at kanban add'

Ids == 1..MaxId
None == 0
Nothing == <<None, None>>

VARIABLES
  rows,           \* the rows, by id; of the history: the task, and the one it waits for
  plans,          \* the plan files, by the id in their names: whose they are
  pending,        \* of a user: the id and the task a command is still to make the plan of
  base,           \* the board at the commit a range starts from: tasks by id
  born,           \* history: tasks added
  reused,         \* history: ids given a second time
  cut,            \* history: ids whose plan a command did not get to make
  adds

history == <<born, reused, cut>>
vars == <<rows, plans, pending, base, adds, history>>

Statuses == {"Backlog", "In Progress", "Blocked", "Done"}
With(status) == {i \in DOMAIN rows : rows[i].status = status}

-----------------------------------------------------------------------------
\* Mutant: a blocker that is not on the board blocks.
UnknownBlocks(i) == rows[i].by = None \/ (rows[i].by \in DOMAIN rows /\ rows[rows[i].by].status = "Done")
\* Done, or not on the board: "a stale reference must not freeze the board".
IsUnblocked(i) == rows[i].by \notin DOMAIN rows \/ rows[rows[i].by].status = "Done"

BacklogCandidates == {i \in With("Backlog") : IsUnblocked(i)}
NextExecutable == IF With("In Progress") # {} THEN With("In Progress") ELSE BacklogCandidates

-----------------------------------------------------------------------------
NextId == Max({0} \cup DOMAIN rows) + 1

TaskOf(i) == IF i \in DOMAIN rows THEN rows[i].task ELSE None

\* What an id that was on the board before left behind: a plan, or one on its way, a row of
\* the base, and rows that wait for it.
OnRecord(i) ==
  \/ plans[i] # None \/ i \in DOMAIN base \/ \E u \in Users : pending[u][1] = i
  \/ \E j \in DOMAIN rows : rows[j].by = i /\ rows[j].meant # None

\* at kanban add, for an id that is on the board (only the fields given change, the status
\* never does) or not. Keywords need a plan: one is linked if the row has none.
OpAdd(u, i, by, keywords) ==
  /\ pending[u] = Nothing /\ i \in Ids
  /\ LET new == i \notin DOMAIN rows
         old == IF new THEN [status |-> "Backlog", by |-> None, plan |-> FALSE, task |-> born + 1, meant |-> None]
                ELSE rows[i]
         edge == IF by = None THEN old
                 ELSE [old EXCEPT !.by = by, !.meant = IF by = i THEN old.task ELSE TaskOf(by)]
         row == [edge EXCEPT !.plan = @ \/ keywords]
     IN /\ adds < MaxAdds /\ adds' = adds + 1
        /\ rows' = [j \in DOMAIN rows \cup {i} |-> IF j = i THEN row ELSE rows[j]]
        /\ pending' = [pending EXCEPT ![u] = IF row.plan THEN <<i, row.task>> ELSE Nothing]
        /\ IF new THEN /\ born' = born + 1
                       /\ reused' = IF OnRecord(i) THEN reused \cup {i} ELSE reused
                       /\ cut' = cut \ {i}
           ELSE UNCHANGED history
        /\ UNCHANGED <<plans, base>>

Add(u) == \E by \in Ids \cup {None}, keywords \in BOOLEAN : OpAdd(u, NextId, by, keywords)
AddWithId(u) == \E i \in Ids, by \in Ids \cup {None}, keywords \in BOOLEAN : OpAdd(u, i, by, keywords)

\* The plan file, after the lock: a skeleton if there is no file of that name.
EnsurePlanFile(u) ==
  /\ pending[u] # Nothing /\ pending' = [pending EXCEPT ![u] = Nothing]
  /\ LET i == pending[u][1]
     IN plans' = IF plans[i] = None THEN [plans EXCEPT ![i] = pending[u][2]] ELSE plans
  /\ UNCHANGED <<rows, base, adds, history>>

Interrupt(u) ==
  /\ pending[u] # Nothing /\ pending' = [pending EXCEPT ![u] = Nothing] /\ cut' = cut \cup {pending[u][1]}
  /\ UNCHANGED <<rows, plans, base, adds, born, reused>>

OpStatus(i, status) ==
  /\ i \in DOMAIN rows /\ rows[i].status # status
  /\ rows' = [rows EXCEPT ![i].status = status]
  /\ UNCHANGED <<plans, pending, base, adds, history>>

\* at kanban next --start.
OpNext == /\ With("In Progress") = {}
          /\ \E i \in NextExecutable : OpStatus(i, "In Progress")

Without(gone) == /\ gone # {} /\ rows' = Restrict(rows, DOMAIN rows \ gone)
                 /\ UNCHANGED <<plans, pending, base, adds, history>>
OpRemove(i) == i \in DOMAIN rows /\ Without({i})
OpClean == Without(With("Done"))

\* The commit that `at kanban guard' is told to start from.
Commit == /\ base = <<>> /\ rows # <<>>
          /\ base' = [i \in DOMAIN rows |-> rows[i].task]
          /\ UNCHANGED <<rows, plans, pending, adds, history>>
\* What git shows of the base: the ids, or nothing when `git show' fails, for whatever reason.
Shown == {DOMAIN base, {}}
\* No id it is shown is missing. (The trailer that permits it is left out.)
GuardKanban(shown) == shown \subseteq DOMAIN rows
\* The tasks dropped since the base that it says nothing of.
Overlooked(shown) == {i \in DOMAIN base : GuardKanban(shown) /\ TaskOf(i) # base[i]}

Init == /\ rows = <<>> /\ base = <<>> /\ plans = [i \in Ids |-> None] /\ pending = [u \in Users |-> Nothing]
        /\ born = 0 /\ reused = {} /\ cut = {} /\ adds = 0

Next ==
  \/ \E u \in Users : Add(u) \/ AddWithId(u) \/ EnsurePlanFile(u) \/ Interrupt(u)
  \/ \E i \in Ids : \/ OpRemove(i)
                    \/ \E s \in Statuses : OpStatus(i, s)
  \/ OpNext \/ OpClean \/ Commit

Spec == Init /\ [][Next]_vars

-----------------------------------------------------------------------------
\* at kanban lint: a plan that is not there. (What is in a plan is left out.)
LintViolations == {i \in DOMAIN rows : rows[i].plan /\ plans[i] = None}

TypeOK ==
  /\ DOMAIN rows \subseteq Ids
  /\ \A i \in DOMAIN rows : rows[i] \in [status : Statuses, by : Ids \cup {None}, plan : BOOLEAN,
                                         task : 1..MaxAdds, meant : 0..MaxAdds]
  /\ plans \in [Ids -> 0..MaxAdds] /\ DOMAIN base \subseteq Ids
  /\ pending \in [Users -> (Ids \X (1..MaxAdds)) \cup {Nothing}]
  /\ born \in 0..MaxAdds /\ reused \subseteq Ids /\ cut \subseteq Ids /\ adds \in 0..MaxAdds

\* A row that waits for the task it was meant to, an older one, or for none.
Sound(i) == rows[i].by \in DOMAIN rows => TaskOf(rows[i].by) = rows[i].meant /\ rows[i].meant < rows[i].task

\* As long as every row waits for the task it was meant to, an older one, the board is
\* drained only when nothing is left in Backlog, or a Blocked task holds it up.
NeverFrozen ==
  (\A i \in DOMAIN rows : Sound(i)) /\ With("Backlog") # {} => NextExecutable # {} \/ With("Blocked") # {}

\* A row comes to wait for another task than it was meant to, and to have the plan of
\* another task, only when an id has been given a second time; nor does the guard overlook
\* a task that was dropped, but of those git does not show it: a `git show' that fails, for a
\* base that is not there, is as good to it as an empty board.
StrangersNeedReuse ==
  /\ \A i \in DOMAIN rows :
       /\ rows[i].meant # None /\ rows[i].by \in DOMAIN rows /\ TaskOf(rows[i].by) # rows[i].meant
            => rows[i].by \in reused
       /\ rows[i].plan /\ plans[i] # None /\ plans[i] # rows[i].task => i \in reused
  /\ \A shown \in Shown : Overlooked(shown) \subseteq reused \cup (DOMAIN base \ shown)

\* Lint finds a plan missing only while a command is about to make it or was cut off.
MissingIsUnfinished == LintViolations \subseteq cut \cup {pending[u][1] : u \in Users}

BoardStaysWorkable == NeverFrozen /\ StrangersNeedReuse /\ MissingIsUnfinished
=============================================================================
