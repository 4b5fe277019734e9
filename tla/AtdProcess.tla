----------------------------- MODULE AtdProcess -----------------------------
(***************************************************************************)
(* The life of the Go daemon (web-server/internal/daemon/daemon.go and     *)
(* cmd/atd/main.go) and the CLI's calls to it (src/daemon-client.ts):      *)
(* several processes may be started on one socket path and one pid file.   *)
(* What the caches answer is module HotCache.                              *)
(***************************************************************************)
EXTENDS Naturals, FiniteSets

CONSTANTS
    Daemons,    \* atd processes ever started, by hand or by a CLI call
    Clients     \* CLI calls in progress

VARIABLES
    st,         \* daemon -> "off", "checked", "bound", "up", "deaf" or "dead"
    sock,       \* whose listening socket the path names, None if there is no file
    pidFile,    \* whose pid the pid file holds, None if there is no file
    call,       \* client -> the daemon it talks to and how far the request is
    rivals      \* daemon -> another one has lived at some time since its start (history)

vars == <<st, sock, pidFile, call, rivals>>

None == "none"
NoCall == [to |-> None, pc |-> "idle"]
Alive(d) == st[d] \notin {"off", "dead"}
Listens(d) == st[d] \in {"bound", "up"}

Init ==
    /\ st = [d \in Daemons |-> "off"]
    /\ sock = None
    /\ pidFile = None
    /\ call = [c \in Clients |-> NoCall]
    /\ rivals = [d \in Daemons |-> FALSE]

\* The connections of a daemon which has died, or closed them, are gone.
Hangup(d) == [c \in Clients |-> IF call[c].to = d THEN NoCall ELSE call[c]]

-----------------------------------------------------------------------------
\* Start: checkSingleInstance reads the pid file, removes the socket whatever it
\* found and always agrees; Start removes it once more.
Start(d) ==
    /\ st[d] = "off"
    /\ st' = [st EXCEPT ![d] = "checked"]
    /\ sock' = None
    /\ rivals' = [e \in Daemons |->
                    \/ rivals[e]
                    \/ e = d /\ \E f \in Daemons : Alive(f)
                    \/ e # d /\ Alive(e)]
    /\ UNCHANGED <<pidFile, call>>

\* net.Listen fails when another start bound the path in between: exit 1.
Bind(d) ==
    /\ st[d] = "checked"
    /\ st' = [st EXCEPT ![d] = IF sock = None THEN "bound" ELSE "dead"]
    /\ sock' = IF sock = None THEN d ELSE sock
    /\ UNCHANGED <<pidFile, call, rivals>>

(* Mutant: the pid file is left as it was found. *)
ServeUnannounced(d) ==
    /\ st[d] = "bound"
    /\ st' = [st EXCEPT ![d] = "up"]
    /\ UNCHANGED <<sock, pidFile, call, rivals>>

\* The pid file, the caches, the idle timer, the accept loop.
Serve(d) ==
    /\ st[d] = "bound"
    /\ st' = [st EXCEPT ![d] = "up"]
    /\ pidFile' = d
    /\ UNCHANGED <<sock, call, rivals>>

\* idleExit, of the idle timer or of a stop command: closing a Go listener
\* unlinks its path, whoever's it is by now; the pid file goes too and the
\* caches are nil.  The process lives on, and the timer that is still running
\* (or a second stop on an open connection) comes here again.
IdleExit(d) ==
    /\ st[d] \in {"up", "deaf"}
    /\ st' = [st EXCEPT ![d] = "deaf"]
    /\ sock' = IF st[d] = "up" THEN None ELSE sock
    /\ pidFile' = None
    /\ UNCHANGED <<call, rivals>>

\* main returns on a signal, or idle-ms after the start however busy it was:
\* nothing is cleaned up.
Exit(d) ==
    /\ Listens(d) \/ st[d] = "deaf"
    /\ st' = [st EXCEPT ![d] = "dead"]
    /\ call' = Hangup(d)
    /\ UNCHANGED <<sock, pidFile, rivals>>

-----------------------------------------------------------------------------
\* connectDaemon: no file, or nobody behind it, is an answer of its own (null).
Connect(c) ==
    /\ call[c].pc = "idle"
    /\ sock # None /\ Listens(sock)
    /\ call' = [call EXCEPT ![c] = [to |-> sock, pc |-> "sent"]]
    /\ UNCHANGED <<st, sock, pidFile, rivals>>

\* serveCache looks whether there are caches, without a lock ...
Handle(c) ==
    /\ call[c].pc = "sent"
    /\ st[call[c].to] \in {"up", "deaf"}
    /\ call' = [call EXCEPT ![c] = IF st[call[c].to] = "up" THEN [@ EXCEPT !.pc = "get"] ELSE NoCall]
    /\ UNCHANGED <<st, sock, pidFile, rivals>>

\* ... and then uses them: nil by then, the daemon panics.
Get(c) ==
    LET d == call[c].to IN
    /\ call[c].pc = "get"
    /\ IF st[d] = "up"
       THEN /\ call' = [call EXCEPT ![c] = NoCall]
            /\ UNCHANGED st
       ELSE /\ call' = Hangup(d)
            /\ st' = [st EXCEPT ![d] = "dead"]
    /\ UNCHANGED <<sock, pidFile, rivals>>

\* No answer within the timeout: the caller reads the files itself.
GiveUp(c) ==
    /\ call[c].pc # "idle"
    /\ call' = [call EXCEPT ![c] = NoCall]
    /\ UNCHANGED <<st, sock, pidFile, rivals>>

Next ==
    \/ \E d \in Daemons : Start(d) \/ Bind(d) \/ Serve(d) \/ IdleExit(d) \/ Exit(d)
    \/ \E c \in Clients : Connect(c) \/ Handle(c) \/ Get(c) \/ GiveUp(c)

Spec == Init /\ [][Next]_vars

-----------------------------------------------------------------------------
TypeOK ==
    /\ st \in [Daemons -> {"off", "checked", "bound", "up", "deaf", "dead"}]
    /\ sock \in Daemons \union {None}
    /\ pidFile \in Daemons \union {None}
    /\ call \in [Clients -> [to : Daemons \union {None}, pc : {"idle", "sent", "get"}]]
    /\ rivals \in [Daemons -> BOOLEAN]

\* Whatever socket and pid file the daemons before it left behind, one which has
\* had no other beside it since its start is found by the CLI: both files are
\* its own while it serves.  (With a rival neither need be: the second start of
\* TestSingleInstanceRefusesSecondStart is not refused.)
LoneDaemonIsFound ==
    \A d \in Daemons : (st[d] = "up" /\ ~rivals[d]) => sock = d /\ pidFile = d
=============================================================================
