------------------------------ MODULE DaemonHub ------------------------------
(***************************************************************************)
(* The hub daemon `at serve --daemon' and its clients                      *)
(* (src/notify/daemon-sock.ts, src/commands/serve.ts): a unix socket which *)
(* several daemons may try to serve, requests with a timeout, and what the *)
(* client does when no answer comes.                                       *)
(*                                                                         *)
(* A "write" client asks for one broker operation after the other          *)
(* (state.pick, runs.add, runs.update ...) and applies one the daemon does *)
(* not confirm itself, under the same file lock; an operation is one step  *)
(* here (module FileLock).  An "emit" client publishes the events of a run *)
(* in order, and a failed emit is given up (startDaemonBackedHub).         *)
(***************************************************************************)
EXTENDS Naturals, Sequences

CONSTANTS
    Daemons,        \* hub daemons started, by hand or by autostartDaemon
    Clients,        \* at processes
    Kind,           \* client -> "write" or "emit"
    MaxOps          \* bound: operations or events of one client

VARIABLES
    st,             \* daemon -> "off", "probe", "replace", "bind", "up", "closing", "dead"
    sock,           \* the daemon whose listener the path names, None if no file
    pc,             \* client -> "idle", "sent", "fallback"
    op,             \* client -> number of the operation under way, or last done
    frames,         \* requests written to a connection and not handled: <<client, op, daemon>>
    answers,        \* replies under way: <<client, op, ok>>
    applied,        \* operations in the order they were applied (history)
    gaveUp          \* requests whose connection failed or timed out (history)

vars == <<st, sock, pc, op, frames, answers, applied, gaveUp>>

None == "none"
Listens(d) == st[d] = "up"
Runs(d) == st[d] \in {"up", "closing"}

Init ==
    /\ st = [d \in Daemons |-> "off"]
    /\ \E stale \in BOOLEAN : sock = IF stale THEN "stale" ELSE None
    /\ pc = [c \in Clients |-> "idle"]
    /\ op = [c \in Clients |-> 0]
    /\ frames = {}
    /\ answers = {}
    /\ applied = <<>>
    /\ gaveUp = {}

clientVars == <<pc, op, frames, answers, applied, gaveUp>>

Live(s) == s \in Daemons /\ Listens(s)

-----------------------------------------------------------------------------
(* startDaemonServer: each file system call is a step *)

\* existsSync(sockPath)
LookForSocket(d) ==
    /\ st[d] = "off"
    /\ st' = [st EXCEPT ![d] = IF sock = None THEN "bind" ELSE "probe"]
    /\ UNCHANGED <<sock, clientVars>>

\* socketIsLive: a daemon that answers the connect is left alone.
Probe(d) ==
    /\ st[d] = "probe"
    /\ st' = [st EXCEPT ![d] = IF Live(sock) THEN "dead" ELSE "replace"]
    /\ UNCHANGED <<sock, clientVars>>

\* unlinkQuietly: what is at the path now, not what was probed.
RemoveStale(d) ==
    /\ st[d] = "replace"
    /\ st' = [st EXCEPT ![d] = "bind"]
    /\ sock' = None
    /\ UNCHANGED clientVars

\* listen: EADDRINUSE if another daemon was quicker.
Bind(d) ==
    /\ st[d] = "bind"
    /\ st' = [st EXCEPT ![d] = IF sock = None THEN "up" ELSE "dead"]
    /\ sock' = IF sock = None THEN d ELSE sock
    /\ UNCHANGED clientVars

\* close: connections are destroyed and the path is unlinked, whoever's it is;
\* handlers under way go on until the process exits.
Close(d) ==
    /\ st[d] = "up"
    /\ st' = [st EXCEPT ![d] = "closing"]
    /\ sock' = None
    /\ UNCHANGED clientVars

\* The process ends, after close or by a crash, which leaves the socket file.
Die(d) ==
    /\ Runs(d)
    /\ st' = [st EXCEPT ![d] = "dead"]
    /\ frames' = {f \in frames : f[3] # d}
    /\ UNCHANGED <<sock, pc, op, answers, applied, gaveUp>>

\* createDaemonHandler: the operation is applied and confirmed, or it fails (no
\* file lock in time, bad payload) and nothing is applied.  The reply of a
\* closing daemon, and one to a client that has hung up, goes nowhere.
Handle(f) ==
    LET d == f[3] IN
    /\ f \in frames
    /\ Runs(d)
    /\ frames' = frames \ {f}
    /\ \E ok \in BOOLEAN :
         /\ applied' = IF ok THEN Append(applied, <<f[1], f[2]>>) ELSE applied
         /\ answers' = IF Listens(d) /\ pc[f[1]] = "sent" /\ op[f[1]] = f[2]
                       THEN answers \union {<<f[1], f[2], ok>>} ELSE answers
    /\ UNCHANGED <<st, sock, pc, op, gaveUp>>

-----------------------------------------------------------------------------
(* The clients *)

(* Mutant: a writer takes a request that failed for done. *)
WithoutAnswerNothing(c) == "idle"

\* The hub of a run drops the event, a writer does its own locked write.
WithoutAnswer(c) == IF Kind[c] = "write" THEN "fallback" ELSE "idle"

\* brokerRunStore and emitViaDaemon: the socket is looked for, connected and
\* written to; no socket, or nobody behind it, is a null answer at once.
Request(c) ==
    /\ pc[c] = "idle"
    /\ op[c] < MaxOps
    /\ op' = [op EXCEPT ![c] = @ + 1]
    /\ IF Live(sock)
       THEN /\ frames' = frames \union {<<c, op[c] + 1, sock>>}
            /\ pc' = [pc EXCEPT ![c] = "sent"]
       ELSE /\ pc' = [pc EXCEPT ![c] = WithoutAnswer(c)]
            /\ UNCHANGED frames
    /\ UNCHANGED <<st, sock, answers, applied, gaveUp>>

\* The answer: a refusal sends a writer to its own locked path; the hub of a run
\* only warns that the event was dropped.
Answer(c) ==
    /\ pc[c] = "sent"
    /\ \E ok \in BOOLEAN :
         /\ <<c, op[c], ok>> \in answers
         /\ pc' = [pc EXCEPT ![c] = IF ok THEN "idle" ELSE WithoutAnswer(c)]
    /\ answers' = {a \in answers : a[1] # c}
    /\ UNCHANGED <<st, sock, op, frames, applied, gaveUp>>

\* No answer in time, or the connection is closed: the frame may be in the
\* daemon's hands all the same.
Timeout(c) ==
    /\ pc[c] = "sent"
    /\ pc' = [pc EXCEPT ![c] = WithoutAnswer(c)]
    /\ answers' = {a \in answers : a[1] # c}
    /\ gaveUp' = gaveUp \union {<<c, op[c]>>}
    /\ UNCHANGED <<st, sock, op, frames, applied>>

\* addRunLocal, updateRunLocal, pickAgent's own locked section
ApplyLocally(c) ==
    /\ pc[c] = "fallback"
    /\ pc' = [pc EXCEPT ![c] = "idle"]
    /\ applied' = Append(applied, <<c, op[c]>>)
    /\ UNCHANGED <<st, sock, op, frames, answers, gaveUp>>

Next ==
    \/ \E d \in Daemons : \/ LookForSocket(d) \/ Probe(d) \/ RemoveStale(d) \/ Bind(d)
                          \/ Close(d) \/ Die(d)
    \/ \E f \in frames : Handle(f)
    \/ \E c \in Clients : Request(c) \/ Answer(c) \/ Timeout(c) \/ ApplyLocally(c)

Spec == Init /\ [][Next]_vars

-----------------------------------------------------------------------------
Ops == Clients \X (1..MaxOps)

\* The places of an operation among those applied: none, one or more.
Times(o) == {n \in DOMAIN applied : applied[n] = o}

TypeOK ==
    /\ st \in [Daemons -> {"off", "probe", "replace", "bind", "up", "closing", "dead"}]
    /\ sock \in Daemons \union {None, "stale"}
    /\ pc \in [Clients -> {"idle", "sent", "fallback"}]
    /\ op \in [Clients -> 0..MaxOps]
    /\ frames \subseteq Clients \X (1..MaxOps) \X Daemons
    /\ answers \subseteq Clients \X (1..MaxOps) \X BOOLEAN
    /\ applied \in Seq(Ops)
    /\ gaveUp \subseteq Ops

\* A write which has returned was applied, whatever happened to the daemon
\* (run-store.ts:121: the run is never silently dropped), and it was applied
\* once, unless the client had given up on a request which the daemon still
\* carried out: then twice, and never more.
WritesApplied ==
    \A c \in Clients : Kind[c] = "write" =>
        \A i \in 1..op[c] :
            /\ i < op[c] \/ pc[c] = "idle" => Times(<<c, i>>) # {}
            /\ \A m, n \in Times(<<c, i>>) : m = n \/ <<c, i>> \in gaveUp
            /\ \A l, m, n \in Times(<<c, i>>) : l = m \/ m = n \/ l = n

\* The events of one run are published at most once and in the order they were
\* queued; only an emit the run had given up on can be overtaken.
EmitsInOrder ==
    \A c \in Clients : Kind[c] = "emit" =>
        /\ \A i \in 1..op[c] : \A m, n \in Times(<<c, i>>) : m = n
        /\ \A i, j \in 1..op[c] : i < j /\ <<c, i>> \notin gaveUp =>
              \A m \in Times(<<c, i>>), n \in Times(<<c, j>>) : m < n

\* What a request to a daemon that may vanish comes to, for writers and for runs.
RequestsTakeEffect == WritesApplied /\ EmitsInOrder
=============================================================================
