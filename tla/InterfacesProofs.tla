-------------------------- MODULE InterfacesProofs --------------------------
(***************************************************************************)
(* Proofs about the web page, for any number of requests, agents, lists,   *)
(* runs, sessions and entries of history: what the proxy answers, what the *)
(* rows of the agents show, that the address is that of what is shown, and *)
(* which run's log and questions the details are. The properties mostly    *)
(* speak of moments of rest; each invariant says what is known while       *)
(* something is under way: of a request at every step of its child, of a   *)
(* row while a toggle or a list is pending, of every entry of the history, *)
(* of a buffer while an answer is to come.                                 *)
(***************************************************************************)
EXTENDS MC_Interfaces, SequenceTheorems, TLAPS

-----------------------------------------------------------------------------
(* Requests *)

\* The envelopes a verb prints, by what was asked for, at its first step.
FirstEnvelopes(k) ==
  CASE k = "say" -> {"none", "OK"}
    [] k = "answer" -> {"none", "USAGE"}
    [] k \in {"stop", "kill"} -> {"none", "NOT_FOUND"}
    [] k \in {"retry", "log"} -> {"none", "NOT_FOUND", "OK"}
    [] k \in {"list", "stats"} -> {"none", "OK", "INTERNAL"}
    [] OTHER -> {"none"}

\* What a request has changed and printed, at each of its steps.
WhileNew(q) == did[q] = {} /\ out[q] = "none"
WhileHandled(q) == kind[q] \in {"create", "retry", "settings"} /\ did[q] = {}
WhileChild(q) ==
  /\ out[q] \in FirstEnvelopes(kind[q])
  /\ did[q] = {} \/ (kind[q] = "say" /\ did[q] = {"post"})
  /\ kind[q] = "say" /\ out[q] = "OK" => did[q] = {"post"}
  /\ kind[q] # "create"
WhileFound(q) ==
  /\ kind[q] \in {"stop", "kill"} /\ did[q] = {} /\ out[q] \in {"none", "NOT_FOUND", "OK"}
  /\ out[q] = "OK" => agent = "dead"
WhileAimed(q) ==
  kind[q] \in {"stop", "kill"} /\ did[q] = {} /\ out[q] \in {"none", "NOT_FOUND"}
WhileSignalled(q) ==
  /\ kind[q] \in {"stop", "kill"} /\ agent # "alive"
  /\ \/ did[q] = {"signal"} /\ out[q] \in {"none", "CONFLICT"}
     \/ did[q] = {"signal", "mark"} /\ out[q] = "OK"

\* What its answer says.
Truth(q) ==
  /\ answer[q] \in {400, 404} => did[q] = {}
  /\ answer[q] = 409 => did[q] = {"signal"}
  /\ answer[q] = 202 => did[q] = IF kind[q] = "say" THEN {"post"} ELSE {"start"}
  /\ answer[q] = 200 /\ kind[q] = "settings" => did[q] = {"store"}
  /\ answer[q] = 200 /\ kind[q] \in {"stop", "kill"} =>
       agent # "alive" /\ (saw[q] /\ did[q] = {} => agent = "dead")
  /\ answer[q] = 502 /\ kind[q] \in {"create", "retry"} => did[q] = {}

Progress(q) ==
  /\ phase[q] # "answered" => answer[q] = 0
  /\ phase[q] = "new" => WhileNew(q)
  /\ phase[q] = "handler" => WhileHandled(q)
  /\ phase[q] = "child" => WhileChild(q)
  /\ phase[q] = "found" => WhileFound(q)
  /\ phase[q] = "aimed" => WhileAimed(q)
  /\ phase[q] = "signalled" => WhileSignalled(q)
  /\ phase[q] = "answered" => Truth(q)

WebInv == Web!TypeOK /\ \A q \in WebCalls : Progress(q)

-----------------------------------------------------------------------------
(* Toggles *)

\* A row that is not stale shows the agent as it is; or as its toggle will have made it, and
\* the toggle remembers how it was.
Row(a) ==
  /\ request[a] = "none" => (a \in flipped <=> a \in off)
  /\ request[a] # "none" => (a \in flipped <=> a \notin before[a])
  /\ request[a] \in {"sent", "refused"} => (a \in before[a] <=> a \in off)
  /\ request[a] = "applied" => (a \in off <=> a \notin before[a])

\* The rows a rollback or a list will bring back are right, unless their agents changed since.
RollbackIsRight(b) ==
  \A a \in ToggleAgents \ (crossed[b] \cup stale \cup {b}) :
    request[a] = "none" /\ (a \in before[b] <=> a \in off)
ListIsRight(f) ==
  \A a \in ToggleAgents \ crossed[f] : request[a] = "none" /\ (a \in list[f] <=> a \in off)

Rows == \A a \in ToggleAgents \ stale : Row(a)
Rollbacks == \A b \in ToggleAgents : request[b] # "none" => RollbackIsRight(b)
Lists == \A f \in ToggleFetches : fetch[f] = "served" => ListIsRight(f)

TogglesInv == Toggles!TypeOK /\ Rows /\ Rollbacks /\ Lists

-----------------------------------------------------------------------------
(* The details of a run *)

\* The types that matter to them.
PageTypes ==
  /\ written \in [Page!Runs -> Nat] /\ (\A r \in Page!Runs : written[r] <= PageLines)
  /\ feed \in [Page!Runs -> Seq(Nat)] /\ run \in Page!Runs \cup {0}
  /\ of \in [Page!Sessions -> Page!Runs \cup {0}]
  /\ session \in Page!Sessions \cup {0} /\ viewer \in Page!Sessions \cup {0}
  /\ got \in [Page!Sessions -> Nat] /\ lines \in [Page!Sessions -> Seq(Nat)]
  /\ asks \in [Page!Sessions -> SUBSET Nat]

\* The end is told of a run that is over.
EndIsTrue ==
  \A r \in Page!Runs : \A i \in 1..Len(feed[r]) : feed[r][i] = Page!End => r \in ended

\* Only a session that was made has fetched or heard anything, and it heard what there is.
SessionsAreMade ==
  /\ session # 0 => of[session] # 0
  /\ \A s \in Page!Sessions :
       /\ got[s] > 0 \/ asks[s] # {} => of[s] # 0
       /\ of[s] # 0 => got[s] <= Len(feed[of[s]])

\* After the end was told last, only answers with the whole log are to come.
Complete(s) ==
  of[s] # 0 /\ got[s] > 0 /\ feed[of[s]][got[s]] = Page!End =>
    /\ asks[s] \subseteq {Page!Asked, written[of[s]]}
    /\ asks[s] = {} => lines[s] = Page!AllLines(written[of[s]])
Buffers == \A s \in Page!Sessions \ excused : Complete(s)

\* The panels are there while the view shows a run, and list its questions or will.
Panels ==
  /\ ~open => session = 0 /\ viewer = 0
  /\ viewer # 0 =>
       /\ open /\ run # 0 /\ session # 0 /\ of[session] = run
       /\ ~switched => viewer = session /\ pending \in {0, run} /\ loads \subseteq {run}
       /\ ~overtaken => loads \subseteq {run} /\ (loads = {} => pending = run)

PageInv == PageTypes /\ EndIsTrue /\ SessionsAreMade /\ Buffers /\ Panels

-----------------------------------------------------------------------------
(* The address *)

\* Entries of the history: the first has a path and no state, the others the path and the state
\* of a view and its run.
PathNames == {"/", "/runs", "/runs/", "/nope"} \cup RouterViews
StateNames == {"none"} \cup RouterViews
Entry == [path : PathNames \X Nat, state : StateNames \X Nat]
Of(v, r) == IF v = "run-details" THEN r ELSE 0
Good(e) ==
  \/ /\ e.state = Router!NoState
     /\ e.path \in {<<"/", 0>>, <<"/runs/", 1>>, Router!Alias, Router!Unknown}
  \/ \E v \in RouterViews, r \in Nat :
       e.path = Router!FormatPath(v, r) /\ e.state = <<v, Of(v, r)>>

InOrder(h) ==
  /\ h = [entries |-> h.entries, at |-> h.at]
  /\ h.entries \in Seq(Entry) /\ h.at \in 1..Len(h.entries)
  /\ \A i \in 1..Len(h.entries) : Good(h.entries[i])
Now == [entries |-> hist, at |-> at]

\* The types that matter to it.
RouterTypes ==
  view \in RouterViews \cup {"not-found"} /\ {picked, listed, made, mine} \subseteq Nat

\* While no one else's runs are new to the page, the task's run is the newest.
NewestIsMine == task # "none" /\ ~others /\ mine # 0 => mine = made

RouterInv == RouterTypes /\ InOrder(Now) /\ Router!ShowsItsAddress /\ NewestIsMine

-----------------------------------------------------------------------------
(* Requests: the proof *)

\* What a request knows survives whatever leaves the request itself alone and brings no agent
\* back.
LEMMA OthersProgress ==
    ASSUME NEW q \in WebCalls, Progress(q),
           UNCHANGED <<kind[q], phase[q], saw[q], out[q], answer[q], did[q]>>,
           agent = "dead" => agent' = "dead", agent # "alive" => agent' # "alive"
    PROVE  Progress(q)'
BY DEF Progress, WhileNew, WhileHandled, WhileChild, WhileFound, WhileAimed, WhileSignalled,
   Truth, FirstEnvelopes

\* The steps leave every variable with its type.
LEMMA WebTypeInductive == Web!TypeOK /\ [Web!Next]_webVars => Web!TypeOK'
<1> SUFFICES ASSUME Web!TypeOK, [Web!Next]_webVars PROVE Web!TypeOK'
  OBVIOUS
<1> USE DEF Web!TypeOK, Web!world, Web!Goes, Web!Does, Web!Prints, Web!Answers
<1>1. CASE UNCHANGED webVars
  BY <1>1 DEF webVars
<1>2. ASSUME NEW q \in WebCalls, NEW k \in WebKinds, Web!Send(q, k) PROVE Web!TypeOK'
  <2>1. Web!Route(k) \in {"handler", "child"}
    BY DEF Web!Route
  <2>2. /\ kind' \in [WebCalls -> WebKinds \cup {"none"}]
        /\ phase' \in [WebCalls -> Web!Working \cup {"new", "handler", "answered"}]
    BY <1>2, <2>1 DEF Web!Send, Web!Working
  <2> QED
    BY <1>2, <2>1, <2>2 DEF Web!Send
<1>21. ASSUME NEW q \in WebCalls, NEW k \in WebKinds, Web!Refuse(q, k) PROVE Web!TypeOK'
  <2>1. kind' \in [WebCalls -> WebKinds \cup {"none"}]
    BY <1>21 DEF Web!Refuse
  <2> QED
    BY <1>21, <2>1 DEF Web!Refuse
<1>3. ASSUME NEW q \in WebCalls, Web!Spawn(q) \/ Web!Store(q) \/ Web!Kill(q) PROVE Web!TypeOK'
  BY <1>3 DEF Web!Spawn, Web!Store, Web!Kill
<1>4. ASSUME NEW q \in WebCalls,
             Web!Get(q) \/ Web!List(q) \/ Web!Say(q) \/ Web!Said(q) \/ Web!Reject(q)
      PROVE  Web!TypeOK'
  BY <1>4 DEF Web!Get, Web!List, Web!Say, Web!Said, Web!Reject
<1>5. ASSUME NEW q \in WebCalls, Web!Look(q) PROVE Web!TypeOK'
  <2>1. \A b \in BOOLEAN : [saw EXCEPT ![q] = b] \in [WebCalls -> BOOLEAN]
    OBVIOUS
  <2>2. saw' = saw \/ saw' = [saw EXCEPT ![q] = (agent # "dead")]
    BY <1>5, Zenon DEF Web!Look
  <2>3. (agent # "dead") \in BOOLEAN
    BY Zenon
  <2>4. saw' \in [WebCalls -> BOOLEAN]
    <3>1. [saw EXCEPT ![q] = (agent # "dead")] \in [WebCalls -> BOOLEAN]
      BY <2>1, <2>3
    <3>2. saw \in [WebCalls -> BOOLEAN]
      OBVIOUS
    <3> HIDE DEF Web!TypeOK
    <3> QED
      BY <2>2, <3>1, <3>2, Zenon
  <2> QED
    BY <1>5, <2>4 DEF Web!Look, Web!Working
<1>53. ASSUME NEW q \in WebCalls, Web!LookAgain(q) PROVE Web!TypeOK'
  BY <1>53 DEF Web!LookAgain, Web!Working
<1>51. ASSUME NEW q \in WebCalls, Web!Signal(q) PROVE Web!TypeOK'
  <2>1. did' \in [WebCalls -> SUBSET {"start", "store", "post", "signal", "mark"}]
    BY <1>51 DEF Web!Signal
  <2> QED
    BY <1>51, <2>1 DEF Web!Signal, Web!Working
<1>52. ASSUME NEW q \in WebCalls, Web!Mark(q) PROVE Web!TypeOK'
  <2>1. did' \in [WebCalls -> SUBSET {"start", "store", "post", "signal", "mark"}]
    BY <1>52 DEF Web!Mark
  <2> QED
    BY <1>52, <2>1 DEF Web!Mark
<1>6. ASSUME NEW q \in WebCalls, Web!Reply(q) PROVE Web!TypeOK'
  <2>1. \A c : Web!HTTPStatus(c) \in {200, 400, 404, 409, 500}
    BY DEF Web!HTTPStatus
  <2> QED
    BY <1>6, <2>1
       DEF Web!Reply, Web!HandleRetryRun, Web!HandleDeleteRun, Web!HandleRunLog, Web!HandleDiscuss,
         Web!HandleStats, Web!BridgePass, Web!Printed, Web!AnswersBy
<1>7. CASE Web!AgentEnds \/ Web!Supervise \/ Web!Prune
  BY <1>7 DEF Web!AgentEnds, Web!Supervise, Web!Prune
<1> QED
  BY <1>1, <1>2, <1>21, <1>3, <1>4, <1>5, <1>51, <1>52, <1>53, <1>6, <1>7 DEF Web!Next, Web!Verb

\* A step of one request leaves the others, but may end or signal the agent.
LEMMA OtherRequests ==
    ASSUME Web!TypeOK, NEW q \in WebCalls, NEW p \in WebCalls, p # q,
           \/ \E k \in WebKinds : Web!Send(q, k) \/ Web!Refuse(q, k)
           \/ Web!Spawn(q) \/ Web!Store(q) \/ Web!Verb(q) \/ Web!Reply(q) \/ Web!Kill(q)
    PROVE  /\ UNCHANGED <<kind[p], phase[p], saw[p], out[p], answer[p], did[p]>>
           /\ agent = "dead" => agent' = "dead"
           /\ agent # "alive" => agent' # "alive"
<1> USE DEF Web!TypeOK, Web!world, Web!Goes, Web!Does, Web!Prints, Web!Answers
<1>1. ASSUME NEW k \in WebKinds, Web!Send(q, k) \/ Web!Refuse(q, k)
      PROVE  UNCHANGED <<kind[p], phase[p], saw[p], out[p], answer[p], did[p], agent>>
  BY <1>1 DEF Web!Send, Web!Refuse
<1>2. CASE Web!Spawn(q) \/ Web!Store(q) \/ Web!Kill(q)
  BY <1>2 DEF Web!Spawn, Web!Store, Web!Kill
<1>3. CASE Web!Get(q) \/ Web!List(q) \/ Web!Say(q) \/ Web!Said(q) \/ Web!Reject(q)
  BY <1>3 DEF Web!Get, Web!List, Web!Say, Web!Said, Web!Reject
<1>4. CASE Web!Look(q) \/ Web!LookAgain(q) \/ Web!Signal(q) \/ Web!Mark(q)
  BY <1>4 DEF Web!Look, Web!LookAgain, Web!Signal, Web!Mark
<1>5. CASE Web!Reply(q)
  BY <1>5 DEF Web!Reply, Web!HandleRetryRun, Web!HandleDeleteRun, Web!HandleRunLog,
     Web!HandleDiscuss, Web!HandleStats, Web!BridgePass, Web!Printed, Web!AnswersBy
<1> QED
  BY <1>1, <1>2, <1>3, <1>4, <1>5 DEF Web!Verb

\* A request that is at work takes what it knows along.
LEMMA OwnProgress ==
    ASSUME Web!TypeOK, NEW q \in WebCalls, Progress(q),
           \/ \E k \in WebKinds : Web!Send(q, k) \/ Web!Refuse(q, k)
           \/ Web!Spawn(q) \/ Web!Store(q) \/ Web!Verb(q) \/ Web!Reply(q) \/ Web!Kill(q)
    PROVE  Progress(q)'
<1> USE DEF Web!TypeOK, Web!world, Web!Goes, Web!Does, Web!Prints, Web!Answers, Web!At, Progress,
        WhileNew, WhileHandled
<1>1. ASSUME NEW k \in WebKinds, Web!Send(q, k) PROVE Progress(q)'
  BY <1>1 DEF Web!Send, Web!Route, WhileChild, FirstEnvelopes
<1>2. ASSUME NEW k \in WebKinds, Web!Refuse(q, k) PROVE Progress(q)'
  BY <1>2 DEF Web!Refuse, Truth
<1>3. CASE Web!Spawn(q) \/ Web!Store(q)
  BY <1>3 DEF Web!Spawn, Web!Store, Truth
<1>4. CASE Web!Kill(q)
  BY <1>4 DEF Web!Kill, Web!Working, Truth, WhileChild, WhileFound, WhileAimed, WhileSignalled
<1>5. CASE Web!Get(q) \/ Web!List(q) \/ Web!Say(q) \/ Web!Said(q) \/ Web!Reject(q)
  BY <1>5 DEF Web!Get, Web!List, Web!Say, Web!Said, Web!Reject, WhileChild, FirstEnvelopes
<1>6. CASE Web!Look(q)
  BY <1>6 DEF Web!Look, WhileChild, FirstEnvelopes, WhileFound
<1>7. CASE Web!LookAgain(q)
  BY <1>7 DEF Web!LookAgain, WhileFound, WhileAimed
<1>8. CASE Web!Signal(q)
  BY <1>8 DEF Web!Signal, WhileAimed, WhileSignalled
<1>9. CASE Web!Mark(q)
  BY <1>9 DEF Web!Mark, WhileSignalled
<1>10. CASE Web!HandleRetryRun(q)
  BY <1>10 DEF Web!HandleRetryRun, Web!Printed, Web!AnswersBy, Web!HTTPStatus, Web!Working, Truth,
     WhileChild, FirstEnvelopes, WhileFound, WhileAimed, WhileSignalled
<1>11. CASE Web!HandleDeleteRun(q)
  BY <1>11 DEF Web!HandleDeleteRun, Web!Printed, Web!AnswersBy, Web!HTTPStatus, Web!Working, Truth,
     WhileChild, FirstEnvelopes, WhileFound, WhileAimed, WhileSignalled
<1>12. CASE Web!HandleDiscuss(q)
  BY <1>12 DEF Web!HandleDiscuss, Web!Printed, Web!AnswersBy, Web!HTTPStatus, Web!Working, Truth,
     WhileChild, FirstEnvelopes, WhileFound, WhileAimed, WhileSignalled
<1>13. CASE Web!HandleRunLog(q) \/ Web!HandleStats(q) \/ Web!BridgePass(q)
  BY <1>13 DEF Web!HandleRunLog, Web!HandleStats, Web!BridgePass, Web!Printed, Web!AnswersBy,
     Web!HTTPStatus, Web!Working, Truth, WhileChild, FirstEnvelopes, WhileFound, WhileAimed,
     WhileSignalled
<1> QED
  BY <1>1, <1>2, <1>3, <1>4, <1>5, <1>6, <1>7, <1>8, <1>9, <1>10, <1>11, <1>12, <1>13
     DEF Web!Verb, Web!Reply

\* So every step preserves what is known of the requests.
LEMMA WebInvInductive == WebInv /\ [Web!Next]_webVars => WebInv'
<1> SUFFICES ASSUME WebInv, [Web!Next]_webVars, NEW p \in WebCalls PROVE Progress(p)'
  BY WebTypeInductive DEF WebInv
<1>1. Web!TypeOK /\ Progress(p)
  BY DEF WebInv
<1>2. CASE UNCHANGED webVars
  BY <1>1, <1>2, OthersProgress DEF webVars
<1>3. CASE Web!AgentEnds \/ Web!Supervise \/ Web!Prune
  BY <1>1, <1>3, OthersProgress DEF Web!AgentEnds, Web!Supervise, Web!Prune
<1>4. ASSUME NEW q \in WebCalls,
             \/ \E k \in WebKinds : Web!Send(q, k) \/ Web!Refuse(q, k)
             \/ Web!Spawn(q) \/ Web!Store(q) \/ Web!Verb(q) \/ Web!Reply(q) \/ Web!Kill(q)
      PROVE  Progress(p)'
  BY <1>1, <1>4, OtherRequests, OthersProgress, OwnProgress
<1> QED
  BY <1>2, <1>3, <1>4 DEF Web!Next

-----------------------------------------------------------------------------
(* Toggles: the proof *)

\* The steps leave every variable with its type.
LEMMA TogglesTypeInductive ==
  Toggles!TypeOK /\ [Toggles!Next]_togglesVars => Toggles!TypeOK'
<1> SUFFICES ASSUME Toggles!TypeOK, [Toggles!Next]_togglesVars PROVE Toggles!TypeOK'
  OBVIOUS
<1> USE InterfacesAssumption DEF Toggles!TypeOK
<1>0. ASSUME NEW a \in ToggleAgents
      PROVE  Toggles!Cross(a) \in [ToggleAgents \cup ToggleFetches -> SUBSET ToggleAgents]
  BY DEF Toggles!Cross
<1>1. CASE UNCHANGED togglesVars
  BY <1>1 DEF togglesVars
<1>2. ASSUME NEW a \in ToggleAgents, Toggles!Toggle(a) PROVE Toggles!TypeOK'
  BY <1>0, <1>2 DEF Toggles!Toggle, Toggles!Flip, Toggles!Pending
<1>3. ASSUME NEW a \in ToggleAgents, Toggles!Apply(a) PROVE Toggles!TypeOK'
  <2>1. Toggles!Asked(a) \subseteq ToggleAgents
    BY DEF Toggles!Asked
  <2>2. crossed' \in [ToggleAgents \cup ToggleFetches -> SUBSET ToggleAgents]
    BY <1>0, <1>3 DEF Toggles!Apply
  <2> QED
    BY <1>3, <2>1, <2>2 DEF Toggles!Apply
<1>4. ASSUME NEW a \in ToggleAgents, Toggles!Answered(a) PROVE Toggles!TypeOK'
  BY <1>4 DEF Toggles!Answered, Toggles!RollBack
<1>5. ASSUME NEW a \in ToggleAgents, Toggles!Lost(a) PROVE Toggles!TypeOK'
  BY <1>0, <1>5 DEF Toggles!Lost, Toggles!Asked
<1>6. ASSUME NEW a \in ToggleAgents, Toggles!Elsewhere(a) PROVE Toggles!TypeOK'
  BY <1>6 DEF Toggles!Elsewhere, Toggles!Flip
<1>7. ASSUME NEW f \in ToggleFetches, Toggles!Refresh(f) \/ Toggles!Fail(f) PROVE Toggles!TypeOK'
  BY <1>7 DEF Toggles!Refresh, Toggles!Fail
<1>8. ASSUME NEW f \in ToggleFetches, Toggles!Serve(f) PROVE Toggles!TypeOK'
  BY <1>8 DEF Toggles!Serve, Toggles!Pending
<1>9. ASSUME NEW f \in ToggleFetches, Toggles!Set(f) PROVE Toggles!TypeOK'
  BY <1>9 DEF Toggles!Set
<1> QED
  BY <1>1, <1>2, <1>3, <1>4, <1>5, <1>6, <1>7, <1>8, <1>9 DEF Toggles!Next

\* Every step preserves what is known of the rows, the rollbacks and the lists.
LEMMA TogglesInvInductive == TogglesInv /\ [Toggles!Next]_togglesVars => TogglesInv'
<1> SUFFICES ASSUME TogglesInv, [Toggles!Next]_togglesVars
    PROVE  Rows' /\ Rollbacks' /\ Lists'
  BY TogglesTypeInductive DEF TogglesInv
<1> USE InterfacesAssumption
    DEF TogglesInv, Toggles!TypeOK, Rows, Row, Rollbacks, RollbackIsRight, Lists, ListIsRight,
        Toggles!Pending, Toggles!UnderWay
<1>1. CASE UNCHANGED togglesVars
  BY <1>1 DEF togglesVars
<1>2. ASSUME NEW a \in ToggleAgents, Toggles!Toggle(a)
      PROVE  Rows' /\ Rollbacks' /\ Lists'
  <2>1. Rows'
    BY <1>2 DEF Toggles!Toggle, Toggles!Flip
  <2>2. Rollbacks'
    BY <1>2 DEF Toggles!Toggle, Toggles!Cross
  <2>3. Lists'
    BY <1>2 DEF Toggles!Toggle, Toggles!Cross
  <2> QED
    BY <2>1, <2>2, <2>3
<1>3. ASSUME NEW a \in ToggleAgents, Toggles!Apply(a)
      PROVE  Rows' /\ Rollbacks' /\ Lists'
  <2>1. Rows'
    BY <1>3 DEF Toggles!Apply, Toggles!Asked
  <2>2. Rollbacks'
    BY <1>3 DEF Toggles!Apply, Toggles!Asked, Toggles!Cross
  <2>3. Lists'
    BY <1>3 DEF Toggles!Apply, Toggles!Asked, Toggles!Cross
  <2> QED
    BY <2>1, <2>2, <2>3
<1>4. ASSUME NEW a \in ToggleAgents, Toggles!Answered(a)
      PROVE  Rows' /\ Rollbacks' /\ Lists'
  <2>1. Rows'
    BY <1>4 DEF Toggles!Answered, Toggles!RollBack
  <2>2. Rollbacks'
    BY <1>4 DEF Toggles!Answered, Toggles!RollBack
  <2>3. Lists'
    BY <1>4 DEF Toggles!Answered
  <2> QED
    BY <2>1, <2>2, <2>3
<1>5. ASSUME NEW a \in ToggleAgents, Toggles!Lost(a)
      PROVE  Rows' /\ Rollbacks' /\ Lists'
  <2>1. Rows'
    BY <1>5 DEF Toggles!Lost, Toggles!Asked
  <2>2. Rollbacks'
    BY <1>5 DEF Toggles!Lost, Toggles!Asked, Toggles!Cross
  <2>3. Lists'
    BY <1>5 DEF Toggles!Lost, Toggles!Asked, Toggles!Cross
  <2> QED
    BY <2>1, <2>2, <2>3
<1>6. ASSUME NEW a \in ToggleAgents, Toggles!Elsewhere(a)
      PROVE  Rows' /\ Rollbacks' /\ Lists'
  BY <1>6 DEF Toggles!Elsewhere, Toggles!Flip
<1>7. ASSUME NEW f \in ToggleFetches, Toggles!Refresh(f) \/ Toggles!Serve(f) \/ Toggles!Fail(f)
      PROVE  Rows' /\ Rollbacks' /\ Lists'
  BY <1>7 DEF Toggles!Refresh, Toggles!Serve, Toggles!Fail
<1>8. ASSUME NEW f \in ToggleFetches, Toggles!Set(f)
      PROVE  Rows' /\ Rollbacks' /\ Lists'
  BY <1>8 DEF Toggles!Set
<1> QED
  BY <1>1, <1>2, <1>3, <1>4, <1>5, <1>6, <1>7, <1>8 DEF Toggles!Next

-----------------------------------------------------------------------------
(* The details of a run: the proof *)

\* Only a session that is made is of a run.
LEMMA PageSteps ==
    ASSUME PageInv
    PROVE  /\ \A r \in Page!Runs : Page!Told(r) \in Nat /\ Len(feed[r]) \in Nat
           /\ \A s \in Page!Sessions : s # 0
           /\ \A r \in Page!Runs : r # 0
           /\ PageLines \in Nat /\ Page!Asked \in Nat /\ Page!End = 0
<1>1. ASSUME NEW r \in Page!Runs PROVE Page!Told(r) \in Nat /\ Len(feed[r]) \in Nat
  BY DEF PageInv, PageTypes, Page!Told, Page!Contains
<1> QED
  BY <1>1, InterfacesAssumption DEF Page!Sessions, Page!Runs, Page!Asked, Page!End

\* The run itself.
LEMMA PageRun ==
    ASSUME PageInv, NEW r \in Page!Runs, Page!Write(r) \/ Page!Finish(r) \/ Page!Publish(r)
    PROVE  PageInv'
<1>0. Panels'
  BY DEF Panels, PageInv, Page!Write, Page!Finish, Page!Publish, Page!logVars, Page!panelVars
<1>1. CASE Page!Write(r)
  <2>1. PageTypes'
    BY <1>1, PageSteps DEF PageInv, PageTypes, Page!Write, Page!logVars
  <2>2. EndIsTrue' /\ SessionsAreMade'
    BY <1>1 DEF PageInv, EndIsTrue, SessionsAreMade, Page!Write, Page!logVars
  <2>3. ASSUME NEW s \in Page!Sessions \ excused, of[s] # 0, got[s] > 0,
               feed[of[s]][got[s]] = Page!End
        PROVE  written'[of[s]] = written[of[s]]
    <3>1. of[s] \in Page!Runs /\ got[s] \in 1..Len(feed[of[s]])
      BY <2>3 DEF PageInv, PageTypes, SessionsAreMade
    <3>2. of[s] \in ended
      BY <2>3, <3>1 DEF PageInv, EndIsTrue
    <3> QED
      BY <1>1, <3>1, <3>2 DEF PageInv, PageTypes, Page!Write
  <2>4. Buffers'
    BY <1>1, <2>3 DEF PageInv, Buffers, Complete, Page!Write, Page!logVars
  <2> QED
    BY <1>0, <2>1, <2>2, <2>4 DEF PageInv
<1>2. CASE Page!Finish(r)
  BY <1>0, <1>2
     DEF PageInv, PageTypes, EndIsTrue, SessionsAreMade, Buffers, Complete, Page!Finish,
       Page!logVars
<1>3. CASE Page!Publish(r)
  <2>1. PICK e \in Nat : feed' = [feed EXCEPT ![r] = Append(@, e)] /\ (e = Page!End => r \in ended)
    BY <1>3, PageSteps DEF Page!Publish
  <2>2. UNCHANGED <<written, ended, run, of, session, viewer, got, lines, asks, excused>>
    BY <1>3 DEF Page!Publish, Page!logVars
  <2>3. PageTypes'
    <3>1. Append(feed[r], e) \in Seq(Nat)
      BY DEF PageInv, PageTypes
    <3>2. feed \in [Page!Runs -> Seq(Nat)]
      BY DEF PageInv, PageTypes
    <3>3. feed' \in [Page!Runs -> Seq(Nat)]
      BY <2>1, <3>1, <3>2
    <3> QED
      BY <2>2, <3>3 DEF PageInv, PageTypes
  <2>4. ASSUME NEW t \in Page!Runs
        PROVE  /\ Len(feed'[t]) >= Len(feed[t])
               /\ \A i \in 1..Len(feed[t]) : feed'[t][i] = feed[t][i]
               /\ \A i \in 1..Len(feed'[t]) : i \in 1..Len(feed[t]) \/ (t = r /\ feed'[t][i] = e)
    <3>1. feed \in [Page!Runs -> Seq(Nat)]
      BY DEF PageInv, PageTypes
    <3>2. CASE t # r
      BY <2>1, <3>1, <3>2
    <3>3. CASE t = r
      <4>1. feed'[t] = Append(feed[r], e) /\ feed[r] \in Seq(Nat)
        BY <2>1, <3>1, <3>3
      <4> QED
        BY <3>3, <4>1
    <3> QED
      BY <3>2, <3>3
  <2>5. EndIsTrue'
    BY <2>1, <2>2, <2>4 DEF PageInv, EndIsTrue
  <2>6. SessionsAreMade'
    BY <2>2, <2>3, <2>4 DEF PageInv, PageTypes, SessionsAreMade
  <2>7. ASSUME NEW s \in Page!Sessions \ excused, of[s] # 0, got[s] > 0
        PROVE  feed'[of[s]][got[s]] = feed[of[s]][got[s]]
    BY <2>4, <2>7 DEF PageInv, PageTypes, SessionsAreMade
  <2>8. Buffers'
    BY <2>2, <2>7 DEF PageInv, Buffers, Complete
  <2> QED
    BY <1>0, <2>3, <2>5, <2>6, <2>8 DEF PageInv
<1> QED
  BY <1>1, <1>2, <1>3

\* A selection, the view shown, the view left.
LEMMA PageView ==
    ASSUME PageInv, (\E r \in Page!Runs \cup {0} : Page!Select(r)) \/ Page!Show \/ Page!Leave
    PROVE  PageInv'
<1>1. UNCHANGED <<written, ended, feed, got, lines, excused>>
  BY DEF Page!Select, Page!Show, Page!Leave, Page!runVars, Page!logVars
<1>2. \/ UNCHANGED <<of, asks>> /\ (session' = session \/ session' = 0)
      \/ \E s \in Page!Sessions, r \in Page!Runs :
           /\ of[s] = 0 /\ of' = [of EXCEPT ![s] = r] /\ session' = s
           /\ asks' = [asks EXCEPT ![s] = {Page!Asked}]
  <2>1. ASSUME NEW r \in Page!Runs \cup {0}, Page!React(r)
        PROVE  \/ UNCHANGED <<of, asks>> /\ (session' = session \/ session' = 0)
               \/ \E s \in Page!Sessions, t \in Page!Runs :
                    /\ of[s] = 0 /\ of' = [of EXCEPT ![s] = t] /\ session' = s
                    /\ asks' = [asks EXCEPT ![s] = {Page!Asked}]
    BY <2>1 DEF Page!React
  <2> QED
    BY <2>1 DEF Page!Select, Page!Show, Page!Leave, Page!logVars, PageInv, PageTypes
<1>3. run' \in Page!Runs \cup {0} /\ viewer' \in {0, viewer, session'}
  BY DEF Page!Select, Page!Show, Page!Leave, Page!React, Page!ShowPanels, PageInv, PageTypes
<1>4. PageTypes'
  <2>1. of' \in [Page!Sessions -> Page!Runs \cup {0}] /\ session' \in Page!Sessions \cup {0}
    BY <1>2 DEF PageInv, PageTypes
  <2>2. \A s \in Page!Sessions : [asks EXCEPT ![s] = {Page!Asked}] \in [Page!Sessions -> SUBSET Nat]
    BY PageSteps DEF PageInv, PageTypes
  <2>3. asks' \in [Page!Sessions -> SUBSET Nat]
    BY <1>2, <2>2 DEF PageInv, PageTypes
  <2> QED
    BY <1>1, <1>3, <2>1, <2>3 DEF PageInv, PageTypes
<1>5. EndIsTrue'
  BY <1>1 DEF PageInv, EndIsTrue
<1>6. SessionsAreMade' /\ Buffers'
  <2>1. CASE UNCHANGED <<of, asks>> /\ (session' = session \/ session' = 0)
    BY <1>1, <2>1 DEF PageInv, SessionsAreMade, Buffers, Complete
  <2>2. ASSUME NEW s \in Page!Sessions, NEW r \in Page!Runs,
               of[s] = 0, of' = [of EXCEPT ![s] = r], session' = s,
               asks' = [asks EXCEPT ![s] = {Page!Asked}]
        PROVE  SessionsAreMade' /\ Buffers'
    <3>1. got[s] = 0 /\ of'[s] = r /\ r # 0 /\ Len(feed[r]) \in Nat
      BY <2>2, PageSteps DEF PageInv, PageTypes, SessionsAreMade
    <3>2. \A t \in Page!Sessions : t # s => of'[t] = of[t] /\ asks'[t] = asks[t]
      BY <2>2 DEF PageInv, PageTypes
    <3>3. SessionsAreMade'
      BY <1>1, <2>2, <3>1, <3>2 DEF PageInv, SessionsAreMade
    <3>4. Buffers'
      BY <1>1, <3>1, <3>2 DEF PageInv, Buffers, Complete
    <3> QED
      BY <3>3, <3>4
  <2> QED
    BY <1>2, <2>1, <2>2
<1>7. Panels'
  <2>1. ASSUME NEW r \in Page!Runs \cup {0}, Page!React(r), run' = r, open', open \/ viewer = 0,
               viewer # 0 => run # r
        PROVE  Panels'
    <3>1. CASE r = 0
      BY <2>1, <3>1 DEF Page!React, Panels
    <3>2. CASE r # 0
      <4>1. session' # 0 /\ of'[session'] = r
        BY <2>1, <3>2, PageSteps DEF Page!React, PageInv, PageTypes
      <4>2. Page!ShowPanels(r)
        BY <2>1, <3>2 DEF Page!React
      <4> QED
        BY <2>1, <3>2, <4>1, <4>2 DEF Page!ShowPanels, Panels, PageInv
    <3> QED
      BY <3>1, <3>2
  <2>2. ASSUME NEW r \in Page!Runs \cup {0}, Page!Select(r) PROVE Panels'
    <3>1. CASE open
      BY <2>1, <2>2, <3>1 DEF Page!Select
    <3>2. CASE ~open
      BY <2>2, <3>2 DEF Page!Select, Panels, PageInv
    <3> QED
      BY <3>1, <3>2
  <2>3. CASE Page!Show
    BY <2>1, <2>3 DEF Page!Show, Panels, PageInv, PageTypes
  <2>4. CASE Page!Leave
    BY <2>4 DEF Page!Leave, Panels
  <2> QED
    BY <2>2, <2>3, <2>4
<1> QED
  BY <1>4, <1>5, <1>6, <1>7 DEF PageInv

\* The log is fetched, and events come in.
LEMMA PageLog ==
    ASSUME PageInv, NEW s \in Page!Sessions,
           \/ Page!Serve(s) \/ Page!Dispatch(s)
           \/ \E n \in 0..Page!Asked : Page!Answered(s, n) \/ Page!Failed(s, n)
    PROVE  PageInv'
<1>0. UNCHANGED <<written, ended, feed, run, open, of, session, viewer, pending, loads, switched,
                  overtaken>>
  BY DEF Page!Serve, Page!Dispatch, Page!Answered, Page!Failed, Page!runVars, Page!panelVars
<1>1. EndIsTrue' /\ Panels'
  BY <1>0 DEF PageInv, EndIsTrue, Panels
<1>2. ASSUME NEW t \in Page!Sessions, t # s
      PROVE  /\ UNCHANGED <<got[t], lines[t], asks[t]>>
             /\ t \in excused' <=> t \in excused
  BY <1>2
     DEF PageInv, PageTypes, Page!Serve, Page!Dispatch, Page!OnEvent, Page!Answered, Page!Failed
<1>3. CASE Page!Serve(s)
  <2>1. of[s] \in Page!Runs /\ written[of[s]] \in Nat /\ written[of[s]] # Page!Asked
    BY <1>3, PageSteps DEF PageInv, PageTypes, SessionsAreMade, Page!Serve, Page!Asked
  <2>2. PageTypes' /\ asks'[s] = (asks[s] \ {Page!Asked}) \cup {written[of[s]]}
    BY <1>0, <1>3, <2>1 DEF PageInv, PageTypes, Page!Serve
  <2>3. SessionsAreMade'
    BY <1>0, <1>2, <1>3, <2>1 DEF PageInv, SessionsAreMade, Page!Serve
  <2>4. Buffers'
    BY <1>0, <1>2, <1>3, <2>2 DEF PageInv, Buffers, Complete, Page!Serve
  <2> QED
    BY <1>1, <2>2, <2>3, <2>4 DEF PageInv
<1>4. CASE Page!Dispatch(s)
  <2>1. PICK r \in Page!Runs : r = of[s]
    BY <1>4, PageSteps DEF PageInv, PageTypes, SessionsAreMade, Page!Dispatch
  <2>2. /\ got[s] \in Nat /\ Len(feed[r]) \in Nat /\ got[s] < Len(feed[r])
        /\ feed[r][got[s] + 1] \in Nat
    BY <1>4, <2>1, PageSteps DEF PageInv, PageTypes, Page!Dispatch
  <2>3. PICK e \in Nat : e = feed[r][got[s] + 1]
    BY <2>2
  <2>4. got' = [got EXCEPT ![s] = @ + 1] /\ Page!OnEvent(s, e)
    BY <1>4, <2>1, <2>3 DEF Page!Dispatch
  <2>5. PageTypes' /\ got'[s] = got[s] + 1
    <3>1. got' \in [Page!Sessions -> Nat] /\ got'[s] = got[s] + 1
      <4>1. got \in [Page!Sessions -> Nat]
        BY DEF PageInv, PageTypes
      <4> QED
        BY <2>2, <2>4, <4>1
    <3>2. Append(lines[s], e) \in Seq(Nat) /\ asks[s] \cup {Page!Asked} \in SUBSET Nat
      BY PageSteps DEF PageInv, PageTypes
    <3>3. lines' \in [Page!Sessions -> Seq(Nat)] /\ asks' \in [Page!Sessions -> SUBSET Nat]
      BY <2>4, <3>2 DEF PageInv, PageTypes, Page!OnEvent
    <3> QED
      BY <1>0, <3>1, <3>3 DEF PageInv, PageTypes
  <2>6. SessionsAreMade'
    BY <1>0, <1>2, <2>1, <2>2, <2>5, PageSteps DEF PageInv, SessionsAreMade
  <2>7. s \notin excused' => Complete(s)'
    <3>1. CASE e = Page!End
      <4>1. asks'[s] = asks[s] \cup {Page!Asked}
        BY <2>4, <3>1 DEF PageInv, PageTypes, Page!OnEvent
      <4>2. s \notin excused' => asks[s] \subseteq {Page!Asked}
        BY <2>4, <3>1 DEF Page!OnEvent
      <4> QED
        BY <4>1, <4>2 DEF Complete
    <3>2. CASE e # Page!End
      BY <1>0, <2>1, <2>3, <2>5, <3>2 DEF Complete
    <3> QED
      BY <3>1, <3>2
  <2>8. Buffers'
    BY <1>0, <1>2, <2>7 DEF PageInv, Buffers, Complete
  <2> QED
    BY <1>1, <2>5, <2>6, <2>8 DEF PageInv
<1>5. ASSUME NEW n \in 0..Page!Asked, Page!Answered(s, n) PROVE PageInv'
  <2>1. Page!AllLines(n) \in Seq(Nat)
    BY <1>5, PageSteps DEF Page!AllLines
  <2>2. PageTypes' /\ lines'[s] = Page!AllLines(n) /\ asks'[s] = asks[s] \ {n} /\ n \in asks[s]
    BY <1>0, <1>5, <2>1 DEF PageInv, PageTypes, Page!Answered
  <2>3. SessionsAreMade'
    BY <1>0, <1>2, <1>5, <2>2 DEF PageInv, SessionsAreMade, Page!Answered
  <2>4. Buffers'
    BY <1>0, <1>2, <1>5, <2>2 DEF PageInv, Buffers, Complete, Page!Answered
  <2> QED
    BY <1>1, <2>2, <2>3, <2>4 DEF PageInv
<1>6. ASSUME NEW n \in 0..Page!Asked, Page!Failed(s, n) PROVE PageInv'
  <2>1. PageTypes' /\ asks'[s] = asks[s] \ {n} /\ s \in excused'
    BY <1>0, <1>6 DEF PageInv, PageTypes, Page!Failed
  <2>2. SessionsAreMade'
    BY <1>0, <1>2, <1>6, <2>1 DEF PageInv, SessionsAreMade, Page!Failed
  <2>3. Buffers'
    BY <1>0, <1>2, <2>1 DEF PageInv, Buffers, Complete
  <2> QED
    BY <1>1, <2>1, <2>2, <2>3 DEF PageInv
<1> QED
  BY <1>3, <1>4, <1>5, <1>6

\* Every step preserves what is known of the details.
LEMMA PageInvInductive == PageInv /\ [Page!Next]_pageVars => PageInv'
<1> SUFFICES ASSUME PageInv, [Page!Next]_pageVars PROVE PageInv'
  OBVIOUS
<1>1. CASE UNCHANGED pageVars
  BY <1>1 DEF pageVars, PageInv, PageTypes, EndIsTrue, SessionsAreMade, Buffers, Complete, Panels
<1>2. ASSUME \/ Page!LoadAgain
             \/ \E r \in Page!Runs : Page!Loaded(r) \/ Page!NotLoaded(r)
      PROVE  PageInv'
  <2>1. UNCHANGED <<written, ended, feed, run, open, of, session, viewer, got, lines, asks,
                    excused>>
    BY <1>2 DEF Page!LoadAgain, Page!Loaded, Page!NotLoaded, Page!runVars, Page!logVars
  <2>2. PageTypes' /\ EndIsTrue' /\ SessionsAreMade' /\ Buffers'
    BY <2>1 DEF PageInv, PageTypes, EndIsTrue, SessionsAreMade, Buffers, Complete
  <2>3. Panels'
    BY <1>2, <2>1 DEF PageInv, Panels, Page!LoadAgain, Page!Loaded, Page!NotLoaded
  <2> QED
    BY <2>2, <2>3 DEF PageInv
<1> QED
  BY <1>1, <1>2, PageRun, PageView, PageLog DEF Page!Next

-----------------------------------------------------------------------------
(* The address: the proof *)

\* A path that is pushed, and that of a state, lead back to the view and run shown.
LEMMA PathsLeadBack ==
    ASSUME NEW v \in RouterViews, NEW r \in Nat
    PROVE  /\ Router!FormatPath(v, r) \in PathNames \X Nat
           /\ Router!FormatPath(v, Of(v, r)) = Router!FormatPath(v, r)
           /\ Router!FormatPath(v, r) \notin {Router!Unknown, Router!Alias}
           /\ <<v, Of(v, r)>> # Router!NoState
           /\ <<v, Of(v, r)>> \in StateNames \X Nat
BY InterfacesAssumption
   DEF Router!FormatPath, PathNames, StateNames, Of, Router!Unknown, Router!Alias, Router!NoState

\* What is appended after the current entry.
LEMMA PushedEntries ==
    ASSUME NEW S, NEW s \in Seq(S), NEW n \in 1..Len(s), NEW x \in S
    PROVE  LET t == Append(SubSeq(s, 1, n), x)
           IN t \in Seq(S) /\ Len(t) = n + 1 /\ t[n + 1] = x /\ \A i \in 1..n : t[i] = s[i]
<1>1. /\ SubSeq(s, 1, n) \in Seq(S) /\ Len(SubSeq(s, 1, n)) = n
      /\ \A i \in 1..n : SubSeq(s, 1, n)[i] = s[i]
  BY SubSeqProperties
<1> QED
  BY <1>1, AppendProperties

\* syncRoute keeps the history in order, and ends at the address of the view, if it has one.
LEMMA Synced ==
    ASSUME NEW h, InOrder(h), NEW v \in RouterViews \cup {"not-found"}, NEW r \in Nat
    PROVE  LET up == Router!SyncRoute(h, v, r)
           IN /\ InOrder(up)
              /\ v = "not-found" => up = h
              /\ v # "not-found" => up.entries[up.at].path = Router!FormatPath(v, r)
              /\ h.entries[h.at].path = Router!FormatPath(v, r) => up = h
<1>1. CASE v = "not-found" \/ Router!FormatPath(v, r) = h.entries[h.at].path
  BY <1>1 DEF Router!SyncRoute
<1>2. CASE v # "not-found" /\ Router!FormatPath(v, r) # h.entries[h.at].path
  <2> DEFINE x == [path |-> Router!FormatPath(v, r), state |-> <<v, Of(v, r)>>]
             t == Append(SubSeq(h.entries, 1, h.at), x)
  <2>1. Router!SyncRoute(h, v, r) = [entries |-> t, at |-> h.at + 1]
    BY <1>2 DEF Router!SyncRoute, Of
  <2>2. x \in Entry /\ Good(x)
    BY <1>2, PathsLeadBack DEF Entry, Good
  <2>3. h.entries \in Seq(Entry) /\ h.at \in 1..Len(h.entries)
    BY DEF InOrder
  <2> HIDE DEF x
  <2>4. /\ t \in Seq(Entry) /\ Len(t) = h.at + 1 /\ t[h.at + 1] = x
        /\ \A i \in 1..h.at : t[i] = h.entries[i]
    BY <2>2, <2>3, PushedEntries
  <2> HIDE DEF t
  <2>5. InOrder([entries |-> t, at |-> h.at + 1])
    BY <2>2, <2>3, <2>4 DEF InOrder
  <2>6. t[h.at + 1].path = Router!FormatPath(v, r)
    BY <2>4 DEF x
  <2> QED
    BY <1>2, <2>1, <2>5, <2>6
<1> QED
  BY <1>1, <1>2

\* The stores are set: the history stays in order and ends at the address of what is shown, or
\* is as it was.
LEMMA StoresSet ==
    ASSUME NEW h, InOrder(h), RouterTypes, NEW r \in Nat, NEW v \in RouterViews \cup {"not-found"},
           Router!SetStores(h, r, v)
    PROVE  /\ picked' = r /\ view' = v /\ InOrder(Now')
           /\ v \notin {view, "not-found"} \/ (v = view /\ v # "not-found" /\ r # picked) =>
                hist'[at'].path = Router!FormatPath(v, r)
           /\ v = view /\ (r = picked \/ v = "not-found") => Now' = h
           /\ r = picked /\ v = "not-found" => Now' = h
           /\ \/ r = picked \/ view \in {"not-found", v}
              /\ h.entries[h.at].path = Router!FormatPath(v, r)
              => Now' = h
<1> DEFINE one == Router!Selected(h, view, picked, r)
           two == Router!Viewed(one, view, r, v)
<1>1. picked' = r /\ view' = v /\ Now' = [entries |-> two.entries, at |-> two.at]
  BY DEF Router!SetStores, Now
<1>2. /\ InOrder(one)
      /\ r = picked \/ view = "not-found" => one = h
      /\ r # picked /\ view # "not-found" => one.entries[one.at].path = Router!FormatPath(view, r)
      /\ v = view /\ h.entries[h.at].path = Router!FormatPath(v, r) => one = h
  BY Synced DEF Router!Selected, RouterTypes
<1> HIDE DEF one
<1>3. /\ InOrder(two)
      /\ v \in {view, "not-found"} => two = one
      /\ v # view /\ v # "not-found" => two.entries[two.at].path = Router!FormatPath(v, r)
      /\ one.entries[one.at].path = Router!FormatPath(v, r) => two = one
  BY <1>2, Synced DEF Router!Viewed
<1> HIDE DEF two
<1>4. \A g : InOrder(g) => g = [entries |-> g.entries, at |-> g.at]
  BY DEF InOrder
<1>5. Now' = two
  BY <1>1, <1>3, <1>4
<1>6. hist'[at'] = two.entries[two.at]
  BY <1>5 DEF Now
<1> QED
  BY <1>1, <1>2, <1>3, <1>5, <1>6

\* What is shown now has its address, whatever the user or a task shows next.
LEMMA ShownHere ==
    ASSUME RouterInv, NEW r \in Nat, NEW v \in RouterViews \cup {view},
           Router!SetStores(Router!Here, r, v)
    PROVE  picked' = r /\ view' = v /\ InOrder(Now)' /\ Router!ShowsItsAddress'
<1>1. Router!Here = Now /\ v \in RouterViews \cup {"not-found"} /\ "not-found" \notin RouterViews
  BY InterfacesAssumption DEF Router!Here, Now, RouterInv, RouterTypes
<1>2. /\ picked' = r /\ view' = v /\ InOrder(Now')
      /\ v \notin {view, "not-found"} \/ (v = view /\ v # "not-found" /\ r # picked) =>
           hist'[at'].path = Router!FormatPath(v, r)
      /\ v = view /\ (r = picked \/ v = "not-found") => Now' = Now
  BY <1>1, StoresSet DEF RouterInv
<1>3. CASE v = view /\ (r = picked \/ v = "not-found")
  BY <1>2, <1>3 DEF Now, RouterInv, Router!ShowsItsAddress
<1>4. CASE ~(v = view /\ (r = picked \/ v = "not-found"))
  BY <1>1, <1>2, <1>4 DEF Router!ShowsItsAddress
<1> QED
  BY <1>2, <1>3, <1>4

\* An entry leads to a view and a run whose address it is, unless it is lossy.
LEMMA EntriesLeadBack ==
    ASSUME InOrder(Now), NEW i \in 1..Len(hist)
    PROVE  /\ Router!Target(i)[1] \in RouterViews \cup {"not-found"} /\ Router!Target(i)[2] \in Nat
           /\ Router!Target(i)[2] # 0 => Router!Target(i)[1] = "run-details"
           /\ Router!Target(i)[1] = "not-found" => hist[i].path = Router!Unknown
           /\ \/ Router!Lossy(hist[i]) \/ Router!Target(i)[1] = "not-found"
              \/ \A r \in Nat : Router!Target(i)[2] \in {0, r} =>
                   hist[i].path = Router!FormatPath(Router!Target(i)[1], r)
<1>1. Good(hist[i])
  BY DEF InOrder, Now
<1>2. CASE hist[i].state = Router!NoState
         /\ hist[i].path \in {<<"/", 0>>, <<"/runs/", 1>>, Router!Alias, Router!Unknown}
  <2>1. Router!Target(i) = Router!ParsePath(hist[i].path)
    BY <1>2 DEF Router!Target
  <2>2. Router!Target(i) \in {<<"dashboard", 0>>, <<"run-details", 1>>, <<"not-found", 0>>}
    BY <1>2, <2>1 DEF Router!ParsePath, Router!Alias, Router!Unknown
  <2>3. CASE hist[i].path = <<"/", 0>>
    BY <2>1, <2>3, InterfacesAssumption
       DEF Router!ParsePath, Router!Alias, Router!Unknown, Router!FormatPath
  <2>4. CASE hist[i].path = <<"/runs/", 1>>
    BY <2>1, <2>4, InterfacesAssumption
       DEF Router!ParsePath, Router!Alias, Router!Unknown, Router!FormatPath
  <2>5. CASE hist[i].path = Router!Alias
    BY <2>1, <2>5, InterfacesAssumption
       DEF Router!ParsePath, Router!Alias, Router!Unknown, Router!Lossy
  <2>6. CASE hist[i].path = Router!Unknown
    BY <2>1, <2>6, InterfacesAssumption DEF Router!ParsePath, Router!Alias, Router!Unknown
  <2> QED
    BY <1>2, <2>3, <2>4, <2>5, <2>6
<1>3. ASSUME NEW v \in RouterViews, NEW r \in Nat,
             hist[i].path = Router!FormatPath(v, r), hist[i].state = <<v, Of(v, r)>>
      PROVE  /\ Router!Target(i) = <<v, Of(v, r)>> /\ Of(v, r) \in Nat
             /\ Of(v, r) # 0 => v = "run-details"
             /\ \/ Router!Lossy(hist[i])
                \/ \A n \in Nat : Of(v, r) \in {0, n} => hist[i].path = Router!FormatPath(v, n)
  <2>1. Router!Target(i) = <<v, Of(v, r)>>
    BY <1>3, PathsLeadBack DEF Router!Target
  <2>2. CASE v = "run-details" /\ r = 0
    BY <1>3, <2>1, <2>2 DEF Of, Router!Lossy
  <2>3. CASE v # "run-details" \/ r # 0
    BY <1>3, <2>1, <2>3 DEF Of, Router!FormatPath
  <2> QED
    BY <2>1, <2>2, <2>3 DEF Of
<1>4. "not-found" \notin RouterViews
  BY InterfacesAssumption
<1> QED
  BY <1>1, <1>2, <1>3, <1>4 DEF Good

\* Going to an entry shows what it leads to, at its address.
LEMMA ShownAt ==
    ASSUME RouterInv, NEW i \in DOMAIN hist, Router!Go(i)
    PROVE  /\ InOrder(Now)' /\ Router!ShowsItsAddress' /\ RouterTypes'
           /\ view' = Router!Target(i)[1] /\ Router!Target(i)[2] \in {0, picked'}
           /\ \/ hist' = hist \/ Router!Lossy(hist[i])
              \/ Router!Target(i)[2] \notin {0, picked} /\ view \notin {"run-details", "not-found"}
<1> DEFINE v == Router!Target(i)[1]
           n == Router!Target(i)[2]
           r == IF n = 0 THEN picked ELSE n
           there == [entries |-> hist, at |-> i]
<1>1. InOrder(Now) /\ hist \in Seq(Entry) /\ i \in 1..Len(hist) /\ RouterTypes
  BY DEF RouterInv, InOrder, Now
<1>2. InOrder(there) /\ Router!SetStores(there, r, v) /\ UNCHANGED <<listed, made, mine>>
  BY <1>1 DEF Router!Go, InOrder, Now
<1>3. /\ v \in RouterViews \cup {"not-found"} /\ n \in Nat /\ r \in Nat
      /\ n # 0 => v = "run-details"
      /\ v = "not-found" => hist[i].path = Router!Unknown
      /\ \/ Router!Lossy(hist[i]) \/ v = "not-found"
         \/ \A m \in Nat : n \in {0, m} => hist[i].path = Router!FormatPath(v, m)
  BY <1>1, EntriesLeadBack DEF RouterTypes
<1>4. Router!Lossy(hist[i]) \/ v = "not-found" \/ hist[i].path = Router!FormatPath(v, r)
  BY <1>3
<1> HIDE DEF v, n
<1>5. "not-found" \notin RouterViews /\ there.entries[there.at].path = hist[i].path
  BY InterfacesAssumption
<1> HIDE DEF there
<1>6. /\ picked' = r /\ view' = v /\ InOrder(Now')
      /\ v \notin {view, "not-found"} \/ (v = view /\ v # "not-found" /\ r # picked) =>
           hist'[at'].path = Router!FormatPath(v, r)
      /\ v = view /\ (r = picked \/ v = "not-found") => Now' = there
      /\ r = picked /\ v = "not-found" => Now' = there
      /\ \/ r = picked \/ view \in {"not-found", v}
         /\ hist[i].path = Router!FormatPath(v, r)
         => Now' = there
  BY <1>1, <1>2, <1>3, <1>5, StoresSet
<1>7. Now' = there => hist' = hist /\ at' = i
  BY DEF there, Now
<1>8. Router!ShowsItsAddress'
  <2>1. CASE v = "not-found"
    <3>1. r = picked
      BY <1>3, <2>1
    <3> QED
      BY <1>3, <1>6, <1>7, <2>1, <3>1 DEF Router!ShowsItsAddress
  <2>2. CASE v # "not-found" /\ (v # view \/ r # picked)
    BY <1>6, <2>2 DEF Router!ShowsItsAddress
  <2>3. CASE v # "not-found" /\ v = view /\ r = picked
    BY <1>4, <1>6, <1>7, <2>3 DEF Router!ShowsItsAddress
  <2> QED
    BY <2>1, <2>2, <2>3
<1>9. \/ hist' = hist \/ Router!Lossy(hist[i])
      \/ n \notin {0, picked} /\ view \notin {"run-details", "not-found"}
  <2>1. CASE v = "not-found"
    BY <1>3, <1>6, <1>7, <2>1
  <2>2. CASE v # "not-found" /\ ~Router!Lossy(hist[i])
    <3>1. hist[i].path = Router!FormatPath(v, r)
      BY <1>4, <2>2
    <3>2. CASE r = picked \/ view \in {"not-found", v}
      BY <1>6, <1>7, <3>1, <3>2
    <3>3. CASE r # picked /\ view \notin {"not-found", v}
      BY <1>3, <3>3
    <3> QED
      BY <3>2, <3>3
  <2> QED
    BY <2>1, <2>2
<1>10. RouterTypes'
  BY <1>1, <1>2, <1>3, <1>6 DEF RouterTypes
<1> QED
  BY <1>3, <1>6, <1>8, <1>9, <1>10 DEF v, n

\* Coming up at an entry, new or after a reload, shows what its path names, at its address.
LEMMA ComesUp ==
    ASSUME NEW h, InOrder(h)
    PROVE  LET up == Router!Start(h)
           IN /\ InOrder([entries |-> up.hist, at |-> up.at])
              /\ up.view \in RouterViews \cup {"not-found"} /\ up.sel \in Nat
              /\ up.view = "not-found" => up.hist[up.at].path = Router!Unknown
              /\ up.view # "not-found" => up.hist[up.at].path = Router!FormatPath(up.view, up.sel)
<1> DEFINE p == h.entries[h.at].path
           v == Router!ParsePath(p)[1]
           r == Router!ParsePath(p)[2]
           synced == Router!SyncRoute(h, v, r)
<1>1. Good(h.entries[h.at])
  BY DEF InOrder
<1>2. v \in RouterViews \cup {"not-found"} /\ r \in Nat /\ (v = "not-found" => p = Router!Unknown)
  <2>1. CASE p \in {<<"/", 0>>, <<"/runs/", 1>>, Router!Alias, Router!Unknown}
    <3>1. Router!ParsePath(p) \in {<<"dashboard", 0>>, <<"run-details", 1>>, <<"not-found", 0>>}
      BY <2>1 DEF Router!ParsePath, Router!Alias, Router!Unknown
    <3>2. Router!ParsePath(p) = <<"not-found", 0>> => p = Router!Unknown
      <4>1. p = <<"/", 0>> => Router!ParsePath(p) = <<"dashboard", 0>>
        BY DEF Router!ParsePath, Router!Alias, Router!Unknown
      <4>3. p = Router!Alias => Router!ParsePath(p) = <<"dashboard", 0>>
        BY DEF Router!ParsePath, Router!Alias, Router!Unknown
      <4>2. p = <<"/runs/", 1>> => Router!ParsePath(p) = <<"run-details", 1>>
        BY DEF Router!ParsePath, Router!Alias, Router!Unknown
      <4> QED
        BY <2>1, <4>1, <4>2, <4>3
    <3>3. v = "not-found" => Router!ParsePath(p) = <<"not-found", 0>>
      BY <3>1
    <3> QED
      BY <3>1, <3>2, <3>3, InterfacesAssumption
  <2>2. ASSUME NEW w \in RouterViews, NEW n \in Nat, p = Router!FormatPath(w, n)
        PROVE  v \in RouterViews /\ r \in Nat
    <3>1. p \in {<<"/", 0>>, <<"/runs/", n>>}
          \/ (p = <<w, 0>> /\ w \notin {"/", "/runs", "/runs/", "/nope"})
      BY <2>2, InterfacesAssumption DEF Router!FormatPath
    <3> QED
      BY <3>1, <2>2, InterfacesAssumption DEF Router!ParsePath, Router!Alias, Router!Unknown
  <2>3. "not-found" \notin RouterViews
    BY InterfacesAssumption
  <2> QED
    BY <1>1, <2>1, <2>2, <2>3 DEF Good
<1>3. Router!Start(h) = [view |-> v, sel |-> r, hist |-> synced.entries, at |-> synced.at]
  BY DEF Router!Start
<1> HIDE DEF v, r
<1>4. /\ InOrder(synced)
      /\ v = "not-found" => synced = h
      /\ v # "not-found" => synced.entries[synced.at].path = Router!FormatPath(v, r)
  BY <1>2, Synced
<1> HIDE DEF synced
<1>5. [entries |-> synced.entries, at |-> synced.at] = synced
  BY <1>4 DEF InOrder
<1> QED
  BY <1>2, <1>3, <1>4, <1>5

\* It holds at first.
LEMMA RouterInitially == Router!Init => RouterInv
<1> SUFFICES ASSUME NEW p \in {<<"/", 0>>, <<"/runs/", 1>>, Router!Alias, Router!Unknown},
                    LET up == Router!Start([entries |-> <<[path |-> p, state |-> Router!NoState]>>,
                                            at |-> 1])
                    IN view = up.view /\ picked = up.sel /\ hist = up.hist /\ at = up.at,
                    listed = 0, made = 0, task = "none", mine = 0
             PROVE  RouterInv
  BY DEF Router!Init
<1> DEFINE e == [path |-> p, state |-> Router!NoState]
           h == [entries |-> <<e>>, at |-> 1]
<1>1. e \in Entry /\ Good(e)
  BY DEF Entry, Good, PathNames, StateNames, Router!NoState, Router!Alias, Router!Unknown
<1> HIDE DEF e
<1>2. InOrder(h)
  BY <1>1 DEF InOrder
<1>3. view = Router!Start(h).view /\ picked = Router!Start(h).sel /\ hist = Router!Start(h).hist
      /\ at = Router!Start(h).at
  BY DEF e
<1> HIDE DEF h
<1> QED
  BY <1>2, <1>3, ComesUp
     DEF RouterInv, RouterTypes, Now, Router!ShowsItsAddress, NewestIsMine

\* Every step preserves what is known of the address.
LEMMA RouterInvInductive == RouterInv /\ [Router!Next]_routerVars => RouterInv'
<1> SUFFICES ASSUME RouterInv, [Router!Next]_routerVars PROVE RouterInv'
  OBVIOUS
<1>0. RouterTypes /\ NewestIsMine /\ {"dashboard", "run-details"} \subseteq RouterViews
  BY InterfacesAssumption DEF RouterInv
<1>1. CASE UNCHANGED routerVars
  BY <1>1 DEF routerVars, RouterInv, RouterTypes, InOrder, Now, Router!ShowsItsAddress, NewestIsMine
<1>2. CASE Router!Reload
  <2>1. InOrder(Router!Here)
    BY DEF RouterInv, Now, Router!Here
  <2>2. /\ view' = Router!Start(Router!Here).view /\ picked' = Router!Start(Router!Here).sel
        /\ hist' = Router!Start(Router!Here).hist /\ at' = Router!Start(Router!Here).at
        /\ listed' = 0 /\ task' = "none" /\ mine' = 0 /\ made' = made
    BY <1>2 DEF Router!Reload
  <2> QED
    BY <1>0, <2>1, <2>2, ComesUp
       DEF RouterInv, RouterTypes, Now, Router!ShowsItsAddress, NewestIsMine
<1>3. ASSUME NEW r \in Nat, NEW v \in RouterViews \cup {view}, Router!SetStores(Router!Here, r, v),
             listed' \in Nat, UNCHANGED <<made, mine, others>>, task' \in {task, "none"}
      PROVE  RouterInv'
  <2>1. picked' = r /\ view' = v /\ InOrder(Now)' /\ Router!ShowsItsAddress'
    BY <1>3, ShownHere
  <2> QED
    BY <1>0, <1>3, <2>1 DEF RouterInv, RouterTypes, NewestIsMine
<1>4. ASSUME NEW v \in RouterViews, Router!Show(v) PROVE RouterInv'
  BY <1>0, <1>3, <1>4 DEF Router!Show, RouterTypes
<1>5. CASE Router!OpenSelected
  BY <1>0, <1>4, <1>5 DEF Router!OpenSelected
<1>6. ASSUME NEW b \in BOOLEAN, Router!Step(b) PROVE RouterInv'
  <2>1. Router!Neighbor(b) \in Nat
    BY <1>0 DEF RouterTypes, Router!Neighbor
  <2> QED
    BY <1>0, <1>3, <1>6, <2>1 DEF Router!Step, RouterTypes
<1>7. CASE Router!Clear
  BY <1>0, <1>3, <1>7 DEF Router!Clear, RouterTypes
<1>8. ASSUME NEW r \in 1..RouterRuns, Router!Pick(r) PROVE RouterInv'
  BY <1>0, <1>3, <1>8, InterfacesAssumption DEF Router!Pick, RouterTypes
<1>9. ASSUME NEW i \in DOMAIN hist, Router!Go(i) PROVE RouterInv'
  BY <1>0, <1>9, ShownAt DEF RouterInv, Router!Go, NewestIsMine
<1>10. ASSUME UNCHANGED <<view, picked, hist, at>>, RouterTypes', NewestIsMine'
       PROVE  RouterInv'
  BY <1>10 DEF RouterInv, Now, InOrder, Router!ShowsItsAddress
<1>11. ASSUME NEW b \in BOOLEAN, Router!Made(b) PROVE RouterInv'
  <2>1. /\ UNCHANGED <<view, picked, listed, hist, at, task>>
        /\ made' = made + 1 /\ mine' \in {mine, made'}
    BY <1>11 DEF Router!Made
  <2>2. mine' = made' \/ (task = "none" /\ task' = "none") \/ others'
    BY <1>11, Zenon DEF Router!Made
  <2>3. NewestIsMine'
    BY <2>1, <2>2 DEF NewestIsMine
  <2> QED
    BY <1>0, <1>10, <2>1, <2>3 DEF RouterTypes
<1>12. CASE Router!SetRuns \/ Router!Submit \/ Router!Posted
  BY <1>0, <1>10, <1>12 DEF Router!SetRuns, Router!Submit, Router!Posted, RouterTypes, NewestIsMine
<1>13. CASE Router!Found
  BY <1>0, <1>3, <1>13 DEF Router!Found, RouterTypes
<1>14. CASE Router!GaveUp
  BY <1>0, <1>3, <1>14 DEF Router!GaveUp, RouterTypes
<1> QED
  BY <1>1, <1>2, <1>4, <1>5, <1>6, <1>7, <1>8, <1>9, <1>11, <1>12, <1>13, <1>14 DEF Router!Next

\* Back and Forward keep the history but in the named cases.
LEMMA KeptHistory == RouterInv => Router!HistoryIsKept
BY ShownAt DEF Router!HistoryIsKept

\* What a task opens is its own.
LEMMA OwnRun == RouterInv /\ [Router!Next]_routerVars => Router!OpensItsOwn
<1> SUFFICES ASSUME RouterInv, Router!Found \/ Router!GaveUp, view' = "run-details"
             PROVE  picked' = mine \/ others \/ mine = 0
  BY DEF Router!OpensItsOwn
<1>1. task # "none" /\ Router!SetStores(Router!Here, made, "run-details")
  <2>1. CASE Router!GaveUp /\ Router!SetStores(Router!Here, picked, "dashboard")
    BY <2>1 DEF Router!SetStores
  <2> QED
    BY <2>1 DEF Router!Found, Router!GaveUp
<1>2. picked' = made
  BY <1>1 DEF Router!SetStores
<1> QED
  BY <1>1, <1>2 DEF RouterInv, NewestIsMine

-----------------------------------------------------------------------------
(* The four in one behaviour *)

PagesInv == WebInv /\ TogglesInv /\ RouterInv /\ PageInv

\* It holds at first.
LEMMA PagesInitially == Init => PagesInv
<1> SUFFICES ASSUME Web!Init, Toggles!Init, Router!Init, Page!Init PROVE PagesInv
  BY DEF Init
<1>1. WebInv
  BY DEF Web!Init, WebInv, Web!TypeOK, Web!Working, Progress, WhileNew
<1>2. TogglesInv
  BY InterfacesAssumption
     DEF Toggles!Init, TogglesInv, Toggles!TypeOK, Rows, Row, Rollbacks, Lists
<1>3. PageInv
  <2>1. PageTypes
    BY InterfacesAssumption DEF Page!Init, PageTypes
  <2>2. \A r \in Page!Runs : Len(feed[r]) = 0
    BY DEF Page!Init
  <2> QED
    BY <2>1, <2>2 DEF Page!Init, PageInv, EndIsTrue, SessionsAreMade, Buffers, Complete, Panels
<1> QED
  BY <1>1, <1>2, <1>3, RouterInitially DEF PagesInv

\* A step is one of the part that is followed, and leaves the others.
LEMMA OnePartMoves ==
  [Next]_vars => /\ [Web!Next]_webVars /\ [Toggles!Next]_togglesVars
                 /\ [Router!Next]_routerVars /\ [Page!Next]_pageVars
BY DEF Next, vars, ButTui, ButSidebar, ButWeb, ButToggles, ButRouter, ButPage, ButSse

\* So every step preserves what is known of the four.
LEMMA PagesAlways == Spec => []PagesInv
<1>1. PagesInv /\ [Next]_vars => PagesInv'
  BY OnePartMoves, WebInvInductive, TogglesInvInductive, RouterInvInductive, PageInvInductive
     DEF PagesInv
<1> QED
  BY <1>1, PagesInitially, PTL DEF Spec

\* Of any number of requests, sent in any order while the run goes on: one that was refused or did
\* not find the run changed nothing, a conflict means a signal without a record, success that the
\* work was done once, a start that failed that nothing was started.
THEOREM AnswersAlwaysTrue == Spec => []AnswersAreTrue
<1>1. PagesInv => AnswersAreTrue
  <2>1. ASSUME WebInv, NEW q \in WebCalls PROVE Truth(q)
    BY <2>1 DEF WebInv, Progress, Truth
  <2>2. WebInv => Web!AnswersAreTrue
    BY <2>1 DEF Web!AnswersAreTrue, Truth
  <2> QED
    BY <2>2 DEF PagesInv, AnswersAreTrue
<1> QED
  BY <1>1, PagesAlways, PTL

\* When no toggle is under way, each row tells whether its agent is on, unless an older list or
\* rollback overwrote it, its answer was lost or the agent was changed from elsewhere.
THEOREM RowsAlwaysTrue == Spec => []RowsAreTrue
<1>1. PagesInv => RowsAreTrue
  BY DEF PagesInv, TogglesInv, Toggles!TypeOK, Rows, Row, Toggles!Pending, Toggles!RowsAreTrue,
     RowsAreTrue
<1> QED
  BY <1>1, PagesAlways, PTL

\* The address is that of what is shown, in a history of any length; Back and Forward show what
\* they lead to and rewrite the history in the named cases only; a task opens its own run, unless
\* someone else's was new to the page.
THEOREM AddressAlwaysFollows == Spec => AddressFollowsUser
<1>1. PagesInv => (part = "router" => Router!ShowsItsAddress)
  BY DEF PagesInv, RouterInv
<1>2. PagesInv /\ [Next]_vars =>
        [part = "router" => Router!HistoryIsKept /\ Router!OpensItsOwn]_vars
  BY OnePartMoves, KeptHistory, OwnRun DEF PagesInv
<1> QED
  BY <1>1, <1>2, PagesAlways, PTL DEF Spec, AddressFollowsUser

\* After the end of a run was told last and all is fetched the buffer is the log, and the panels
\* are of the selected run while it does not change under them; unless a fetch failed or was
\* overtaken.
THEOREM DetailsAlwaysOfTheRun == Spec => []DetailsAreOfTheRun
<1>1. PagesInv => DetailsAreOfTheRun
  <2>1. PageInv => Page!BufferConverges
    BY DEF PageInv, Buffers, Complete, Page!BufferConverges
  <2>2. PageInv => Page!PanelsAreOfTheRun
    BY DEF PageInv, Panels, Page!PanelsAreOfTheRun
  <2> QED
    BY <2>1, <2>2 DEF PagesInv, DetailsAreOfTheRun, Page!DetailsAreOfTheRun
<1> QED
  BY <1>1, PagesAlways, PTL
=============================================================================
