------------------------------- MODULE Discuss -------------------------------
(***************************************************************************)
(* The thread between an agent and its host: notify/discuss-store.ts,      *)
(* commands/discuss.ts, commands/discuss-helpers.ts, bridge/discuss.ts and *)
(* the ingest of notify/hub.ts.                                            *)
(*                                                                         *)
(* An entry's id is one more than the largest in the file. A daemon or hub *)
(* takes it and appends in one synchronous step; a command that finds      *)
(* neither, or whose daemon does not answer in time, does the same in its  *)
(* own process, and another process gets in between: twins are entries     *)
(* with one id. The daemon that was late may append its entry still, which *)
(* then is in the thread twice. Everything a reader does is keyed by id.   *)
(***************************************************************************)
EXTENDS Naturals, Sequences, FiniteSetsExt

CONSTANTS Askers,     \* `discuss ask` commands of the agent
          Hosts,      \* whoever runs `answer`, `say` or `bridge discuss`
          Direct,     \* SUBSET (Askers \cup Hosts): those without a shared writer
          Defaulting, \* SUBSET Askers: those with --default
          MaxThread   \* bound on the entries

Procs == Askers \cup Hosts
Nobody == "nobody"   \* entry for no one in particular

VARIABLES
  thread,   \* Seq([id, kind, replyTo, by, to]); `to` is history: whose question it answers
  pc,       \* [Procs -> state of the command]
  draft,    \* [Procs -> entry to be posted, without its id]
  taken,    \* [Procs -> id read for the draft, 0 for none]
  late,     \* entries a daemon holds although their command no longer waits for it
  unheard,  \* history: {<<command, kind>>} whose request a daemon did not answer in time
  qid,      \* [Askers -> id of the question asked]
  result,   \* [Askers -> index of the answer printed, 0 for none]
  watch,    \* `discuss watch`: [from, seen, lastId, shown], from = 0 before it starts
  inbox     \* `discuss inbox`: [lastId, last, shown, repeated], entries by their place

vars == <<thread, pc, draft, taken, late, unheard, qid, result, watch, inbox>>

Kinds == {"question", "answer", "say"}
Entry(kind, replyTo, by, to) == [id |-> 0, kind |-> kind, replyTo |-> replyTo, by |-> by, to |-> to]
NoDraft == Entry("say", 0, Nobody, Nobody)
Ids == {thread[i].id : i \in DOMAIN thread}

TypeOK ==
  /\ Len(thread) <= MaxThread
  /\ \A i \in DOMAIN thread : thread[i].id \in 1..i /\ thread[i].kind \in Kinds
  /\ pc \in [Procs -> {"idle", "posting", "waiting", "answered", "defaulted", "timeout"}]
  /\ unheard \subseteq Procs \X Kinds /\ \A e \in late : <<e.by, e.kind>> \in unheard
  /\ taken \in [Procs -> 0..MaxThread + 1] /\ qid \in [Askers -> 0..MaxThread]
  /\ result \in [Askers -> 0..MaxThread]
  /\ watch.seen \subseteq 1..MaxThread /\ watch.shown \subseteq 1..MaxThread
  /\ inbox.lastId \in 0..MaxThread /\ inbox.repeated \subseteq inbox.shown /\ inbox.shown \subseteq DOMAIN thread

Init ==
  /\ thread = <<>> /\ pc = [p \in Procs |-> "idle"] /\ draft = [p \in Procs |-> NoDraft]
  /\ taken = [p \in Procs |-> 0] /\ late = {} /\ unheard = {} /\ qid = [a \in Askers |-> 0] /\ result = qid
  /\ watch = [from |-> 0, seen |-> {}, lastId |-> 0, shown |-> {}]
  /\ inbox = [lastId |-> 0, last |-> 0, shown |-> {}, repeated |-> {}]

----------------------------------------------------------------------------
(* Posting *)

NextDiscussId == 1 + Max(Ids \cup {0})

Compose(p, entry) == /\ Len(thread) < MaxThread
                     /\ pc' = [pc EXCEPT ![p] = "posting"]
                     /\ draft' = [draft EXCEPT ![p] = entry]
                     /\ UNCHANGED <<thread, taken, late, unheard, qid, result, watch, inbox>>

\* The entry is in the file: an asker goes on to wait, or ends with its default.
Posted(p, id) ==
  /\ Len(thread) < MaxThread
  /\ thread' = Append(thread, [draft[p] EXCEPT !.id = id])
  /\ draft' = [draft EXCEPT ![p] = NoDraft]
  /\ taken' = [taken EXCEPT ![p] = 0]
  /\ LET asks == draft[p].kind = "question"
     IN  /\ pc' = [pc EXCEPT ![p] = IF asks THEN "waiting" ELSE IF p \in Askers THEN "defaulted" ELSE "idle"]
         /\ qid' = IF asks THEN [qid EXCEPT ![p] = id] ELSE qid
  /\ UNCHANGED <<late, unheard, result, watch, inbox>>

Unheard(e) == <<e.by, e.kind>> \in unheard

\* The daemon; or the hub of AT_SSE_URL, also after a daemon that did not answer.
PostShared(p) == /\ pc[p] = "posting" /\ p \notin Direct /\ taken[p] = 0
                 /\ Posted(p, NextDiscussId)

\* The daemon does not answer in time, or its answer is lost: the command goes on without it,
\* the request stays. Bound: once for each kind of entry of a command.
RequestTimesOut(p) ==
  /\ pc[p] = "posting" /\ p \notin Direct /\ taken[p] = 0 /\ ~Unheard(draft[p])
  /\ late' = late \cup {draft[p]} /\ unheard' = unheard \cup {<<p, draft[p].kind>>}
  /\ UNCHANGED <<thread, pc, draft, taken, qid, result, watch, inbox>>

\* It is handled before the command's own append or after it, or with the daemon's death never.
AppendLate ==
  /\ Len(thread) < MaxThread
  /\ \E e \in late : /\ thread' = Append(thread, [e EXCEPT !.id = NextDiscussId])
                     /\ late' = late \ {e}
  /\ UNCHANGED <<pc, draft, taken, unheard, qid, result, watch, inbox>>

TakeId(p) == /\ pc[p] = "posting" /\ taken[p] = 0 /\ (p \in Direct \/ Unheard(draft[p]))
             /\ taken' = [taken EXCEPT ![p] = NextDiscussId]
             /\ UNCHANGED <<thread, pc, draft, late, unheard, qid, result, watch, inbox>>

AppendDiscuss(p) == taken[p] # 0 /\ Posted(p, taken[p])

----------------------------------------------------------------------------
(* The commands *)

(* Mutant: any answer in the thread ends the wait. *)
IsAnswer(e, id) == e.kind = "answer"

IsAnswerTo(e, id) == e.kind = "answer" /\ e.replyTo = id
Answers(id) == {i \in DOMAIN thread : IsAnswerTo(thread[i], id)}
UnansweredQuestions == {i \in DOMAIN thread : thread[i].kind = "question" /\ Answers(thread[i].id) = {}}

Ask(a) == pc[a] = "idle" /\ Compose(a, Entry("question", 0, a, Nobody))

\* Without a qid the latest unanswered question; with one, any question the host has read of.
Answer(h) ==
  /\ pc[h] = "idle"
  /\ \E i \in DOMAIN thread :
       /\ thread[i].kind = "question"
       /\ Compose(h, Entry("answer", thread[i].id, h, thread[i].by))

Say(h) == pc[h] = "idle" /\ Compose(h, Entry("say", 0, h, Nobody))

\* waitForAnswer: the first answer to the id.
Receive(a) ==
  /\ pc[a] = "waiting" /\ Answers(qid[a]) # {}
  /\ result' = [result EXCEPT ![a] = CHOOSE i \in Answers(qid[a]) : \A k \in Answers(qid[a]) : i <= k]
  /\ pc' = [pc EXCEPT ![a] = "answered"]
  /\ UNCHANGED <<thread, draft, taken, late, unheard, qid, watch, inbox>>

\* The deadline passes after the last sleep without another look, so an answer may be there.
\* The default is posted as the host's, so that the question is no longer pending.
Timeout(a) ==
  /\ pc[a] = "waiting"
  /\ IF a \in Defaulting
     THEN Compose(a, Entry("answer", qid[a], a, a))
     ELSE pc' = [pc EXCEPT ![a] = "timeout"]
          /\ UNCHANGED <<thread, draft, taken, late, unheard, qid, result, watch, inbox>>

----------------------------------------------------------------------------
(* The readers *)

WatchStart ==
  /\ watch.from = 0
  /\ watch' = [from |-> Len(thread) + 1, seen |-> Ids, shown |-> {},
               lastId |-> IF thread = <<>> THEN 0 ELSE thread[Len(thread)].id]
  /\ UNCHANGED <<thread, pc, draft, taken, late, unheard, qid, result, inbox>>

\* The loop of a tick prints the entries whose id was not seen, by earlier ticks or earlier in
\* the loop; as long as there is no last id, the first is taken for one that was there before.
WatchTick ==
  LET new == {i \in DOMAIN thread : /\ thread[i].id \notin watch.seen
                                     /\ \A j \in 1..(i - 1) : thread[j].id # thread[i].id}
  IN  /\ watch.from # 0
      /\ watch' = [watch EXCEPT
           !.seen = @ \cup Ids,
           !.lastId = IF new = {} THEN @ ELSE thread[Max(new)].id,
           !.shown = @ \cup {i \in new : watch.lastId # 0 \/ \E j \in new : j < i}]
      /\ UNCHANGED <<thread, pc, draft, taken, late, unheard, qid, result, inbox>>

\* hostSays: the says after the first entry with the last id printed, all of them without one.
HostSays(sinceId) ==
  {i \in DOMAIN thread :
     /\ thread[i].kind = "say"
     /\ sinceId \in Ids => \E k \in 1..(i - 1) : thread[k].id = sinceId}

InboxTick ==
  LET says == HostSays(inbox.lastId)
  IN  /\ says # {}
      /\ inbox' = [lastId |-> thread[Max(says)].id, last |-> Max(says),
                   shown |-> inbox.shown \cup says,
                   repeated |-> inbox.repeated \cup (inbox.shown \cap says)]
      /\ UNCHANGED <<thread, pc, draft, taken, late, unheard, qid, result, watch>>

Next ==
  \/ \E p \in Procs : PostShared(p) \/ RequestTimesOut(p) \/ TakeId(p) \/ AppendDiscuss(p)
  \/ AppendLate
  \/ \E a \in Askers : Ask(a) \/ Receive(a) \/ Timeout(a)
  \/ \E h \in Hosts : Answer(h) \/ Say(h)
  \/ WatchStart \/ WatchTick \/ InboxTick

Spec == Init /\ [][Next]_vars

----------------------------------------------------------------------------
(* Properties *)

Twin(i) == \E k \in DOMAIN thread : k # i /\ thread[k].id = thread[i].id

\* Two entries get one id only if one of their writers was a command that had no shared writer,
\* or had given up on it.
TwinsAreDirect == \A i \in DOMAIN thread : Twin(i) =>
  \E k \in DOMAIN thread : /\ thread[k].id = thread[i].id
                           /\ thread[k].by \in Direct \/ Unheard(thread[k])

\* A question is asked once, unless the daemon did not answer in time.
AskedOnce == \A i, j \in DOMAIN thread :
  thread[i].kind = "question" /\ thread[j].kind = "question" /\ thread[i].by = thread[j].by =>
    i = j \/ Unheard(thread[i])

\* An asker prints the answer meant for it, unless its question has a twin, and waits for every
\* answer that is, unless its question was posted twice: the copy answered may be the other one.
AnswerIsMine == \A a \in Askers :
  /\ result[a] # 0 => \/ thread[result[a]].to = a
                      \/ \E i \in DOMAIN thread : thread[i].id = qid[a] /\ Twin(i)
  /\ \A i \in DOMAIN thread : thread[i].kind = "answer" /\ thread[i].to = a =>
       thread[i].replyTo = qid[a] \/ <<a, "question">> \in unheard

\* A default that is posted settles the question for everybody, but not a copy of it.
DefaultSettles == \A a \in Askers : pc[a] = "defaulted" =>
  \A i \in UnansweredQuestions : thread[i].by # a \/ Unheard(thread[i])

\* A watcher that has seen an id shows its entry, unless the entry is a later twin, or the
\* first of a thread that was empty when it started.
WatchShows == watch.from # 0 =>
  \A i \in watch.from..Len(thread) : thread[i].id \in watch.seen =>
    i \in watch.shown \/ Twin(i) \/ (i = 1 /\ watch.from = 1)

\* The inbox skips nothing up to where it is, and repeats only around a twin.
InboxShows ==
  /\ \A i \in DOMAIN thread : thread[i].kind = "say" /\ i <= inbox.last => i \in inbox.shown
  /\ inbox.repeated = {} \/ \E i \in inbox.shown : Twin(i)

(* What the two sides of a thread can count on although ids are given out    *)
(* without a lock and a request may be served twice: all confusion is        *)
(* confined to entries that share an id, which come from writers without a   *)
(* daemon or hub, and to those a daemon was late to append.                  *)
ConfusionNeedsTwins ==
  TwinsAreDirect /\ AskedOnce /\ AnswerIsMine /\ DefaultSettles /\ WatchShows /\ InboxShows
=============================================================================
