---------------------------- MODULE TriageBreaker ----------------------------
(***************************************************************************)
(* The breakers of `at triage`, src/triage: its verdict on a task may be   *)
(* weakened by the first model of a list that answers, and one file per    *)
(* model lets later calls skip a model that failed.  Several commands run  *)
(* at a time and share the files without a lock.  What a verdict says is   *)
(* left out: without an answer it is the heuristic's.                      *)
(*                                                                         *)
(* A model answers, refuses (an error, or no usable answer) or is given up *)
(* after its timeout: any of these, since the model is external.  The      *)
(* warm-up of a model that timed out only changes which of them comes.     *)
(***************************************************************************)
EXTENDS Naturals, Sequences, SequencesExt

CONSTANTS
    Procs,      \* `at triage` processes
    Models,     \* names of models, each with its breaker
    Usable,     \* names that triage.json or the environment defines, with their key
    Use,        \* `use' of triage.json
    Flags,      \* lists given by --provider or AT_TRIAGE_PROVIDER, <<>>: none
    Timeout,    \* timeoutMs
    Ttl,        \* ttlMs
    Short,      \* TIMEOUT_BREAKER_MS
    MaxTime, MaxRuns     \* bounds

VARIABLES
    now,        \* the clock
    downUntil,  \* [Models -> time]: the breaker files, 0: none
    pc,         \* [Procs -> {"idle", "next", "asking"}]
    left,       \* [Procs -> models not tried yet]
    sent,       \* [Procs -> when the request was sent]
    calls,      \* history: the requests that are over
    runs        \* commands started

vars == <<now, downUntil, pc, left, sent, calls, runs>>

Init ==
    /\ now = 1
    /\ downUntil = [m \in Models |-> 0]
    /\ pc = [p \in Procs |-> "idle"]
    /\ left = [p \in Procs |-> <<>>]
    /\ sent = [p \in Procs |-> 0]
    /\ calls = {}
    /\ runs = 0

Tick ==
    /\ now < MaxTime
    /\ now' = now + 1
    /\ UNCHANGED <<downUntil, pc, left, sent, calls, runs>>

\* What is left of a list: what is in T, in its order.
Only(s, T) == FoldLeft(LAMBDA q, x : IF x \in T THEN Append(q, x) ELSE q, <<>>, s)

\* resolveTriageProviders: the list given, else the file's, without what cannot be used.
Resolved(flag) == Only(IF flag # <<>> THEN flag ELSE Use, Usable)

\* triage: a task the heuristic finds something in, else no model is asked.
Start(p, flag) ==
    /\ pc[p] = "idle" /\ runs < MaxRuns
    /\ runs' = runs + 1
    /\ pc' = [pc EXCEPT ![p] = "next"]
    /\ left' = [left EXCEPT ![p] = Resolved(flag)]
    /\ UNCHANGED <<now, downUntil, sent, calls>>

\* The breaker is open: the next model, please.
Skip(p) ==
    /\ pc[p] = "next" /\ left[p] # <<>> /\ downUntil[Head(left[p])] > now
    /\ left' = [left EXCEPT ![p] = Tail(@)]
    /\ UNCHANGED <<now, downUntil, pc, sent, calls, runs>>

Send(p) ==
    /\ pc[p] = "next" /\ left[p] # <<>> /\ downUntil[Head(left[p])] <= now
    /\ pc' = [pc EXCEPT ![p] = "asking"]
    /\ sent' = [sent EXCEPT ![p] = now]
    /\ UNCHANGED <<now, downUntil, left, calls, runs>>

\* What came of a request.
Over(p, how) ==
    /\ calls' = calls \cup {[model |-> Head(left[p]), sent |-> sent[p], ended |-> now, how |-> how]}
    /\ UNCHANGED <<now, sent, runs>>

\* closeBreaker removes the file.
Close(m) == [downUntil EXCEPT ![m] = 0]

Answered(p) ==
    /\ pc[p] = "asking"
    /\ downUntil' = Close(Head(left[p]))
    /\ pc' = [pc EXCEPT ![p] = "idle"]
    /\ left' = [left EXCEPT ![p] = <<>>]
    /\ Over(p, "answered")

\* openBreaker writes over what is there, a later time too.
Open(m, how) ==
    [downUntil EXCEPT ![m] = now + IF how = "timeout" /\ Short < Ttl THEN Short ELSE Ttl]

Failed(p, how) ==
    /\ pc[p] = "asking"
    /\ how = "timeout" => now >= sent[p] + Timeout
    /\ downUntil' = Open(Head(left[p]), how)
    /\ left' = [left EXCEPT ![p] = Tail(@)]
    /\ pc' = [pc EXCEPT ![p] = "next"]
    /\ Over(p, how)

\* No model was of use, or the command is interrupted.
End(p) ==
    /\ left[p] = <<>> \/ pc[p] = "asking"
    /\ pc[p] # "idle"
    /\ pc' = [pc EXCEPT ![p] = "idle"]
    /\ left' = [left EXCEPT ![p] = <<>>]
    /\ UNCHANGED <<now, downUntil, sent, calls, runs>>

Next ==
    \/ Tick
    \/ \E p \in Procs :
         \/ \E flag \in Flags : Start(p, flag)
         \/ Skip(p) \/ Send(p) \/ Answered(p) \/ End(p)
         \/ \E how \in {"timeout", "refused"} : Failed(p, how)

-----------------------------------------------------------------------------
TypeOK ==
    /\ now \in 1..MaxTime
    /\ downUntil \in [Models -> 0..(MaxTime + Ttl)]
    /\ pc \in [Procs -> {"idle", "next", "asking"}]
    /\ left \in [Procs -> Seq(Usable)]
    /\ sent \in [Procs -> 0..MaxTime]
    /\ runs \in 0..MaxRuns

Of(m) == {c \in calls : c.model = m}
Failures(m) == {c \in Of(m) : c.how # "answered"}
Answers(m) == Of(m) \ Failures(m)

\* A model is skipped because of a failure at most Ttl ago, since which it has not answered
\* anybody; a timeout is held against it for the shorter time.
SkipIsDeserved ==
    \A m \in Models : downUntil[m] > now =>
      \E f \in Failures(m) :
        /\ f.ended + (IF f.how = "timeout" /\ Short < Ttl THEN Short ELSE Ttl) > now
        /\ \A a \in Answers(m) : a.ended <= f.ended

\* Why a model that failed may be asked at s: its time is over, it answered somebody since, or
\* a request that was under way at the failure timed out later, for the shorter time of which the
\* breaker was then set.
MayAsk(f, s) ==
    \/ s >= f.ended + Ttl
    \/ f.how = "timeout" /\ s >= f.ended + Short
    \/ \E a \in Answers(f.model) : a.ended \in f.ended .. s
    \/ \E g \in Failures(f.model) :
         /\ g.how = "timeout" /\ g.sent <= f.ended
         /\ f.ended <= g.ended /\ g.ended + Short <= s

\* Nobody asks a model that failed before without such a reason.
NobodyPaysAgain ==
    \A p \in Procs : pc[p] = "asking" =>
      \A f \in Failures(Head(left[p])) : f.ended < sent[p] => MayAsk(f, sent[p])

BreakersAreDeserved == SkipIsDeserved /\ NobodyPaysAgain
=============================================================================
