---------------------------- MODULE MC_BlockingRun ----------------------------
\* A behaviour, `part', is either one run with every check, a stop and faults ("alone": the
\* other one never starts), or two runs that retry over the same agents ("pair").
EXTENDS BlockingRun

CONSTANTS s, w
VARIABLE part

Two == {s, w}
OnlyS == {s}

Pair == INSTANCE BlockingRun WITH
  Verified <- {}, Sandboxed <- {}, Retries <- 2, MaxStops <- 0, MaxFaults <- 0

\* The round robin may as well begin behind the first candidate, for they are all alike.
InitEither == Init /\ index = 0 /\ part \in {"alone", "pair"}

NextEither ==
  /\ \/ part = "alone" /\ (Step(s) \/ Faulty(s) \/ Outside(s))
     \/ part = "pair" /\ Pair!Next
  /\ UNCHANGED part

SpecEither ==
  /\ InitEither /\ [][NextEither]_<<part, vars>>
  /\ WF_vars(/\ part = "alone" /\ UNCHANGED part
             /\ (pc[s] \notin Commands /\ Step(s)) \/ UnheardError(s))
  /\ \A r \in Runs :
        WF_vars(part = "pair" /\ pc[r] \notin Commands /\ Pair!Step(r) /\ UNCHANGED part)
=============================================================================
