------------------------------ MODULE EventLog ------------------------------
(***************************************************************************)
(* What the event stream of a run promises to a reader: the events are     *)
(* numbered from 1 without a gap, and a reader sees them one by one, none  *)
(* twice, none left out and none out of order, unless it starts over.      *)
(* EventStream implements it.                                              *)
(***************************************************************************)
EXTENDS Naturals, Sequences

CONSTANT Readers

VARIABLES log,   \* the numbers of the events of the run
          seen   \* [Readers -> Seq(Nat)]: what each reader saw since it last started over

Init == log = <<>> /\ seen = [c \in Readers |-> <<>>]

Extend == log' = Append(log, Len(log) + 1) /\ UNCHANGED seen

See(c) == /\ Len(seen[c]) < Len(log)
          /\ seen' = [seen EXCEPT ![c] = Append(@, log[Len(@) + 1])]
          /\ UNCHANGED log

StartOver(c) == seen' = [seen EXCEPT ![c] = <<>>] /\ UNCHANGED log

Next == Extend \/ \E c \in Readers : See(c) \/ StartOver(c)

Spec == Init /\ [][Next]_<<log, seen>>
=============================================================================
