------------------------------- MODULE OutputLog ------------------------------
(***************************************************************************)
(* What an exec record promises to the clients that stream it: its output  *)
(* is a log that only grows and ends with its first "done" entry, and each *)
(* client, over all its connections, receives entries that exist, in log   *)
(* order, none of them twice.  An entry may be skipped: which ones may is  *)
(* a separate property of ExecRecord.                                      *)
(***************************************************************************)
EXTENDS Naturals, Sequences

CONSTANT Client

VARIABLES log,    \* the kinds of the chunks published so far
          seen    \* per client, the positions (from 0) it has received

vars == <<log, seen>>

Kinds == {"output", "done"}

Init == log = <<>> /\ seen = [k \in Client |-> <<>>]

\* The producer adds an entry to a log that has not ended.
Write ==
  /\ \A i \in 1..Len(log) : log[i] # "done"
  /\ \E kind \in Kinds : log' = Append(log, kind)
  /\ UNCHANGED seen

\* A client receives an entry later than all it has received.
Read(k) ==
  /\ \E pos \in 0..(Len(log) - 1) :
       /\ \A i \in 1..Len(seen[k]) : seen[k][i] < pos
       /\ seen' = [seen EXCEPT ![k] = Append(@, pos)]
  /\ UNCHANGED log

Next == Write \/ \E k \in Client : Read(k)

Spec == Init /\ [][Next]_vars
=============================================================================
