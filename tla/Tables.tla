------------------------------- MODULE Tables -------------------------------
(***************************************************************************)
(* What Storage promises: tables of byte sequences, one table per kind.    *)
(* What is added stays as it is, at its index, until the object dies or    *)
(* its tables move to another.  No memory.                                 *)
(***************************************************************************)
EXTENDS Naturals, Sequences

CONSTANTS
  Store,      \* the Storage objects
  Kind,       \* strings, arrays, objects
  Bytes       \* the byte sequences that can be added

VARIABLES
  live,       \* the objects constructed and not destroyed
  table       \* for each object and kind, what was added, in order

vars == <<live, table>>

Nothing == [k \in Kind |-> <<>>]

Init == live = {} /\ table = [s \in Store |-> Nothing]

Construct(s) == s \notin live /\ live' = live \cup {s} /\ UNCHANGED table

Destroy(s) ==
  /\ s \in live
  /\ live' = live \ {s}
  /\ table' = [table EXCEPT ![s] = Nothing]

Add(s, k, bytes) ==
  /\ s \in live
  /\ table' = [table EXCEPT ![s][k] = Append(@, bytes)]
  /\ UNCHANGED live

Move(d, o) ==
  /\ o \in live /\ d # o
  /\ live' = live \cup {d}
  /\ table' = [table EXCEPT ![d] = table[o], ![o] = Nothing]

Next ==
  \E s \in Store :
    \/ Construct(s) \/ Destroy(s)
    \/ \E k \in Kind, bytes \in Bytes : Add(s, k, bytes)
    \/ \E o \in Store : Move(s, o)

Spec == Init /\ [][Next]_vars
=============================================================================
