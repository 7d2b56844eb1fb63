------------------------------- MODULE Stacks -------------------------------
(***************************************************************************)
(* What FastStack promises: stacks of items that grow without limit, can   *)
(* be cut back, and move from one object to another.  No buffers.          *)
(***************************************************************************)
EXTENDS Naturals, Sequences

CONSTANTS
  Stack,      \* the stack objects
  Item        \* the items

VARIABLES
  live,       \* the objects that have been constructed and not destroyed
  contents    \* the items of each, bottom first; <<>> of one that is not live

vars == <<live, contents>>

Init == live = {} /\ contents = [s \in Stack |-> <<>>]

Construct(s) == s \notin live /\ live' = live \cup {s} /\ UNCHANGED contents

Destroy(s) ==
  /\ s \in live
  /\ live' = live \ {s}
  /\ contents' = [contents EXCEPT ![s] = <<>>]

Push(s, x) ==
  /\ s \in live
  /\ contents' = [contents EXCEPT ![s] = Append(@, x)]
  /\ UNCHANGED live

CutBack(s, n) ==
  /\ s \in live /\ n <= Len(contents[s])
  /\ contents' = [contents EXCEPT ![s] = SubSeq(@, 1, n)]
  /\ UNCHANGED live

(* Construction or assignment of d from an expiring o: o ends up empty.    *)
Move(d, o) ==
  /\ o \in live /\ d # o
  /\ live' = live \cup {d}
  /\ contents' = [contents EXCEPT ![d] = contents[o], ![o] = <<>>]

Next ==
  \E s \in Stack :
    \/ Construct(s) \/ Destroy(s)
    \/ \E x \in Item : Push(s, x)
    \/ \E n \in 0..Len(contents[s]) : CutBack(s, n)
    \/ \E o \in Stack : Move(s, o)

Spec == Init /\ [][Next]_vars
=============================================================================
