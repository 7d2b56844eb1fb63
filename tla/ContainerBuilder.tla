-------------------------- MODULE ContainerBuilder --------------------------
(***************************************************************************)
(* What ParserBase promises about the document it builds, without tokens   *)
(* and without shared stacks: every open container has a list of its own,  *)
(* a finished value goes into the innermost open container exactly once,   *)
(* and a rejected document leaves nothing behind.                          *)
(***************************************************************************)
EXTENDS Integers, Sequences, SequencesExt

CONSTANTS
  Texts,        \* contents of strings
  JsonValues,   \* tagged values: type and payload
  Keys,         \* member keys
  NoKey,        \* the key of an object whose next key is not read yet
  NoRoot        \* no value

VARIABLES
  strings,      \* the string table
  arrays,       \* the finished arrays
  objects,      \* the finished objects
  root,         \* the document, once delivered
  open,         \* the containers under construction, outermost first
  ret,          \* the finished value that has no owner yet, or NoRoot
  outcome       \* "building", "accepted" or "rejected"

vars == <<strings, arrays, objects, root, open, ret, outcome>>

Top == Last(open)
Building == outcome = "building"

Init ==
  /\ strings = <<>> /\ arrays = <<>> /\ objects = <<>>
  /\ root = NoRoot
  /\ open = <<>>
  /\ ret = NoRoot
  /\ outcome \in {"building", "rejected"}

(* A null, boolean, number or string value appears.                        *)
Leaf ==
  /\ Building /\ ret = NoRoot
  /\ ret' \in JsonValues
  /\ \/ ret'.type \in {"Null", "Boolean", "Integer", "Double"} /\ UNCHANGED strings
     \/ /\ ret' = [type |-> "String", payload |-> Len(strings)]
        /\ \E t \in Texts : strings' = Append(strings, t)
  /\ UNCHANGED <<arrays, objects, root, open, outcome>>

OpenContainer ==
  /\ Building /\ ret = NoRoot
  /\ \E kind \in {"Array", "Object"} :
       open' = Append(open, [kind |-> kind, key |-> NoKey, items |-> <<>>])
  /\ UNCHANGED <<strings, arrays, objects, root, ret, outcome>>

SetKey ==
  /\ Building /\ ret = NoRoot
  /\ open # <<>> /\ Top.kind = "Object"
  /\ Len(open') = Len(open)
  /\ LET key == Last(open').key
     IN  /\ key \in Keys
         /\ open' = [open EXCEPT ![Len(open)].key = key]
  /\ strings' = strings \/ \E t \in Texts : strings' = Append(strings, t)
  /\ UNCHANGED <<arrays, objects, root, ret, outcome>>

AddItem ==
  /\ Building /\ ret # NoRoot /\ open # <<>>
  /\ LET item == IF Top.kind = "Array" THEN ret ELSE [key |-> Top.key, value |-> ret]
     IN  open' = [open EXCEPT ![Len(open)].items = Append(@, item)]
  /\ ret' = NoRoot
  /\ UNCHANGED <<strings, arrays, objects, root, outcome>>

Seal ==
  /\ Building /\ ret = NoRoot /\ open # <<>>
  /\ open' = Front(open)
  /\ \/ /\ Top.kind = "Array"
        /\ arrays' = Append(arrays, Top.items)
        /\ ret' = [type |-> "Array", payload |-> Len(arrays)]
        /\ UNCHANGED objects
     \/ /\ Top.kind = "Object"
        /\ objects' = Append(objects, Top.items)
        /\ ret' = [type |-> "Object", payload |-> Len(objects)]
        /\ UNCHANGED arrays
  /\ UNCHANGED <<strings, root, outcome>>

Deliver ==
  /\ Building /\ ret # NoRoot /\ open = <<>>
  /\ root' = ret
  /\ ret' = NoRoot
  /\ outcome' = "accepted"
  /\ UNCHANGED <<strings, arrays, objects, open>>

Reject ==
  /\ Building
  /\ strings' = <<>> /\ arrays' = <<>> /\ objects' = <<>>
  /\ root' = NoRoot
  /\ open' = <<>>
  /\ ret' = NoRoot
  /\ outcome' = "rejected"

Next ==
  \/ Leaf \/ OpenContainer \/ SetKey \/ AddItem \/ Seal \/ Deliver \/ Reject

Spec == Init /\ [][Next]_vars
=============================================================================
