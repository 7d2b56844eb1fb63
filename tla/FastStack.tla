----------------------------- MODULE FastStack ------------------------------
(***************************************************************************)
(* FastStack (internal/models/fast_stack.hpp): a stack of trivially        *)
(* copyable items in a buffer inside the object, which moves to a heap     *)
(* block of twice the capacity when it is full.  The objects own their     *)
(* heap blocks by hand: push_back, the moves and the destructor decide     *)
(* who frees what.                                                         *)
(***************************************************************************)
EXTENDS Integers, Sequences

CONSTANTS
  Stack,            \* the stack objects of the program
  Item,             \* the items
  Garbage,          \* an uninitialised cell
  Block,            \* addresses malloc can return
  Inline,           \* the address of an object's own inline_buffer_
  Freed,            \* a block that is not allocated
  InlineCapacity,   \* the template parameter
  Word,             \* 2^32: size_ and capacity_ are uint32_t
  MaxSize           \* bound: the most items a stack is given

ASSUME AddressAssumption == Inline \notin Block
ASSUME CellAssumption == Garbage \notin Item
ASSUME SizeAssumption ==
  /\ InlineCapacity \in Nat \ {0}
  /\ MaxSize \in Nat
  /\ Word \in Nat
  /\ InlineCapacity < Word /\ 2 * MaxSize < Word
ASSUME FreedAssumption == Freed \notin Seq(Item \cup {Garbage})

VARIABLES
  live,       \* the objects that have been constructed and not destroyed
  data,       \* data_: Inline, or a block
  size,       \* size_
  capacity,   \* capacity_
  inline,     \* the cells of inline_buffer_
  heap        \* the cells of every block, or Freed

vars == <<live, data, size, capacity, inline, heap>>

Cell == Item \cup {Garbage}
NoItems == [i \in 1..InlineCapacity |-> Garbage]
Uninitialised(n) == [i \in 1..n |-> Garbage]

(* The buffer data_ points to.                                             *)
Cells(s) == IF data[s] = Inline THEN inline[s] ELSE heap[data[s]]

(* Fault: the last item is not copied.                                     *)
CopiedShort(to, from, n) == [i \in DOMAIN to |-> IF i < n THEN from[i] ELSE to[i]]

(* memcpy(to, from, n * sizeof(T))                                         *)
Copied(to, from, n) == [i \in DOMAIN to |-> IF i <= n THEN from[i] ELSE to[i]]

(* if (data_ != inline_buffer_) std::free(data_);                          *)
Release(s, blocks) ==
  IF data[s] = Inline THEN blocks ELSE [blocks EXCEPT ![data[s]] = Freed]

Init ==
  /\ live = {}
  /\ data = [s \in Stack |-> Inline]
  /\ size = [s \in Stack |-> 0]
  /\ capacity = [s \in Stack |-> InlineCapacity]
  /\ inline = [s \in Stack |-> NoItems]
  /\ heap = [b \in Block |-> Freed]

Construct(s) ==
  /\ s \notin live
  /\ live' = live \cup {s}
  /\ data' = [data EXCEPT ![s] = Inline]
  /\ size' = [size EXCEPT ![s] = 0]
  /\ capacity' = [capacity EXCEPT ![s] = InlineCapacity]
  /\ inline' = [inline EXCEPT ![s] = NoItems]
  /\ UNCHANGED heap

Destroy(s) ==
  /\ s \in live
  /\ live' = live \ {s}
  /\ heap' = Release(s, heap)
  /\ UNCHANGED <<data, size, capacity, inline>>

(* data_[size_++] = item;                                                  *)
PushInPlace(s, x) ==
  /\ s \in live /\ size[s] < MaxSize
  /\ size[s] # capacity[s]
  /\ IF data[s] = Inline
     THEN inline' = [inline EXCEPT ![s][size[s] + 1] = x] /\ UNCHANGED heap
     ELSE heap' = [heap EXCEPT ![data[s]][size[s] + 1] = x] /\ UNCHANGED inline
  /\ size' = [size EXCEPT ![s] = @ + 1]
  /\ UNCHANGED <<live, data, capacity>>

GrowTo(s) == (capacity[s] * 2) % Word

PushGrowing(s, x) ==
  /\ s \in live /\ size[s] < MaxSize
  /\ size[s] = capacity[s]
  /\ LET n == GrowTo(s)
     IN  /\ \E b \in Block :
              /\ heap[b] = Freed
              /\ heap' = [Release(s, heap) EXCEPT
                            ![b] = [Copied(Uninitialised(n), Cells(s), size[s])
                                      EXCEPT ![size[s] + 1] = x]]
              /\ data' = [data EXCEPT ![s] = b]
         /\ capacity' = [capacity EXCEPT ![s] = n]
  /\ size' = [size EXCEPT ![s] = @ + 1]
  /\ UNCHANGED <<live, inline>>

(* The parser only cuts a stack back.                                      *)
Resize(s, n) ==
  /\ s \in live /\ n <= size[s]
  /\ size' = [size EXCEPT ![s] = n]
  /\ UNCHANGED <<live, data, capacity, inline, heap>>

(* Fault: items on the heap are copied into the inline buffer.             *)
TakeOverCopying(d, o) ==
  /\ size' = [size EXCEPT ![d] = size[o], ![o] = 0]
  /\ capacity' = [capacity EXCEPT ![d] = capacity[o], ![o] = InlineCapacity]
  /\ data' = [data EXCEPT ![d] = Inline, ![o] = Inline]
  /\ inline' = [inline EXCEPT ![d] = Cells(o)]

(* Fault: the source keeps the capacity of the block it gave away.         *)
TakeOverCapacity(d, o) ==
  /\ size' = [size EXCEPT ![d] = size[o], ![o] = 0]
  /\ capacity' = [capacity EXCEPT ![d] = capacity[o]]
  /\ data' = [data EXCEPT ![d] = data[o], ![o] = Inline]
  /\ inline' = IF data[o] = Inline
               THEN [inline EXCEPT ![d] = Copied(@, inline[o], size[o])]
               ELSE inline

(* d takes over the items of o: a heap block changes hands, items in the   *)
(* inline buffer are copied; o is left as if just constructed.             *)
TakeOver(d, o) ==
  /\ size' = [size EXCEPT ![d] = size[o], ![o] = 0]
  /\ capacity' = [capacity EXCEPT ![d] = capacity[o], ![o] = InlineCapacity]
  /\ data' = [data EXCEPT ![d] = data[o], ![o] = Inline]
  /\ inline' = IF data[o] = Inline
               THEN [inline EXCEPT ![d] = Copied(@, inline[o], size[o])]
               ELSE inline

MoveConstruct(d, o) ==
  /\ d \notin live /\ o \in live
  /\ live' = live \cup {d}
  /\ TakeOver(d, o)
  /\ UNCHANGED heap

(* Fault: assignment does not free the block it overwrites.                *)
MoveAssignLeaking(d, o) ==
  /\ d \in live /\ o \in live /\ d # o
  /\ TakeOver(d, o)
  /\ UNCHANGED <<live, heap>>

MoveAssign(d, o) ==
  /\ d \in live /\ o \in live /\ d # o
  /\ heap' = Release(d, heap)
  /\ TakeOver(d, o)
  /\ UNCHANGED live

Next ==
  \E s \in Stack :
    \/ Construct(s) \/ Destroy(s)
    \/ \E x \in Item : PushInPlace(s, x) \/ PushGrowing(s, x)
    \/ \E n \in 0..MaxSize : Resize(s, n)
    \/ \E o \in Stack : MoveConstruct(s, o) \/ MoveAssign(s, o)

Spec == Init /\ [][Next]_vars

-----------------------------------------------------------------------------
(* Correctness.                                                            *)

TypeOK ==
  /\ live \subseteq Stack
  /\ data \in [Stack -> Block \cup {Inline}]
  /\ size \in [Stack -> Nat]
  /\ capacity \in [Stack -> Nat \ {0}]
  /\ inline \in [Stack -> [1..InlineCapacity -> Cell]]
  /\ heap \in [Block -> Seq(Cell) \cup {Freed}]

(* A live stack's buffer has the capacity it believes in, its size is      *)
(* within it, and the items below size_ have all been written.             *)
BufferHoldsItems ==
  \A s \in live :
    /\ data[s] # Inline => heap[data[s]] # Freed
    /\ DOMAIN Cells(s) = 1..capacity[s]
    /\ size[s] <= capacity[s]
    /\ \A i \in 1..size[s] : Cells(s)[i] \in Item

(* Every allocated block has exactly one live owner: nothing leaks, and no *)
(* block is freed twice or written after it was freed, however the stacks  *)
(* grow, move and die.                                                     *)
BlocksOwnedOnce ==
  /\ \A s, t \in live : data[s] = data[t] /\ data[s] # Inline => s = t
  /\ \A b \in Block : heap[b] # Freed => \E s \in live : data[s] = b

Contents(s) == IF s \in live THEN [i \in 1..size[s] |-> Cells(s)[i]] ELSE <<>>

Abstract == INSTANCE Stacks WITH contents <- [s \in Stack |-> Contents(s)]

(* Whatever buffer it is in, a stack reads back what was pushed: growth,   *)
(* cutting back and moves lose, repeat and reorder nothing.                *)
ImplementsStacks == Abstract!Spec
=============================================================================
