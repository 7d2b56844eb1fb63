-------------------------- MODULE FastStackProofs ---------------------------
(***************************************************************************)
(* Proofs about FastStack, for any number of stacks, any items, any inline *)
(* capacity: every heap block has one owner, and a stack is the sequence   *)
(* of what was pushed.                                                     *)
(***************************************************************************)
EXTENDS FastStack, SequenceTheorems, TLAPS

IInv == TypeOK /\ BufferHoldsItems /\ BlocksOwnedOnce

(* A function on 1..n is a sequence of length n.                           *)
LEMMA FunctionIsSeq ==
  ASSUME NEW S, NEW n \in Nat, NEW f \in [1..n -> S]
  PROVE  f \in Seq(S) /\ Len(f) = n
OBVIOUS

(* What a stack reads back.                                                *)
LEMMA ContentsFacts ==
  ASSUME TypeOK, BufferHoldsItems, NEW s \in Stack
  PROVE  /\ Contents(s) \in Seq(Item)
         /\ s \in live => Len(Contents(s)) = size[s]
         /\ s \in live => \A i \in 1..size[s] : Contents(s)[i] = Cells(s)[i]
<1>1. CASE s \in live
  <2>1. size[s] \in Nat /\ \A i \in 1..size[s] : Cells(s)[i] \in Item
    BY <1>1 DEF TypeOK, BufferHoldsItems
  <2>2. Contents(s) = [i \in 1..size[s] |-> Cells(s)[i]]
    BY <1>1 DEF Contents
  <2>3. Contents(s) \in [1..size[s] -> Item]
    BY <2>1, <2>2
  <2> QED
    BY <1>1, <2>1, <2>2, <2>3, FunctionIsSeq
<1>2. CASE s \notin live
  BY <1>2, EmptySeq DEF Contents
<1> QED
  BY <1>1, <1>2

(* The buffer of a live stack is a sequence of capacity_ cells.            *)
LEMMA BufferFacts ==
  ASSUME TypeOK, BufferHoldsItems, NEW s \in live
  PROVE  /\ s \in Stack /\ Cells(s) \in [1..capacity[s] -> Cell]
         /\ size[s] \in Nat /\ capacity[s] \in Nat \ {0} /\ size[s] <= capacity[s]
         /\ data[s] # Inline => data[s] \in Block /\ heap[data[s]] = Cells(s)
         /\ data[s] = Inline => inline[s] = Cells(s)
<1>1. s \in Stack /\ DOMAIN Cells(s) = 1..capacity[s] /\ size[s] <= capacity[s]
  BY DEF TypeOK, BufferHoldsItems
<1>2. CASE data[s] = Inline
  <2>1. Cells(s) = inline[s] /\ inline[s] \in [1..InlineCapacity -> Cell]
    BY <1>1, <1>2 DEF Cells, TypeOK
  <2> QED
    BY <1>1, <1>2, <2>1 DEF TypeOK
<1>3. CASE data[s] # Inline
  <2>1. data[s] \in Block /\ Cells(s) = heap[data[s]] /\ heap[data[s]] # Freed
    BY <1>1, <1>3 DEF Cells, TypeOK, BufferHoldsItems
  <2>2. Cells(s) \in Seq(Cell)
    BY <2>1 DEF TypeOK
  <2>3. Cells(s) \in [1..Len(Cells(s)) -> Cell] /\ DOMAIN Cells(s) = 1..Len(Cells(s))
    BY <2>2, LenProperties
  <2>4. Cells(s) \in [1..capacity[s] -> Cell]
    BY <1>1, <2>3
  <2> QED
    BY <1>1, <1>3, <2>1, <2>4 DEF TypeOK
<1> QED
  BY <1>2, <1>3

(* A stack whose buffer and size a step leaves alone reads as before.      *)
LEMMA ContentsKept ==
  ASSUME TypeOK, BufferHoldsItems, NEW s \in live, s \in live',
         size'[s] = size[s], \A i \in 1..size[s] : Cells(s)'[i] = Cells(s)[i]
  PROVE  Contents(s)' = Contents(s)
<1>1. size[s] \in Nat
  BY BufferFacts
<1>2. Contents(s)' = [i \in 1..size'[s] |-> Cells(s)'[i]]
  BY DEF Contents
<1>3. Contents(s) = [i \in 1..size[s] |-> Cells(s)[i]]
  BY DEF Contents
<1> QED
  BY <1>1, <1>2, <1>3

-----------------------------------------------------------------------------
(* Pushing.                                                                *)

(* What either push does: s has a buffer of its own that begins with its   *)
(* items and the new one; nothing the other stacks have changes.           *)
LEMMA PushContents ==
  ASSUME IInv, NEW s \in live, NEW x \in Item, UNCHANGED live,
         size' = [size EXCEPT ![s] = @ + 1],
         \A i \in 1..size[s] : Cells(s)'[i] = Cells(s)[i],
         Cells(s)'[size[s] + 1] = x,
         \A t \in live \ {s} : Cells(t)' = Cells(t)
  PROVE  Abstract!Push(s, x)
<1>1. TypeOK /\ BufferHoldsItems /\ s \in Stack /\ size[s] \in Nat
  BY BufferFacts DEF IInv
<1>2. size'[s] = size[s] + 1 /\ \A t \in live \ {s} : size'[t] = size[t]
  BY <1>1 DEF TypeOK
<1>3. \A t \in live \ {s} : Contents(t)' = Contents(t)
  <2> TAKE t \in live \ {s}
  <2> QED
    BY <1>1, <1>2, ContentsKept
<1>4. \A t \in Stack \ live : Contents(t)' = Contents(t)
  BY DEF Contents
<1>5. Contents(s)' = Append(Contents(s), x)
  <2>1. Contents(s)' = [i \in 1..(size[s] + 1) |-> Cells(s)'[i]]
    BY <1>2 DEF Contents
  <2>2. /\ Contents(s) \in Seq(Item) /\ Len(Contents(s)) = size[s]
        /\ \A i \in 1..size[s] : Contents(s)[i] = Cells(s)[i]
    BY <1>1, ContentsFacts
  <2>3. \A i \in 1..(size[s] + 1) : Cells(s)'[i] \in Item
    BY <1>1 DEF BufferHoldsItems
  <2>4. Contents(s)' \in [1..(size[s] + 1) -> Item]
    BY <2>1, <2>3
  <2>5. Contents(s)' \in Seq(Item) /\ Len(Contents(s)') = size[s] + 1
    BY <1>1, <2>4, FunctionIsSeq
  <2>6. /\ Append(Contents(s), x) \in Seq(Item)
        /\ Len(Append(Contents(s), x)) = size[s] + 1
        /\ \A i \in 1..size[s] : Append(Contents(s), x)[i] = Contents(s)[i]
        /\ Append(Contents(s), x)[size[s] + 1] = x
    BY <2>2, AppendProperties
  <2>7. \A i \in 1..(size[s] + 1) : Contents(s)'[i] = Append(Contents(s), x)[i]
    <3> TAKE i \in 1..(size[s] + 1)
    <3>1. CASE i = size[s] + 1
      BY <1>1, <2>1, <2>6, <3>1
    <3>2. CASE i # size[s] + 1
      <4>1. i \in 1..size[s]
        BY <1>1, <3>2
      <4> QED
        BY <2>1, <2>2, <2>6, <4>1
    <3> QED
      BY <3>1, <3>2
  <2> QED
    BY <2>5, <2>6, <2>7, SeqEqual
<1> QED
  BY <1>1, <1>3, <1>4, <1>5 DEF Abstract!Push

(* Pushing within the capacity.                                            *)
LEMMA PushInPlaceStep ==
  ASSUME IInv, NEW s \in Stack, NEW x \in Item, PushInPlace(s, x)
  PROVE  IInv' /\ Abstract!Push(s, x)
<1>0. /\ s \in live /\ size[s] # capacity[s]
      /\ size' = [size EXCEPT ![s] = @ + 1]
      /\ UNCHANGED <<live, data, capacity>>
  BY DEF PushInPlace
<1>1. /\ TypeOK /\ BufferHoldsItems /\ BlocksOwnedOnce
      /\ Cells(s) \in [1..capacity[s] -> Cell]
      /\ size[s] \in Nat /\ capacity[s] \in Nat \ {0} /\ size[s] <= capacity[s]
      /\ data[s] # Inline => data[s] \in Block /\ heap[data[s]] = Cells(s)
      /\ data[s] = Inline => inline[s] = Cells(s)
  BY <1>0, BufferFacts DEF IInv
<1> DEFINE n == size[s] + 1
           pushed == [Cells(s) EXCEPT ![n] = x]
<1>2. n \in 1..capacity[s]
  BY <1>0, <1>1
<1>3. pushed \in [1..capacity[s] -> Cell] /\ pushed \in Seq(Cell)
  <2>1. pushed \in [1..capacity[s] -> Cell]
    BY <1>1 DEF Cell
  <2> QED
    BY <1>1, <2>1, FunctionIsSeq
<1>4. /\ data[s] = Inline => inline' = [inline EXCEPT ![s] = pushed] /\ heap' = heap
      /\ data[s] # Inline => heap' = [heap EXCEPT ![data[s]] = pushed] /\ inline' = inline
  BY <1>1 DEF PushInPlace
<1>5. Cells(s)' = pushed
  BY <1>0, <1>1, <1>4 DEF Cells, TypeOK
<1>6. \A t \in live \ {s} : Cells(t)' = Cells(t) /\ (data[t] # Inline => data[t] # data[s])
  BY <1>0, <1>1, <1>4 DEF Cells, TypeOK, BlocksOwnedOnce
<1>7. TypeOK'
  <2>1. size' \in [Stack -> Nat]
    BY <1>0, <1>1 DEF TypeOK
  <2>2. inline' \in [Stack -> [1..InlineCapacity -> Cell]]
    <3>1. CASE data[s] = Inline
      <4>1. DOMAIN inline[s] = 1..InlineCapacity
        BY <1>1 DEF TypeOK
      <4>2. pushed \in [1..InlineCapacity -> Cell]
        BY <1>1, <1>3, <3>1, <4>1
      <4> QED
        BY <1>1, <1>4, <3>1, <4>2 DEF TypeOK
    <3>2. CASE data[s] # Inline
      BY <1>1, <1>4, <3>2 DEF TypeOK
    <3> QED
      BY <3>1, <3>2
  <2>3. heap' \in [Block -> Seq(Cell) \cup {Freed}]
    BY <1>1, <1>3, <1>4 DEF TypeOK
  <2> QED
    BY <1>0, <1>1, <2>1, <2>2, <2>3 DEF TypeOK
<1>8. BufferHoldsItems'
  <2> SUFFICES ASSUME NEW t \in live
               PROVE  /\ data[t] # Inline => heap'[data[t]] # Freed
                      /\ DOMAIN Cells(t)' = 1..capacity[t]
                      /\ size'[t] <= capacity[t]
                      /\ \A i \in 1..size'[t] : Cells(t)'[i] \in Item
    BY <1>0 DEF BufferHoldsItems
  <2>1. CASE t = s
    <3>1. size'[s] = n
      BY <1>0, <1>1 DEF TypeOK
    <3>2. data[s] # Inline => heap'[data[s]] # Freed
      <4>1. Freed \notin Seq(Cell)
        BY FreedAssumption DEF Cell
      <4> QED
        BY <1>1, <1>3, <1>4, <4>1 DEF TypeOK
    <3>3. \A i \in 1..n : pushed[i] \in Item
      <4> TAKE i \in 1..n
      <4>1. i # n => i \in 1..size[s]
        BY <1>1
      <4> QED
        BY <1>0, <1>1, <1>2, <4>1 DEF BufferHoldsItems
    <3>4. DOMAIN pushed = 1..capacity[s] /\ n <= capacity[s]
      BY <1>2, <1>3
    <3> HIDE DEF pushed, n
    <3> QED
      BY <1>5, <2>1, <3>1, <3>2, <3>3, <3>4
  <2>2. CASE t # s
    <3>1. Cells(t)' = Cells(t) /\ size'[t] = size[t]
      BY <1>0, <1>1, <1>6, <2>2 DEF TypeOK
    <3>2. data[t] # Inline => heap'[data[t]] # Freed
      BY <1>1, <1>4, <1>6, <2>2 DEF BufferHoldsItems, TypeOK
    <3> QED
      BY <1>1, <3>1, <3>2 DEF BufferHoldsItems
  <2> QED
    BY <2>1, <2>2
<1>9. BlocksOwnedOnce'
  BY <1>0, <1>1, <1>4 DEF BlocksOwnedOnce, TypeOK
<1>10. IInv'
  BY <1>7, <1>8, <1>9 DEF IInv
<1>11. Abstract!Push(s, x)
  <2>1. Cells(s)'[n] = x /\ \A i \in 1..size[s] : Cells(s)'[i] = Cells(s)[i]
    BY <1>1, <1>2, <1>5
  <2> QED
    BY <1>0, <1>6, <1>10, <2>1, PushContents DEF IInv
<1> QED
  BY <1>10, <1>11

(* Pushing beyond it: the new block had no owner, and the old one gets     *)
(* none.                                                                   *)
LEMMA PushGrowingStep ==
  ASSUME IInv, NEW s \in Stack, NEW x \in Item, PushGrowing(s, x)
  PROVE  IInv' /\ Abstract!Push(s, x)
<1> DEFINE n == 2 * capacity[s]
           new == [Copied(Uninitialised(n), Cells(s), size[s])
                     EXCEPT ![size[s] + 1] = x]
<1>1. /\ TypeOK /\ BufferHoldsItems /\ BlocksOwnedOnce /\ s \in live
      /\ Cells(s) \in [1..capacity[s] -> Cell]
      /\ size[s] \in Nat /\ capacity[s] \in Nat \ {0} /\ size[s] = capacity[s]
      /\ data[s] # Inline => data[s] \in Block
  <2>1. s \in live
    BY DEF PushGrowing
  <2> QED
    BY <2>1, BufferFacts DEF IInv, PushGrowing
<1>2. GrowTo(s) = n /\ n \in Nat /\ size[s] < n
  <2>1. capacity[s] < MaxSize
    BY <1>1 DEF PushGrowing
  <2> QED
    BY <1>1, <2>1, SizeAssumption DEF GrowTo
<1>3. PICK b \in Block :
        /\ heap[b] = Freed
        /\ heap' = [Release(s, heap) EXCEPT ![b] = new]
        /\ data' = [data EXCEPT ![s] = b]
  <2>0. DOMAIN Uninitialised(n) = 1..n
    BY DEF Uninitialised
  <2> QED
    BY <1>2, <2>0 DEF PushGrowing
<1>4. /\ size' = [size EXCEPT ![s] = @ + 1]
      /\ capacity' = [capacity EXCEPT ![s] = n]
      /\ UNCHANGED <<live, inline>>
  BY <1>2 DEF PushGrowing
<1>5. new \in [1..n -> Cell]
  <2>1. \A i \in 1..size[s] : Cells(s)[i] \in Cell
    BY <1>1
  <2>2. Copied(Uninitialised(n), Cells(s), size[s]) \in [1..n -> Cell]
    BY <2>1 DEF Copied, Uninitialised, Cell
  <2> QED
    BY <2>2 DEF Cell
<1>6. /\ new[size[s] + 1] = x
      /\ \A i \in 1..size[s] : new[i] = Cells(s)[i]
  <2> DEFINE copy == Copied(Uninitialised(n), Cells(s), size[s])
  <2>1. DOMAIN copy = 1..n
    BY DEF Copied, Uninitialised
  <2>2. \A i \in 1..size[s] : i \in 1..n /\ i # size[s] + 1
    BY <1>1, <1>2
  <2>3. \A i \in 1..size[s] : copy[i] = Cells(s)[i]
    BY <1>1, <2>2 DEF Copied, Uninitialised
  <2>4. size[s] + 1 \in 1..n
    BY <1>1, <1>2
  <2>5. new = [copy EXCEPT ![size[s] + 1] = x]
    OBVIOUS
  <2> HIDE DEF copy, new, n
  <2> QED
    BY <2>1, <2>2, <2>3, <2>4, <2>5
<1>7. new \in Seq(Cell) /\ new # Freed
  <2>1. new \in Seq(Cell)
    BY <1>2, <1>5, FunctionIsSeq
  <2> QED
    BY <2>1, FreedAssumption DEF Cell
<1> HIDE DEF new
<1>8. /\ heap'[b] = new /\ data'[s] = b /\ b # data[s]
      /\ \A t \in live \ {s} : data'[t] = data[t] /\ (data[t] # Inline => data[t] # b /\ data[t] # data[s])
      /\ \A c \in Block \ {b} : heap'[c] = IF c = data[s] THEN Freed ELSE heap[c]
  <2>1. heap'[b] = new /\ data'[s] = b
    BY <1>1, <1>3 DEF Release, TypeOK
  <2>2. \A t \in live : data[t] # Inline => data[t] # b
    BY <1>1, <1>3 DEF BufferHoldsItems
  <2>3. b # data[s]
    BY <1>1, <2>2, AddressAssumption
  <2>4. \A t \in live \ {s} : data'[t] = data[t] /\ (data[t] # Inline => data[t] # data[s])
    BY <1>1, <1>3 DEF TypeOK, BlocksOwnedOnce
  <2>5. \A c \in Block \ {b} : heap'[c] = IF c = data[s] THEN Freed ELSE heap[c]
    BY <1>1, <1>3, AddressAssumption DEF Release, TypeOK
  <2> QED
    BY <2>1, <2>2, <2>3, <2>4, <2>5
<1>9. Cells(s)' = new
  BY <1>8, AddressAssumption DEF Cells
<1>10. \A t \in live \ {s} : Cells(t)' = Cells(t) /\ (data[t] # Inline => heap'[data[t]] = heap[data[t]])
  BY <1>1, <1>4, <1>8 DEF Cells, TypeOK
<1>11. TypeOK'
  <2>1. size' \in [Stack -> Nat] /\ capacity' \in [Stack -> Nat \ {0}]
    BY <1>1, <1>2, <1>4 DEF TypeOK
  <2>2. data' \in [Stack -> Block \cup {Inline}]
    BY <1>1, <1>3 DEF TypeOK
  <2>3. heap' \in [Block -> Seq(Cell) \cup {Freed}]
    BY <1>1, <1>3, <1>7 DEF TypeOK, Release
  <2> QED
    BY <1>1, <1>4, <2>1, <2>2, <2>3 DEF TypeOK
<1>12. BufferHoldsItems'
  <2> SUFFICES ASSUME NEW t \in live
               PROVE  /\ data'[t] # Inline => heap'[data'[t]] # Freed
                      /\ DOMAIN Cells(t)' = 1..capacity'[t]
                      /\ size'[t] <= capacity'[t]
                      /\ \A i \in 1..size'[t] : Cells(t)'[i] \in Item
    BY <1>4 DEF BufferHoldsItems
  <2>1. CASE t = s
    <3>1. size'[s] = size[s] + 1 /\ capacity'[s] = n
      BY <1>1, <1>4 DEF TypeOK
    <3>2. \A i \in 1..(size[s] + 1) : new[i] \in Item
      <4> TAKE i \in 1..(size[s] + 1)
      <4>1. i # size[s] + 1 => i \in 1..size[s]
        BY <1>1
      <4>2. \A j \in 1..size[s] : Cells(s)[j] \in Item
        BY <1>1 DEF BufferHoldsItems
      <4> QED
        BY <1>6, <4>1, <4>2
    <3>3. DOMAIN new = 1..n /\ size[s] + 1 <= n
      BY <1>1, <1>2, <1>5
    <3> HIDE DEF n
    <3> QED
      BY <1>7, <1>8, <1>9, <2>1, <3>1, <3>2, <3>3
  <2>2. CASE t # s
    <3>1. Cells(t)' = Cells(t) /\ size'[t] = size[t] /\ capacity'[t] = capacity[t]
      BY <1>1, <1>4, <1>10, <2>2 DEF TypeOK
    <3>2. data'[t] # Inline => heap'[data'[t]] # Freed
      BY <1>1, <1>8, <1>10, <2>2 DEF BufferHoldsItems
    <3> QED
      BY <1>1, <3>1, <3>2 DEF BufferHoldsItems
  <2> QED
    BY <2>1, <2>2
<1>13. BlocksOwnedOnce'
  <2>1. \A t, u \in live : data'[t] = data'[u] /\ data'[t] # Inline => t = u
    BY <1>1, <1>8 DEF BlocksOwnedOnce
  <2>2. \A c \in Block : heap'[c] # Freed => \E t \in live : data'[t] = c
    <3> SUFFICES ASSUME NEW c \in Block, heap'[c] # Freed
                 PROVE  \E t \in live : data'[t] = c
      OBVIOUS
    <3>1. CASE c = b
      BY <1>1, <1>8, <3>1
    <3>2. CASE c # b
      <4>1. heap[c] # Freed /\ c # data[s]
        BY <1>8, <3>2
      <4>2. PICK t \in live : data[t] = c
        BY <1>1, <4>1 DEF BlocksOwnedOnce
      <4> QED
        BY <1>8, <4>1, <4>2
    <3> QED
      BY <3>1, <3>2
  <2> QED
    BY <1>4, <2>1, <2>2 DEF BlocksOwnedOnce
<1>14. IInv'
  BY <1>11, <1>12, <1>13 DEF IInv
<1>15. Abstract!Push(s, x)
  <2>1. /\ Cells(s)'[size[s] + 1] = x
        /\ \A i \in 1..size[s] : Cells(s)'[i] = Cells(s)[i]
    BY <1>6, <1>9
  <2> QED
    BY <1>1, <1>4, <1>10, <2>1, PushContents
<1> QED
  BY <1>14, <1>15
-----------------------------------------------------------------------------
(* The other operations.                                                   *)

(* Cutting back leaves the buffer as it is.                                *)
LEMMA ResizeStep ==
  ASSUME IInv, NEW s \in Stack, NEW n \in 0..MaxSize, Resize(s, n)
  PROVE  IInv' /\ Abstract!CutBack(s, n)
<1>1. /\ s \in live /\ n <= size[s] /\ n \in Nat
      /\ size' = [size EXCEPT ![s] = n]
      /\ UNCHANGED <<live, data, capacity, inline, heap>>
  BY SizeAssumption DEF Resize
<1>2. TypeOK /\ BufferHoldsItems /\ BlocksOwnedOnce
  BY DEF IInv
<1>3. \A t \in Stack : Cells(t)' = Cells(t)
  BY <1>1 DEF Cells
<1>4. size'[s] = n /\ \A t \in live \ {s} : size'[t] = size[t]
  BY <1>1, <1>2 DEF TypeOK
<1>5. TypeOK' /\ BlocksOwnedOnce'
  BY <1>1, <1>2 DEF TypeOK, BlocksOwnedOnce
<1>6. BufferHoldsItems'
  <2> SUFFICES ASSUME NEW t \in live
               PROVE  /\ data[t] # Inline => heap[data[t]] # Freed
                      /\ DOMAIN Cells(t)' = 1..capacity[t]
                      /\ size'[t] <= capacity[t]
                      /\ \A i \in 1..size'[t] : Cells(t)'[i] \in Item
    BY <1>1 DEF BufferHoldsItems
  <2>1. t \in Stack /\ size[t] \in Nat /\ capacity[t] \in Nat
    BY <1>2 DEF TypeOK
  <2>2. size'[t] \in Nat /\ size'[t] <= size[t]
    BY <1>1, <1>4, <2>1
  <2> QED
    BY <1>2, <1>3, <2>1, <2>2 DEF BufferHoldsItems
<1>7. Contents(s)' = SubSeq(Contents(s), 1, n) /\ n <= Len(Contents(s))
  <2>1. /\ Contents(s) \in Seq(Item) /\ Len(Contents(s)) = size[s] /\ size[s] \in Nat
        /\ Contents(s) = [i \in 1..size[s] |-> Cells(s)[i]]
    BY <1>1, <1>2, ContentsFacts DEF TypeOK, Contents
  <2>2. Contents(s)' = [i \in 1..n |-> Cells(s)[i]]
    BY <1>1, <1>2, <1>3, <1>4 DEF Contents
  <2>3. SubSeq(Contents(s), 1, n) = [i \in 1..n |-> Contents(s)[i]]
    BY <1>1, <2>1, SubSeqProperties
  <2>4. \A i \in 1..n : Contents(s)[i] = Cells(s)[i]
    BY <1>1, <2>1
  <2> QED
    BY <1>1, <2>1, <2>2, <2>3, <2>4
<1>8. \A t \in Stack \ {s} : Contents(t)' = Contents(t)
  <2>1. \A t \in live \ {s} : Contents(t)' = Contents(t)
    <3> TAKE t \in live \ {s}
    <3> QED
      BY <1>1, <1>2, <1>3, <1>4, ContentsKept DEF TypeOK
  <2> QED
    BY <1>1, <2>1 DEF Contents
<1> QED
  BY <1>1, <1>2, <1>5, <1>6, <1>7, <1>8 DEF IInv, Abstract!CutBack

(* Construction.                                                           *)
LEMMA ConstructStep ==
  ASSUME IInv, NEW s \in Stack, Construct(s)
  PROVE  IInv' /\ Abstract!Construct(s)
<1>1. TypeOK /\ BufferHoldsItems /\ BlocksOwnedOnce /\ s \notin live /\ live' = live \cup {s}
  BY DEF IInv, Construct
<1>2. NoItems \in [1..InlineCapacity -> Cell] /\ InlineCapacity \in Nat \ {0}
  BY SizeAssumption DEF NoItems, Cell
<1>3. /\ data'[s] = Inline /\ size'[s] = 0 /\ capacity'[s] = InlineCapacity
      /\ inline'[s] = NoItems /\ heap' = heap
      /\ \A t \in live : /\ t # s /\ data'[t] = data[t] /\ size'[t] = size[t]
                         /\ capacity'[t] = capacity[t] /\ Cells(t)' = Cells(t)
  BY <1>1 DEF Construct, TypeOK, Cells
<1>4. TypeOK'
  BY <1>1, <1>2 DEF TypeOK, Construct
<1>5. BufferHoldsItems'
  <2>1. Cells(s)' = NoItems /\ DOMAIN NoItems = 1..InlineCapacity
    BY <1>3 DEF Cells, NoItems
  <2> QED
    BY <1>1, <1>2, <1>3, <2>1 DEF BufferHoldsItems
<1>6. BlocksOwnedOnce'
  BY <1>1, <1>3 DEF BlocksOwnedOnce
<1>7. Contents(s) = <<>> /\ Contents(s)' = <<>>
  BY <1>1, <1>3 DEF Contents
<1>8. \A t \in Stack \ {s} : Contents(t)' = Contents(t)
  <2>1. \A t \in live : Contents(t)' = Contents(t)
    BY <1>1, <1>3, ContentsKept
  <2> QED
    BY <1>1, <2>1 DEF Contents
<1> QED
  BY <1>1, <1>4, <1>5, <1>6, <1>7, <1>8 DEF IInv, Abstract!Construct

(* Destruction frees the one block the stack owns.                         *)
LEMMA DestroyStep ==
  ASSUME IInv, NEW s \in Stack, Destroy(s)
  PROVE  IInv' /\ Abstract!Destroy(s)
<1>1. /\ TypeOK /\ BufferHoldsItems /\ BlocksOwnedOnce /\ s \in live
      /\ live' = live \ {s} /\ heap' = Release(s, heap)
      /\ UNCHANGED <<data, size, capacity, inline>>
  BY DEF IInv, Destroy
<1>2. \A b \in Block : heap'[b] = IF b = data[s] THEN Freed ELSE heap[b]
  BY <1>1, AddressAssumption DEF Release, TypeOK
<1>3. \A t \in live' : Cells(t)' = Cells(t) /\ (data[t] # Inline => heap'[data[t]] = heap[data[t]])
  BY <1>1, <1>2 DEF Cells, TypeOK, BlocksOwnedOnce
<1>4. TypeOK'
  BY <1>1 DEF TypeOK, Release
<1>5. BufferHoldsItems'
  BY <1>1, <1>3 DEF BufferHoldsItems
<1>6. BlocksOwnedOnce'
  BY <1>1, <1>2 DEF BlocksOwnedOnce
<1>7. Contents(s)' = <<>> /\ \A t \in Stack \ {s} : Contents(t)' = Contents(t)
  <2>1. \A t \in live' : Contents(t)' = Contents(t)
    BY <1>1, <1>3, ContentsKept
  <2> QED
    BY <1>1, <2>1 DEF Contents
<1> QED
  BY <1>1, <1>4, <1>5, <1>6, <1>7 DEF IInv, Abstract!Destroy
(* Both moves: d takes over what o owns, and gives up what it owned.       *)
LEMMA MoveStep ==
  ASSUME IInv, NEW d \in Stack, NEW o \in live, d # o, TakeOver(d, o),
         live' = live \cup {d},
         heap' = IF d \in live THEN Release(d, heap) ELSE heap
  PROVE  IInv' /\ Abstract!Move(d, o)
<1>1. /\ TypeOK /\ BufferHoldsItems /\ BlocksOwnedOnce /\ o \in Stack
      /\ Cells(o) \in [1..capacity[o] -> Cell]
      /\ size[o] \in Nat /\ capacity[o] \in Nat \ {0} /\ size[o] <= capacity[o]
      /\ data[o] # Inline => data[o] \in Block /\ heap[data[o]] = Cells(o)
      /\ data[o] = Inline => inline[o] = Cells(o)
      /\ InlineCapacity \in Nat \ {0}
  BY BufferFacts, SizeAssumption DEF IInv
<1>2. /\ data'[d] = data[o] /\ size'[d] = size[o] /\ capacity'[d] = capacity[o]
      /\ data'[o] = Inline /\ size'[o] = 0 /\ capacity'[o] = InlineCapacity
      /\ inline'[o] = inline[o]
      /\ \A t \in Stack \ {d, o} : /\ data'[t] = data[t] /\ size'[t] = size[t]
                                   /\ capacity'[t] = capacity[t] /\ inline'[t] = inline[t]
  BY <1>1 DEF TakeOver, TypeOK
<1>3. inline' \in [Stack -> [1..InlineCapacity -> Cell]]
  <2>1. Copied(inline[d], inline[o], size[o]) \in [1..InlineCapacity -> Cell]
    BY <1>1 DEF Copied, TypeOK
  <2> QED
    BY <1>1, <2>1 DEF TakeOver, TypeOK
<1>4. \A t \in live \ {d, o} : Cells(t)' = Cells(t) /\ (data[t] # Inline => heap'[data[t]] = heap[data[t]])
  BY <1>1, <1>2 DEF Cells, Release, TypeOK, BlocksOwnedOnce
<1>5. data[o] # Inline => heap'[data[o]] = heap[data[o]]
  BY <1>1 DEF Release, TypeOK, BlocksOwnedOnce
<1>6. /\ DOMAIN Cells(d)' = 1..capacity[o]
      /\ \A i \in 1..size[o] : Cells(d)'[i] = Cells(o)[i]
  <2>1. CASE data[o] # Inline
    <3>1. Cells(d)' = Cells(o)
      BY <1>1, <1>2, <1>5, <2>1 DEF Cells
    <3> QED
      BY <1>1, <3>1
  <2>2. CASE data[o] = Inline
    <3>1. inline'[d] = Copied(inline[d], inline[o], size[o])
      BY <1>1, <2>2 DEF TakeOver, TypeOK
    <3>2. Cells(d)' = Copied(inline[d], Cells(o), size[o])
      BY <1>1, <1>2, <2>2, <3>1 DEF Cells
    <3>3. DOMAIN inline[d] = 1..InlineCapacity /\ DOMAIN inline[o] = 1..InlineCapacity
      BY <1>1 DEF TypeOK
    <3>4. DOMAIN inline[d] = 1..capacity[o]
      BY <1>1, <2>2, <3>3
    <3>5. \A i \in 1..size[o] : i \in 1..capacity[o]
      BY <1>1
    <3> QED
      BY <1>1, <3>2, <3>4, <3>5 DEF Copied
  <2> QED
    BY <2>1, <2>2
<1>7. Cells(o)' = inline[o] /\ DOMAIN inline[o] = 1..InlineCapacity
  BY <1>1, <1>2 DEF Cells, TypeOK
<1>8. TypeOK'
  <2>1. heap' \in [Block -> Seq(Cell) \cup {Freed}]
    BY <1>1 DEF TypeOK, Release
  <2>2. data' \in [Stack -> Block \cup {Inline}]
    BY <1>1 DEF TypeOK, TakeOver
  <2>3. size' \in [Stack -> Nat] /\ capacity' \in [Stack -> Nat \ {0}]
    BY <1>1 DEF TypeOK, TakeOver
  <2> QED
    BY <1>1, <1>3, <2>1, <2>2, <2>3 DEF TypeOK
<1>9. BufferHoldsItems'
  <2> SUFFICES ASSUME NEW t \in live \cup {d}
               PROVE  /\ data'[t] # Inline => heap'[data'[t]] # Freed
                      /\ DOMAIN Cells(t)' = 1..capacity'[t]
                      /\ size'[t] <= capacity'[t]
                      /\ \A i \in 1..size'[t] : Cells(t)'[i] \in Item
    BY DEF BufferHoldsItems
  <2>1. CASE t = d
    <3>1. data[o] # Inline => heap[data[o]] # Freed
      BY <1>1 DEF BufferHoldsItems
    <3>2. \A i \in 1..size[o] : Cells(o)[i] \in Item
      BY <1>1 DEF BufferHoldsItems
    <3> QED
      BY <1>1, <1>2, <1>5, <1>6, <2>1, <3>1, <3>2
  <2>2. CASE t = o
    BY <1>1, <1>2, <1>7, <2>2
  <2>3. CASE t \notin {d, o}
    <3>1. /\ data'[t] = data[t] /\ size'[t] = size[t] /\ capacity'[t] = capacity[t]
          /\ Cells(t)' = Cells(t)
      BY <1>1, <1>2, <1>4, <2>3 DEF TypeOK
    <3> QED
      BY <1>1, <1>4, <2>3, <3>1 DEF BufferHoldsItems
  <2> QED
    BY <2>1, <2>2, <2>3
<1>10. BlocksOwnedOnce'
  <2>1. \A t \in live : t # d /\ t # o => data'[t] = data[t]
    BY <1>1, <1>2 DEF TypeOK
  <2>2. \A t, u \in live' : data'[t] = data'[u] /\ data'[t] # Inline => t = u
    BY <1>1, <1>2, <2>1 DEF BlocksOwnedOnce
  <2>3. \A b \in Block : heap'[b] # Freed => heap[b] # Freed /\ (d \in live => b # data[d])
    BY <1>1, AddressAssumption DEF Release, TypeOK
  <2>4. \A b \in Block : heap'[b] # Freed => \E t \in live' : data'[t] = b
    <3> SUFFICES ASSUME NEW b \in Block, heap'[b] # Freed
                 PROVE  \E t \in live' : data'[t] = b
      OBVIOUS
    <3>1. PICK t \in live : data[t] = b
      BY <1>1, <2>3 DEF BlocksOwnedOnce
    <3>2. t # d
      BY <2>3, <3>1
    <3> QED
      BY <1>2, <2>1, <3>1, <3>2
  <2> QED
    BY <2>2, <2>4 DEF BlocksOwnedOnce
<1>11. Contents(d)' = Contents(o)
  <2>1. Contents(d)' = [i \in 1..size[o] |-> Cells(d)'[i]]
    BY <1>2 DEF Contents
  <2>2. Contents(o) = [i \in 1..size[o] |-> Cells(o)[i]]
    BY DEF Contents
  <2> QED
    BY <1>6, <2>1, <2>2
<1>12. Contents(o)' = <<>>
  BY <1>2 DEF Contents
<1>13. \A t \in Stack \ {d, o} : Contents(t)' = Contents(t)
  <2>1. \A t \in live \ {d, o} : Contents(t)' = Contents(t)
    <3> TAKE t \in live \ {d, o}
    <3> QED
      BY <1>1, <1>2, <1>4, ContentsKept DEF TypeOK
  <2> QED
    BY <2>1 DEF Contents
<1> QED
  BY <1>1, <1>8, <1>9, <1>10, <1>11, <1>12, <1>13 DEF IInv, Abstract!Move

-----------------------------------------------------------------------------
(* The theorems.                                                           *)

(* Before any stack is constructed.                                        *)
LEMMA InitFacts == Init => IInv /\ Abstract!Init
<1> SUFFICES ASSUME Init PROVE IInv /\ Abstract!Init
  OBVIOUS
<1>1. InlineCapacity \in Nat \ {0}
  BY SizeAssumption
<1>2. TypeOK
  BY <1>1 DEF Init, TypeOK, NoItems, Cell
<1>3. BufferHoldsItems /\ BlocksOwnedOnce
  BY DEF Init, BufferHoldsItems, BlocksOwnedOnce
<1>4. Abstract!Init
  BY DEF Init, Abstract!Init, Contents
<1> QED
  BY <1>2, <1>3, <1>4 DEF IInv

(* Every operation keeps the invariant and is an operation on sequences.   *)
LEMMA StepFacts == IInv /\ [Next]_vars => IInv' /\ [Abstract!Next]_(Abstract!vars)
<1> SUFFICES ASSUME IInv, [Next]_vars
             PROVE  IInv' /\ [Abstract!Next]_(Abstract!vars)
  OBVIOUS
<1>1. ASSUME NEW s \in Stack, Construct(s) PROVE IInv' /\ Abstract!Next
  BY <1>1, ConstructStep DEF Abstract!Next
<1>2. ASSUME NEW s \in Stack, Destroy(s) PROVE IInv' /\ Abstract!Next
  BY <1>2, DestroyStep DEF Abstract!Next
<1>3. ASSUME NEW s \in Stack, NEW x \in Item, PushInPlace(s, x) \/ PushGrowing(s, x)
      PROVE  IInv' /\ Abstract!Next
  BY <1>3, PushInPlaceStep, PushGrowingStep DEF Abstract!Next
<1>4. ASSUME NEW s \in Stack, NEW n \in 0..MaxSize, Resize(s, n)
      PROVE  IInv' /\ Abstract!Next
  <2>1. IInv' /\ Abstract!CutBack(s, n)
    BY <1>4, ResizeStep
  <2>2. TypeOK /\ BufferHoldsItems /\ s \in live
    BY <1>4 DEF IInv, Resize
  <2>3. n \in 0..Len(Contents(s))
    <3>1. Len(Contents(s)) = size[s] /\ size[s] \in Nat
      BY <2>2, ContentsFacts DEF TypeOK
    <3> QED
      BY <1>4, <3>1 DEF Resize
  <2> QED
    BY <2>1, <2>3 DEF Abstract!Next
<1>5. ASSUME NEW s \in Stack, NEW o \in Stack, MoveConstruct(s, o) \/ MoveAssign(s, o)
      PROVE  IInv' /\ Abstract!Next
  <2>1. /\ o \in live /\ s # o /\ TakeOver(s, o) /\ live' = live \cup {s}
        /\ heap' = IF s \in live THEN Release(s, heap) ELSE heap
    BY <1>5 DEF MoveConstruct, MoveAssign
  <2> QED
    BY <2>1, MoveStep DEF Abstract!Next
<1>6. CASE UNCHANGED vars
  <2>1. IInv'
    BY <1>6 DEF IInv, TypeOK, BufferHoldsItems, BlocksOwnedOnce, Cells, vars
  <2>2. UNCHANGED Abstract!vars
    BY <1>6 DEF Abstract!vars, vars, Contents, Cells
  <2> QED
    BY <2>1, <2>2
<1> QED
  BY <1>1, <1>2, <1>3, <1>4, <1>5, <1>6 DEF Next

(* The inductive invariant holds in every behaviour.                       *)
LEMMA Invariance == Spec => []IInv
<1>1. Init => IInv
  BY InitFacts
<1>2. IInv /\ [Next]_vars => IInv'
  BY StepFacts
<1> QED
  BY <1>1, <1>2, PTL DEF Spec

(* The variables keep their types: a heap block holds as many cells as it  *)
(* was allocated with, whoever owns it (fast_stack.hpp).                   *)
THEOREM TypesSafe == Spec => []TypeOK
<1>1. IInv => TypeOK
  BY DEF IInv
<1> QED BY <1>1, Invariance, PTL

(* No growth, move or cut leaves a live stack with fewer cells than its    *)
(* capacity, or with an item in a cell that was never written.             *)
THEOREM BuffersSafe == Spec => []BufferHoldsItems
<1>1. IInv => BufferHoldsItems
  BY DEF IInv
<1> QED BY <1>1, Invariance, PTL

(* However the stacks grow, move and die, every allocated block has        *)
(* exactly one live owner, whose buffer it is.                             *)
THEOREM OwnershipSafe == Spec => []BlocksOwnedOnce
<1>1. IInv => BlocksOwnedOnce
  BY DEF IInv
<1> QED BY <1>1, Invariance, PTL

(* FastStack is a stack: growth, cutting back and moves lose, repeat and   *)
(* reorder nothing.                                                        *)
THEOREM StacksImplemented == Spec => ImplementsStacks
<1>1. Init => IInv /\ Abstract!Init
  BY InitFacts
<1>2. IInv /\ [Next]_vars => IInv' /\ [Abstract!Next]_(Abstract!vars)
  BY StepFacts
<1> QED
  BY <1>1, <1>2, PTL DEF Spec, ImplementsStacks, Abstract!Spec
=============================================================================
