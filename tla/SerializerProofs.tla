-------------------------- MODULE SerializerProofs --------------------------
(***************************************************************************)
(* Proofs about Serializer and JsonGrammar, for every document the parser  *)
(* can store: what dump() reads is in the tables, its recursion is bounded *)
(* by the parser's depth limit, its layout follows the nesting, and its    *)
(* tokens are those of the source; what is stored is the tree the grammar  *)
(* derives from the text, and no text it derives is refused.               *)
(***************************************************************************)
EXTENDS JsonGrammar, Serializer, JsonParserProofs, FiniteSetTheorems

-----------------------------------------------------------------------------
(* The parser beneath.                                                     *)

ParserInv == TypeOK /\ StructureInv /\ IndicesResolve

(* Dumping leaves the parser alone.                                        *)
LEMMA ParserBeneath == DumpSpec => Spec
<1>1. DumpInit => Init
  BY DEF DumpInit
<1>2. [DumpNext]_all_vars => [Next]_vars
  BY DEF DumpNext, all_vars
<1> QED
  BY <1>1, <1>2, PTL DEF DumpSpec, Spec

(* So what holds of the parser holds while it dumps.                       *)
LEMMA ParserInvariant == DumpSpec => []ParserInv
BY ParserBeneath, StructureSafe, IndicesSafe, PTL DEF ParserInv

-----------------------------------------------------------------------------
(* Every stored document is a tree of bounded height: heights can be given *)
(* to the stored arrays and objects, greater than those of the containers  *)
(* in them.                                                                *)

(* The height of a value; ha and ho are those of the tables' containers.   *)
Height(v, ha, ho) ==
  IF v.type = "Array" THEN ha[v.payload + 1]
  ELSE IF v.type = "Object" THEN ho[v.payload + 1] ELSE 0

Stored(ha, ho) ==
  /\ ha \in Seq(Nat) /\ Len(ha) = Len(arrays)
  /\ ho \in Seq(Nat) /\ Len(ho) = Len(objects)
  /\ \A a \in DOMAIN arrays : \A i \in DOMAIN arrays[a] :
       Height(arrays[a][i], ha, ho) < ha[a]
  /\ \A o \in DOMAIN objects : \A i \in DOMAIN objects[o] :
       Height(objects[o][i].value, ha, ho) < ho[o]

(* What waits in the i-th open container fits below it.                    *)
Stacked(ha, ho) ==
  /\ \A i \in DOMAIN calls : calls[i].kind = "Array" =>
       \A k \in DOMAIN array_stack : k > calls[i].start =>
         i + Height(array_stack[k], ha, ho) <= MaxDepth
  /\ \A i \in DOMAIN calls : calls[i].kind = "Object" =>
       \A k \in DOMAIN object_stack : k > calls[i].start =>
         i + Height(object_stack[k].value, ha, ho) <= MaxDepth

Delivered(ha, ho) ==
  /\ pc = "return" => Len(calls) + Height(ret, ha, ho) <= MaxDepth
  /\ Height(root, ha, ho) <= MaxDepth

Fits(ha, ho) == Stored(ha, ho) /\ Stacked(ha, ho) /\ Delivered(ha, ho)
HeightsBounded == ~has_error => \E ha, ho \in Seq(Nat) : Fits(ha, ho)

(* The height of a value the tables know is a number.                      *)
LEMMA HeightType ==
  ASSUME TypeOK, NEW ha \in Seq(Nat), NEW ho \in Seq(Nat), Len(ha) = Len(arrays),
         Len(ho) = Len(objects), NEW v \in JsonValues \cup {NoRoot}, Resolves(v)
  PROVE  Height(v, ha, ho) \in Nat
<1>1. /\ Len(arrays) \in Nat /\ Len(objects) \in Nat
      /\ \A k \in 1..Len(arrays) : ha[k] \in Nat
      /\ \A k \in 1..Len(objects) : ho[k] \in Nat
  BY ElementOfSeq, LenProperties DEF TypeOK
<1>2. v.payload \in Int
  BY DEF JsonValues, NoRoot, Value
<1>3. /\ v.type = "Array" => v.payload + 1 \in 1..Len(arrays)
      /\ v.type = "Object" => v.payload + 1 \in 1..Len(objects)
  BY <1>1, <1>2 DEF Resolves
<1> QED
  BY <1>1, <1>3 DEF Height

(* A container stored after it changes nothing about it.                   *)
LEMMA HeightKept ==
  ASSUME TypeOK, NEW ha \in Seq(Nat), NEW ho \in Seq(Nat), Len(ha) = Len(arrays),
         Len(ho) = Len(objects), NEW x \in Nat, NEW v \in JsonValues \cup {NoRoot}, Resolves(v)
  PROVE  /\ Height(v, Append(ha, x), ho) = Height(v, ha, ho)
         /\ Height(v, ha, Append(ho, x)) = Height(v, ha, ho)
<1>1. /\ Len(arrays) \in Nat /\ Len(objects) \in Nat
      /\ \A k \in 1..Len(arrays) : Append(ha, x)[k] = ha[k]
      /\ \A k \in 1..Len(objects) : Append(ho, x)[k] = ho[k]
  <2>1. Len(arrays) \in Nat /\ Len(objects) \in Nat
    BY LenProperties DEF TypeOK
  <2>2. \A k \in 1..Len(ha) : Append(ha, x)[k] = ha[k]
    BY AppendFacts
  <2>3. \A k \in 1..Len(ho) : Append(ho, x)[k] = ho[k]
    BY AppendFacts
  <2> QED
    BY <2>1, <2>2, <2>3
<1>2. v.payload \in Int
  BY DEF JsonValues, NoRoot, Value
<1>3. /\ v.type = "Array" => v.payload + 1 \in 1..Len(arrays)
      /\ v.type = "Object" => v.payload + 1 \in 1..Len(objects)
  BY <1>1, <1>2 DEF Resolves
<1> QED
  BY <1>1, <1>3 DEF Height

(* What the parser holds has types and resolves.                           *)
LEMMA HeldValues ==
  ASSUME TypeOK, IndicesResolve
  PROVE  /\ ret \in JsonValues /\ Resolves(ret)
         /\ root \in JsonValues \cup {NoRoot} /\ Resolves(root)
         /\ \A k \in DOMAIN array_stack :
              array_stack[k] \in JsonValues /\ Resolves(array_stack[k])
         /\ \A k \in DOMAIN object_stack :
              object_stack[k].value \in JsonValues /\ Resolves(object_stack[k].value)
         /\ \A a \in DOMAIN arrays : \A i \in DOMAIN arrays[a] :
              arrays[a][i] \in JsonValues /\ Resolves(arrays[a][i])
         /\ \A o \in DOMAIN objects : \A i \in DOMAIN objects[o] :
              objects[o][i].value \in JsonValues /\ Resolves(objects[o][i].value)
<1>1. \A k \in DOMAIN array_stack : array_stack[k] \in JsonValues
  BY ElementOfSeq, LenProperties DEF TypeOK
<1>2. \A k \in DOMAIN object_stack : object_stack[k].value \in JsonValues
  <2>1. \A k \in DOMAIN object_stack : object_stack[k] \in Members
    BY ElementOfSeq, LenProperties DEF TypeOK
  <2> QED
    BY <2>1 DEF Members
<1>3. \A a \in DOMAIN arrays : \A i \in DOMAIN arrays[a] : arrays[a][i] \in JsonValues
  <2>1. \A a \in DOMAIN arrays : arrays[a] \in Seq(JsonValues)
    BY ElementOfSeq, LenProperties DEF TypeOK
  <2> QED
    BY <2>1, ElementOfSeq, LenProperties
<1>4. \A o \in DOMAIN objects : \A i \in DOMAIN objects[o] : objects[o][i].value \in JsonValues
  <2>1. \A o \in DOMAIN objects : objects[o] \in Seq(Members)
    BY ElementOfSeq, LenProperties DEF TypeOK
  <2>2. \A o \in DOMAIN objects : \A i \in DOMAIN objects[o] : objects[o][i] \in Members
    BY <2>1, ElementOfSeq, LenProperties
  <2> QED
    BY <2>2 DEF Members
<1> QED
  BY <1>1, <1>2, <1>3, <1>4 DEF TypeOK, IndicesResolve, MemberResolves

(* Before the parse there is nothing to bound.                             *)
LEMMA HeightsInit == Init => HeightsBounded
<1> SUFFICES ASSUME Init PROVE \E ha, ho \in Seq(Nat) : Fits(ha, ho)
  BY DEF HeightsBounded
<1>1. <<>> \in Seq(Nat)
  BY EmptySeq
<1>2. Fits(<<>>, <<>>)
  <2>1. /\ arrays = <<>> /\ objects = <<>> /\ calls = <<>> /\ root = NoRoot /\ pc = "parse"
        /\ MaxDepth \in Nat
    BY BoundsAssumption DEF Init
  <2>2. Height(root, <<>>, <<>>) = 0
    BY <2>1 DEF Height, NoRoot, Value
  <2>3. Stored(<<>>, <<>>)
    BY <1>1, <2>1 DEF Stored
  <2>4. Stacked(<<>>, <<>>)
    BY <2>1 DEF Stacked
  <2>5. Delivered(<<>>, <<>>)
    BY <2>1, <2>2 DEF Delivered
  <2> QED
    BY <2>3, <2>4, <2>5 DEF Fits
<1> QED
  BY <1>1, <1>2

(* Steps that store nothing and hold nothing new.                          *)
LEMMA HeightsQuiet ==
  ASSUME NEW ha, NEW ho, Fits(ha, ho), ~has_error',
         UNCHANGED vars \/ BuildRoot \/ ReadClosing \/ ReadColon \/ ReadComma \/ AfterComma
           \/ EnterLoop
  PROVE  Fits(ha, ho)'
<1>1. /\ UNCHANGED <<calls, array_stack, object_stack, arrays, objects, root>>
      /\ pc' = "return" => UNCHANGED <<pc, ret>>
  BY DEF BuildRoot, ReadClosing, ReadColon, ReadComma, AfterComma, EnterLoop,
         EnterLoopWithLimit, Fail, has_error, stacks, storage, vars
<1> QED
  BY <1>1 DEF Fits, Stored, Stacked, Delivered

(* A scalar has no height.                                                 *)
LEMMA HeightsLeaf ==
  ASSUME TypeOK, StructureInv, ~has_error, ~has_error', NEW ha, NEW ho, Fits(ha, ho),
         BuildNull \/ BuildBoolean \/ BuildInteger \/ BuildDouble \/ BuildString
  PROVE  Fits(ha, ho)'
<1>1. /\ UNCHANGED <<calls, array_stack, object_stack, arrays, objects, root>>
      /\ pc = "value" /\ ret'.type \in {"Null", "Boolean", "Integer", "Double", "String"}
  BY DEF BuildNull, BuildBoolean, BuildInteger, BuildDouble, BuildString, Fail, Return,
         has_error, stacks, storage, Value
<1>2. Height(ret', ha, ho) = 0
  BY <1>1 DEF Height
<1>3. Len(calls') + Height(ret', ha, ho) <= MaxDepth
  <2>1. depth = Len(calls) /\ depth <= MaxDepth /\ depth \in Nat
    BY <1>1, LenProperties DEF TypeOK, StructureInv, DepthCountsCalls, Unwinding, Uncounted
  <2> QED
    BY <1>1, <1>2, <2>1
<1> QED
  BY <1>1, <1>3 DEF Fits, Stored, Stacked, Delivered

(* A new container has no items yet.                                       *)
LEMMA HeightsOpen ==
  ASSUME TypeOK, NEW ha, NEW ho, Fits(ha, ho), OpenArray \/ OpenObject
  PROVE  Fits(ha, ho)'
<1>1. /\ UNCHANGED <<array_stack, object_stack, arrays, objects, root>> /\ pc' = "opened"
  BY DEF OpenArray, OpenObject, Open, stacks, storage
<1>2. PICK kind \in {"Array", "Object"} :
        calls' = Append(calls, [kind |-> kind, key |-> NoKey, start |->
                   IF kind = "Array" THEN Len(array_stack) ELSE Len(object_stack)])
  BY DEF OpenArray, OpenObject, Open
<1> DEFINE f == [kind |-> kind, key |-> NoKey, start |->
                   IF kind = "Array" THEN Len(array_stack) ELSE Len(object_stack)]
           n == Len(calls)
<1>3. /\ n \in Nat /\ DOMAIN calls = 1..n
      /\ Len(array_stack) \in Nat /\ DOMAIN array_stack = 1..Len(array_stack)
      /\ Len(object_stack) \in Nat /\ DOMAIN object_stack = 1..Len(object_stack)
  BY LenProperties DEF TypeOK
<1>4. f \in Frames
  BY <1>3 DEF Frames
<1>5. /\ f.kind = kind
      /\ f.start = IF kind = "Array" THEN Len(array_stack) ELSE Len(object_stack)
      /\ calls' = Append(calls, f)
  BY <1>2
<1> HIDE DEF f
<1>6. /\ DOMAIN calls' = 1..(n + 1) /\ calls'[n + 1] = f
      /\ \A i \in 1..n : calls'[i] = calls[i]
  BY <1>4, <1>5, AppendFacts DEF TypeOK
<1> HIDE DEF n
<1>7. \A i \in 1..(n + 1) : i \in 1..n \/ i = n + 1
  BY <1>3
<1>8. Stacked(ha, ho)'
  <2>1. ASSUME NEW i \in DOMAIN calls', calls'[i].kind = "Array",
               NEW k \in DOMAIN array_stack', k > calls'[i].start
        PROVE  i + Height(array_stack'[k], ha, ho) <= MaxDepth
    <3>1. CASE i \in 1..n
      BY <1>1, <1>3, <1>6, <2>1, <3>1 DEF Fits, Stacked
    <3>2. CASE i = n + 1
      BY <1>1, <1>3, <1>5, <1>6, <2>1, <3>2
    <3> QED
      BY <1>6, <1>7, <3>1, <3>2
  <2>2. ASSUME NEW i \in DOMAIN calls', calls'[i].kind = "Object",
               NEW k \in DOMAIN object_stack', k > calls'[i].start
        PROVE  i + Height(object_stack'[k].value, ha, ho) <= MaxDepth
    <3>1. CASE i \in 1..n
      BY <1>1, <1>3, <1>6, <2>2, <3>1 DEF Fits, Stacked
    <3>2. CASE i = n + 1
      BY <1>1, <1>3, <1>5, <1>6, <2>2, <3>2
    <3> QED
      BY <1>6, <1>7, <3>1, <3>2
  <2> QED
    BY <2>1, <2>2 DEF Stacked
<1> QED
  BY <1>1, <1>8 DEF Fits, Stored, Delivered

(* A key changes no height.                                                *)
LEMMA HeightsKey ==
  ASSUME TypeOK, StructureInv, NEW ha, NEW ho, Fits(ha, ho), ReadKey
  PROVE  Fits(ha, ho)'
<1>1. /\ UNCHANGED <<array_stack, object_stack, arrays, objects, root>> /\ pc' = "colon"
      /\ calls # <<>>
      /\ calls' = [calls EXCEPT ![Len(calls)].key = MemberKey(Decoded(Current.value))]
  BY DEF ReadKey, stacks, StructureInv, CallsFitPlace
<1>2. /\ DOMAIN calls' = DOMAIN calls
      /\ \A i \in DOMAIN calls : calls'[i].kind = calls[i].kind /\ calls'[i].start = calls[i].start
  <2>1. \A i \in DOMAIN calls : calls[i] \in Frames
    BY ElementOfSeq, LenProperties DEF TypeOK
  <2> QED
    BY <1>1, <2>1 DEF Frames
<1> QED
  BY <1>1, <1>2 DEF Fits, Stored, Stacked, Delivered

(* A value added to a container is one the container has room for.         *)
LEMMA HeightsAdd ==
  ASSUME TypeOK, IndicesResolve, NEW ha \in Seq(Nat), NEW ho \in Seq(Nat), Fits(ha, ho),
         AddElement \/ AddMember
  PROVE  Fits(ha, ho)'
<1> DEFINE n == Len(calls)
           h == Height(ret, ha, ho)
<1>1. /\ UNCHANGED <<calls, arrays, objects, root>> /\ pc = "return" /\ pc' = "added"
      /\ \/ UNCHANGED object_stack /\ array_stack' = Append(array_stack, ret)
         \/ /\ UNCHANGED array_stack /\ calls # <<>>
            /\ object_stack' = Append(object_stack, [key |-> Top.key, value |-> ret])
  BY DEF AddElement, AddMember, InObject, storage
<1>2. /\ n \in Nat /\ DOMAIN calls = 1..n
      /\ Len(array_stack) \in Nat /\ DOMAIN array_stack = 1..Len(array_stack)
      /\ Len(object_stack) \in Nat /\ DOMAIN object_stack = 1..Len(object_stack)
      /\ MaxDepth \in Nat
  BY BoundsAssumption, LenProperties DEF TypeOK
<1>3. h \in Nat /\ n + h <= MaxDepth
  <2>1. h \in Nat
    BY HeldValues, HeightType DEF Fits, Stored
  <2> QED
    BY <1>1, <2>1 DEF Fits, Delivered
<1> HIDE DEF n, h
<1>4. \A i \in 1..n : i + h <= MaxDepth
  BY <1>2, <1>3
<1>5. Stacked(ha, ho)'
  <2>1. CASE UNCHANGED object_stack /\ array_stack' = Append(array_stack, ret)
    <3>1. /\ DOMAIN array_stack' = 1..(Len(array_stack) + 1)
          /\ \A k \in 1..Len(array_stack) : array_stack'[k] = array_stack[k]
          /\ array_stack'[Len(array_stack) + 1] = ret
      BY <2>1, AppendFacts DEF TypeOK
    <3>2. \A k \in DOMAIN array_stack' : k \in DOMAIN array_stack \/ array_stack'[k] = ret
      BY <1>2, <3>1
    <3>3. ASSUME NEW i \in DOMAIN calls, calls[i].kind = "Array",
                 NEW k \in DOMAIN array_stack', k > calls[i].start
          PROVE  i + Height(array_stack'[k], ha, ho) <= MaxDepth
      <4>1. CASE k \in DOMAIN array_stack
        BY <1>2, <3>1, <3>3, <4>1 DEF Fits, Stacked
      <4>2. CASE array_stack'[k] = ret
        BY <1>2, <1>4, <4>2 DEF h
      <4> QED
        BY <3>2, <4>1, <4>2
    <3> QED
      BY <1>1, <2>1, <3>3 DEF Fits, Stacked
  <2>2. CASE /\ UNCHANGED array_stack /\ calls # <<>>
             /\ object_stack' = Append(object_stack, [key |-> Top.key, value |-> ret])
    <3> DEFINE m == [key |-> Top.key, value |-> ret]
    <3>1. /\ DOMAIN object_stack' = 1..(Len(object_stack) + 1)
          /\ \A k \in 1..Len(object_stack) : object_stack'[k] = object_stack[k]
          /\ object_stack'[Len(object_stack) + 1] = m
      <4>1. object_stack \in Seq(Members \cup {m}) /\ m \in Members \cup {m}
        BY SeqMonotonic DEF TypeOK
      <4> HIDE DEF m
      <4>2. object_stack' = Append(object_stack, m)
        BY <2>2 DEF m
      <4> QED
        BY <4>1, <4>2, AppendFacts
    <3>2. \A k \in DOMAIN object_stack' : k \in DOMAIN object_stack \/ object_stack'[k] = m
      <4> HIDE DEF m
      <4> QED
        BY <1>2, <3>1
    <3>3. ASSUME NEW i \in DOMAIN calls, calls[i].kind = "Object",
                 NEW k \in DOMAIN object_stack', k > calls[i].start
          PROVE  i + Height(object_stack'[k].value, ha, ho) <= MaxDepth
      <4>1. CASE k \in DOMAIN object_stack
        BY <1>2, <3>1, <3>3, <4>1 DEF Fits, Stacked
      <4>2. CASE object_stack'[k] = m
        <5>1. object_stack'[k].value = ret
          BY <4>2
        <5> QED
          BY <1>2, <1>4, <5>1 DEF h
      <4> QED
        BY <3>2, <4>1, <4>2
    <3> QED
      BY <1>1, <2>2, <3>3 DEF Fits, Stacked
  <2> QED
    BY <1>1, <2>1, <2>2
<1> QED
  BY <1>1, <1>5 DEF Fits, Stored, Delivered

(* A sealed array is higher than what is in it and fits where it goes.     *)
LEMMA HeightsSealArray ==
  ASSUME TypeOK, TypeOK', StructureInv, IndicesResolve, ~has_error,
         NEW ha \in Seq(Nat), NEW ho \in Seq(Nat), Fits(ha, ho), EmptyArray \/ CloseArray
  PROVE  \E na, no \in Seq(Nat) : Fits(na, no)'
<1> DEFINE n == Len(calls)
           start == Top.start
           size == Len(array_stack)
           new == Len(arrays) + 1
<1>1. /\ calls # <<>> /\ calls' = Front(calls) /\ Top.kind = "Array" /\ UNCHANGED <<root, objects, object_stack>>
      /\ ret' = Value("Array", Len(arrays)) /\ pc' = "return" /\ pc \in {"empty", "closed"}
  BY DEF EmptyArray, CloseArray, SealArray, Return, InArray, stacks
<1>2. /\ n \in Nat \ {0} /\ DOMAIN calls = 1..n /\ DOMAIN calls' = 1..(n - 1)
      /\ Len(calls') = n - 1 /\ Top = calls[n]
      /\ \A i \in 1..(n - 1) : calls'[i] = calls[i]
      /\ start \in 0..size /\ size \in Nat /\ DOMAIN array_stack = 1..size
      /\ Len(arrays) \in Nat /\ DOMAIN arrays = 1..Len(arrays) /\ DOMAIN objects = 1..Len(objects)
      /\ array_stack \in Seq(JsonValues)
  <2>1. start \in 0..size
    <3>1. CASE pc = "closed"
      BY <1>1, <3>1, TopStart DEF InArray
    <3>2. CASE pc = "empty"
      <4>1. start = size
        BY <1>1, <3>2 DEF StructureInv, SharedStacksNested, Unwinding, Uncounted, InArray
      <4> QED
        BY <4>1, LenProperties DEF TypeOK
    <3> QED
      BY <1>1, <3>1, <3>2
  <2>2. /\ n \in Nat \ {0} /\ DOMAIN calls = 1..n /\ DOMAIN calls' = 1..(n - 1)
        /\ Len(calls') = n - 1 /\ Top = calls[n]
        /\ \A i \in 1..(n - 1) : calls'[i] = calls[i]
    BY <1>1, TopFrame
  <2> QED
    BY <2>1, <2>2, LenProperties DEF TypeOK
<1>3. PICK x \in Nat : n + x = MaxDepth + 1
  <2>1. ~Unwinding /\ MaxDepth \in Nat
    BY BoundsAssumption DEF Unwinding
  <2>2. n - (IF Uncounted THEN 1 ELSE 0) <= MaxDepth
    BY <2>1 DEF StructureInv, DepthCountsCalls
  <2>3. n <= MaxDepth + 1
    BY <1>2, <2>1, <2>2
  <2>4. MaxDepth + 1 - n \in Nat /\ n + (MaxDepth + 1 - n) = MaxDepth + 1
    BY <1>2, <2>1, <2>3
  <2> HIDE DEF n
  <2> QED
    BY <2>4
<1> DEFINE na == Append(ha, x)
           no == ho
<1>4. PICK items :
        /\ arrays' = Append(arrays, items) /\ items \in Seq(JsonValues)
        /\ \A i \in DOMAIN items :
             \E k \in DOMAIN array_stack : k > start /\ items[i] = array_stack[k]
        /\ \A k \in DOMAIN array_stack' : k \in DOMAIN array_stack /\ array_stack'[k] = array_stack[k]
  <2>1. CASE EmptyArray
    <3>1. arrays' = Append(arrays, <<>>) /\ UNCHANGED array_stack /\ <<>> \in Seq(JsonValues)
      BY <2>1, EmptySeq DEF EmptyArray, SealArray, stacks
    <3>2. DOMAIN <<>> = {}
      OBVIOUS
    <3> QED
      BY <3>1, <3>2
  <2>2. CASE CloseArray
    <3>1. /\ arrays' = Append(arrays, ItemsFrom(array_stack, start))
          /\ array_stack' = CutBack(array_stack, start)
      BY <2>2 DEF CloseArray, SealArray
    <3> DEFINE all == array_stack
               part == ItemsFrom(all, start)
    <3>0. start \in 0..Len(all) /\ all \in Seq(JsonValues)
      BY <1>2
    <3> HIDE DEF start, all
    <3>2. /\ DOMAIN CutBack(all, start) = 1..start
          /\ \A k \in 1..start : CutBack(all, start)[k] = all[k]
      BY <3>0, CutBackFacts
    <3>3. /\ part \in Seq(JsonValues) /\ DOMAIN part = 1..(Len(all) - start)
          /\ \A i \in 1..(Len(all) - start) : part[i] = all[start + i]
      <4>1. part \in Seq(JsonValues) /\ DOMAIN part = 1..(Len(all) - start)
        BY <3>0, CutBackFacts
      <4>2. \A i \in 1..(Len(all) - start) : part[i] = all[start + i]
        BY <3>0, CutBackFacts
      <4> QED
        BY <4>1, <4>2
    <3> HIDE DEF part
    <3>4. DOMAIN all = 1..Len(all) /\ Len(all) \in Nat
      BY <1>2 DEF all, size
    <3>5. \A i \in 1..(Len(all) - start) : start + i \in 1..Len(all) /\ start + i > start
      BY <3>0, <3>4
    <3>6. \A k \in 1..start : k \in 1..Len(all)
      BY <3>0, <3>4
    <3>7. \A i \in DOMAIN part : \E k \in DOMAIN all : k > start /\ part[i] = all[k]
      BY <3>3, <3>4, <3>5
    <3>9. \A k \in DOMAIN array_stack' : k \in DOMAIN all /\ array_stack'[k] = all[k]
      BY <3>1, <3>2, <3>4, <3>6 DEF all
    <3>10. arrays' = Append(arrays, part)
      BY <3>1 DEF part, all
    <3> WITNESS part
    <3> QED
      BY <3>3, <3>7, <3>9, <3>10 DEF all
  <2> QED
    BY <2>1, <2>2
<1>5. /\ DOMAIN arrays' = 1..new /\ Len(arrays') = new /\ arrays'[new] = items
      /\ \A a \in 1..Len(arrays) : arrays'[a] = arrays[a]
  BY <1>4, AppendFacts DEF TypeOK
<1>6. /\ na \in Seq(Nat) /\ Len(na) = Len(arrays') /\ no \in Seq(Nat) /\ Len(no) = Len(objects')
      /\ na[new] = x /\ \A a \in 1..Len(arrays) : na[a] = ha[a]
  <2>1. ha \in Seq(Nat) /\ ho \in Seq(Nat) /\ Len(ha) = Len(arrays) /\ Len(ho) = Len(objects)
    BY DEF Fits, Stored
  <2> QED
    BY <1>1, <1>3, <1>5, <2>1, AppendFacts
<1>7. \A v \in JsonValues \cup {NoRoot} : Resolves(v) =>
        Height(v, na, no) = Height(v, ha, ho) /\ Height(v, ha, ho) \in Nat
  <2> QED
    BY <1>3, HeightKept, HeightType DEF Fits, Stored
<1> HIDE DEF na, no, n, start, size
<1>8. Height(ret', na, no) = x
  <2>1. ret'.type = "Array" /\ ret'.payload + 1 = new
    BY <1>1 DEF Value
  <2> QED
    BY <1>6, <2>1 DEF Height
<1>13. new \in Nat \ {0} /\ new - 1 = Len(arrays)
  BY <1>2
<1> HIDE DEF new
<1>9. Stored(na, no)'
  <2>1. ASSUME NEW a \in DOMAIN arrays', NEW i \in DOMAIN arrays'[a]
        PROVE  Height(arrays'[a][i], na, no) < na[a]
    <3>1. CASE a \in 1..Len(arrays)
      <4>1. i \in DOMAIN arrays[a] /\ arrays'[a] = arrays[a] /\ na[a] = ha[a]
        BY <1>5, <1>6, <3>1, <2>1
      <4>2. arrays[a][i] \in JsonValues /\ Resolves(arrays[a][i])
        BY <1>2, <3>1, <4>1, HeldValues
      <4> QED
        BY <1>2, <1>7, <3>1, <4>1, <4>2 DEF Fits, Stored
    <3>2. CASE a = new
      <4>1. PICK k \in DOMAIN array_stack : k > start /\ items[i] = array_stack[k]
        BY <1>4, <1>5, <3>2, <2>1
      <4>2. array_stack[k] \in JsonValues /\ Resolves(array_stack[k])
        BY HeldValues
      <4>3. n + Height(array_stack[k], ha, ho) <= MaxDepth
        <5>1. n \in DOMAIN calls /\ calls[n].kind = "Array" /\ calls[n].start = start
          BY <1>1, <1>2 DEF start
        <5> QED
          BY <4>1, <5>1 DEF Fits, Stacked
      <4>4. Height(array_stack[k], ha, ho) < x
        BY <1>2, <1>3, <1>7, <4>2, <4>3, BoundsAssumption
      <4>5. Height(array_stack[k], na, no) = Height(array_stack[k], ha, ho)
        BY <1>7, <4>2
      <4>6. arrays'[a][i] = array_stack[k] /\ na[a] = x
        BY <1>5, <1>6, <3>2, <4>1
      <4> QED
        BY <4>4, <4>5, <4>6
    <3>3. \A j \in 1..new : j \in 1..(new - 1) \/ j = new
      BY <1>13
    <3> QED
      BY <1>5, <1>13, <3>1, <3>2, <3>3
  <2>2. ASSUME NEW o \in DOMAIN objects', NEW i \in DOMAIN objects'[o]
        PROVE  Height(objects'[o][i].value, na, no) < no[o]
    <3>1. objects' = objects /\ no = ho
      BY <1>1 DEF no
    <3>2. objects[o][i].value \in JsonValues /\ Resolves(objects[o][i].value)
      BY <3>1, <2>2, HeldValues
    <3> QED
      BY <1>7, <3>1, <3>2, <2>2 DEF Fits, Stored
  <2> QED
    BY <1>6, <2>1, <2>2 DEF Stored
<1>10. Stacked(na, no)'
  <2>1. \A i \in 1..(n - 1) : i \in 1..n
    BY <1>2
  <2>2. ASSUME NEW i \in DOMAIN calls', calls'[i].kind = "Array",
               NEW k \in DOMAIN array_stack', k > calls'[i].start
        PROVE  i + Height(array_stack'[k], na, no) <= MaxDepth
    <3>1. /\ i \in DOMAIN calls /\ calls'[i] = calls[i]
          /\ k \in DOMAIN array_stack /\ array_stack'[k] = array_stack[k]
      BY <1>1, <1>2, <1>4, <2>1
    <3>2. array_stack[k] \in JsonValues /\ Resolves(array_stack[k])
      BY <3>1, HeldValues
    <3> QED
      BY <1>7, <2>2, <3>1, <3>2 DEF Fits, Stacked
  <2>3. ASSUME NEW i \in DOMAIN calls', calls'[i].kind = "Object",
               NEW k \in DOMAIN object_stack', k > calls'[i].start
        PROVE  i + Height(object_stack'[k].value, na, no) <= MaxDepth
    <3>1. /\ i \in DOMAIN calls /\ calls'[i] = calls[i]
          /\ k \in DOMAIN object_stack /\ object_stack'[k] = object_stack[k]
      BY <1>1, <1>2, <1>4, <2>1
    <3>2. object_stack[k].value \in JsonValues /\ Resolves(object_stack[k].value)
      BY <3>1, HeldValues
    <3> QED
      BY <1>7, <2>3, <3>1, <3>2 DEF Fits, Stacked
  <2> QED
    BY <2>2, <2>3 DEF Stacked
<1>11. Delivered(na, no)'
  <2>1. Len(calls') + x = MaxDepth
    <3>1. n \in Nat /\ Len(calls') = n - 1 /\ MaxDepth \in Nat
      BY <1>2, BoundsAssumption
    <3> QED
      BY <1>3, <3>1
  <2>2. Height(root', na, no) <= MaxDepth
    BY <1>1, <1>7, HeldValues DEF Fits, Delivered
  <2> QED
    BY <1>3, <1>8, <2>1, <2>2, BoundsAssumption DEF Delivered
<1>12. Fits(na, no)'
  BY <1>9, <1>10, <1>11 DEF Fits
<1> QED
  BY <1>6, <1>12

(* A sealed object is higher than what is in it and fits where it goes.    *)
LEMMA HeightsSealObject ==
  ASSUME TypeOK, TypeOK', StructureInv, IndicesResolve, ~has_error,
         NEW ha \in Seq(Nat), NEW ho \in Seq(Nat), Fits(ha, ho), EmptyObject \/ CloseObject
  PROVE  \E na, no \in Seq(Nat) : Fits(na, no)'
<1> DEFINE n == Len(calls)
           start == Top.start
           size == Len(object_stack)
           new == Len(objects) + 1
<1>1. /\ calls # <<>> /\ calls' = Front(calls) /\ Top.kind = "Object" /\ UNCHANGED <<root, arrays, array_stack>>
      /\ ret' = Value("Object", Len(objects)) /\ pc' = "return" /\ pc \in {"empty", "closed"}
  BY DEF EmptyObject, CloseObject, SealObject, Return, InObject, stacks
<1>2. /\ n \in Nat \ {0} /\ DOMAIN calls = 1..n /\ DOMAIN calls' = 1..(n - 1)
      /\ Len(calls') = n - 1 /\ Top = calls[n]
      /\ \A i \in 1..(n - 1) : calls'[i] = calls[i]
      /\ start \in 0..size /\ size \in Nat /\ DOMAIN object_stack = 1..size
      /\ Len(objects) \in Nat /\ DOMAIN objects = 1..Len(objects) /\ DOMAIN arrays = 1..Len(arrays)
      /\ object_stack \in Seq(Members)
  <2>1. start \in 0..size
    <3>1. CASE pc = "closed"
      BY <1>1, <3>1, TopStart DEF InObject
    <3>2. CASE pc = "empty"
      <4>1. start = size
        BY <1>1, <3>2 DEF StructureInv, SharedStacksNested, Unwinding, Uncounted, InObject
      <4> QED
        BY <4>1, LenProperties DEF TypeOK
    <3> QED
      BY <1>1, <3>1, <3>2
  <2>2. /\ n \in Nat \ {0} /\ DOMAIN calls = 1..n /\ DOMAIN calls' = 1..(n - 1)
        /\ Len(calls') = n - 1 /\ Top = calls[n]
        /\ \A i \in 1..(n - 1) : calls'[i] = calls[i]
    BY <1>1, TopFrame
  <2> QED
    BY <2>1, <2>2, LenProperties DEF TypeOK
<1>3. PICK x \in Nat : n + x = MaxDepth + 1
  <2>1. ~Unwinding /\ MaxDepth \in Nat
    BY BoundsAssumption DEF Unwinding
  <2>2. n - (IF Uncounted THEN 1 ELSE 0) <= MaxDepth
    BY <2>1 DEF StructureInv, DepthCountsCalls
  <2>3. n <= MaxDepth + 1
    BY <1>2, <2>1, <2>2
  <2>4. MaxDepth + 1 - n \in Nat /\ n + (MaxDepth + 1 - n) = MaxDepth + 1
    BY <1>2, <2>1, <2>3
  <2> HIDE DEF n
  <2> QED
    BY <2>4
<1> DEFINE na == ha
           no == Append(ho, x)
<1>4. PICK items :
        /\ objects' = Append(objects, items) /\ items \in Seq(Members)
        /\ \A i \in DOMAIN items :
             \E k \in DOMAIN object_stack : k > start /\ items[i] = object_stack[k]
        /\ \A k \in DOMAIN object_stack' : k \in DOMAIN object_stack /\ object_stack'[k] = object_stack[k]
  <2>1. CASE EmptyObject
    <3>1. objects' = Append(objects, <<>>) /\ UNCHANGED object_stack /\ <<>> \in Seq(Members)
      BY <2>1, EmptySeq DEF EmptyObject, SealObject, stacks
    <3>2. DOMAIN <<>> = {}
      OBVIOUS
    <3> QED
      BY <3>1, <3>2
  <2>2. CASE CloseObject
    <3>1. /\ objects' = Append(objects, ItemsFrom(object_stack, start))
          /\ object_stack' = CutBack(object_stack, start)
      BY <2>2 DEF CloseObject, SealObject
    <3> DEFINE all == object_stack
               part == ItemsFrom(all, start)
    <3>0. start \in 0..Len(all) /\ all \in Seq(Members)
      BY <1>2
    <3> HIDE DEF start, all
    <3>2. /\ DOMAIN CutBack(all, start) = 1..start
          /\ \A k \in 1..start : CutBack(all, start)[k] = all[k]
      BY <3>0, CutBackFacts
    <3>3. /\ part \in Seq(Members) /\ DOMAIN part = 1..(Len(all) - start)
          /\ \A i \in 1..(Len(all) - start) : part[i] = all[start + i]
      <4>1. part \in Seq(Members) /\ DOMAIN part = 1..(Len(all) - start)
        BY <3>0, CutBackFacts
      <4>2. \A i \in 1..(Len(all) - start) : part[i] = all[start + i]
        BY <3>0, CutBackFacts
      <4> QED
        BY <4>1, <4>2
    <3> HIDE DEF part
    <3>4. DOMAIN all = 1..Len(all) /\ Len(all) \in Nat
      BY <1>2 DEF all, size
    <3>5. \A i \in 1..(Len(all) - start) : start + i \in 1..Len(all) /\ start + i > start
      BY <3>0, <3>4
    <3>6. \A k \in 1..start : k \in 1..Len(all)
      BY <3>0, <3>4
    <3>7. \A i \in DOMAIN part : \E k \in DOMAIN all : k > start /\ part[i] = all[k]
      BY <3>3, <3>4, <3>5
    <3>9. \A k \in DOMAIN object_stack' : k \in DOMAIN all /\ object_stack'[k] = all[k]
      BY <3>1, <3>2, <3>4, <3>6 DEF all
    <3>10. objects' = Append(objects, part)
      BY <3>1 DEF part, all
    <3> WITNESS part
    <3> QED
      BY <3>3, <3>7, <3>9, <3>10 DEF all
  <2> QED
    BY <2>1, <2>2
<1>5. /\ DOMAIN objects' = 1..new /\ Len(objects') = new /\ objects'[new] = items
      /\ \A a \in 1..Len(objects) : objects'[a] = objects[a]
  BY <1>4, AppendFacts DEF TypeOK
<1>6. /\ na \in Seq(Nat) /\ Len(na) = Len(arrays') /\ no \in Seq(Nat) /\ Len(no) = Len(objects')
      /\ no[new] = x /\ \A a \in 1..Len(objects) : no[a] = ho[a]
  <2>1. ha \in Seq(Nat) /\ ho \in Seq(Nat) /\ Len(ha) = Len(arrays) /\ Len(ho) = Len(objects)
    BY DEF Fits, Stored
  <2> QED
    BY <1>1, <1>3, <1>5, <2>1, AppendFacts
<1>7. \A v \in JsonValues \cup {NoRoot} : Resolves(v) =>
        Height(v, na, no) = Height(v, ha, ho) /\ Height(v, ha, ho) \in Nat
  <2> QED
    BY <1>3, HeightKept, HeightType DEF Fits, Stored
<1> HIDE DEF na, no, n, start, size
<1>8. Height(ret', na, no) = x
  <2>1. ret'.type = "Object" /\ ret'.payload + 1 = new
    BY <1>1 DEF Value
  <2> QED
    BY <1>6, <2>1 DEF Height
<1>13. new \in Nat \ {0} /\ new - 1 = Len(objects)
  BY <1>2
<1> HIDE DEF new
<1>9. Stored(na, no)'
  <2>1. ASSUME NEW a \in DOMAIN arrays', NEW i \in DOMAIN arrays'[a]
        PROVE  Height(arrays'[a][i], na, no) < na[a]
    <3>1. arrays' = arrays /\ na = ha
      BY <1>1 DEF na
    <3>2. arrays[a][i] \in JsonValues /\ Resolves(arrays[a][i])
      BY <3>1, <2>1, HeldValues
    <3> QED
      BY <1>7, <3>1, <3>2, <2>1 DEF Fits, Stored
  <2>2. ASSUME NEW o \in DOMAIN objects', NEW i \in DOMAIN objects'[o]
        PROVE  Height(objects'[o][i].value, na, no) < no[o]
    <3>1. CASE o \in 1..Len(objects)
      <4>1. i \in DOMAIN objects[o] /\ objects'[o] = objects[o] /\ no[o] = ho[o]
        BY <1>5, <1>6, <3>1, <2>2
      <4>2. objects[o][i].value \in JsonValues /\ Resolves(objects[o][i].value)
        BY <1>2, <3>1, <4>1, HeldValues
      <4> QED
        BY <1>2, <1>7, <3>1, <4>1, <4>2 DEF Fits, Stored
    <3>2. CASE o = new
      <4>1. PICK k \in DOMAIN object_stack : k > start /\ items[i] = object_stack[k]
        BY <1>4, <1>5, <3>2, <2>2
      <4>2. object_stack[k].value \in JsonValues /\ Resolves(object_stack[k].value)
        BY HeldValues
      <4>3. n + Height(object_stack[k].value, ha, ho) <= MaxDepth
        <5>1. n \in DOMAIN calls /\ calls[n].kind = "Object" /\ calls[n].start = start
          BY <1>1, <1>2 DEF start
        <5> QED
          BY <4>1, <5>1 DEF Fits, Stacked
      <4>4. Height(object_stack[k].value, ha, ho) < x
        BY <1>2, <1>3, <1>7, <4>2, <4>3, BoundsAssumption
      <4>5. Height(object_stack[k].value, na, no) = Height(object_stack[k].value, ha, ho)
        BY <1>7, <4>2
      <4>6. objects'[o][i] = object_stack[k] /\ no[o] = x
        BY <1>5, <1>6, <3>2, <4>1
      <4> QED
        BY <4>4, <4>5, <4>6
    <3>3. \A j \in 1..new : j \in 1..(new - 1) \/ j = new
      BY <1>13
    <3> QED
      BY <1>5, <1>13, <3>1, <3>2, <3>3
  <2> QED
    BY <1>6, <2>1, <2>2 DEF Stored
<1>10. Stacked(na, no)'
  <2>1. \A i \in 1..(n - 1) : i \in 1..n
    BY <1>2
  <2>2. ASSUME NEW i \in DOMAIN calls', calls'[i].kind = "Array",
               NEW k \in DOMAIN array_stack', k > calls'[i].start
        PROVE  i + Height(array_stack'[k], na, no) <= MaxDepth
    <3>1. /\ i \in DOMAIN calls /\ calls'[i] = calls[i]
          /\ k \in DOMAIN array_stack /\ array_stack'[k] = array_stack[k]
      BY <1>1, <1>2, <1>4, <2>1
    <3>2. array_stack[k] \in JsonValues /\ Resolves(array_stack[k])
      BY <3>1, HeldValues
    <3> QED
      BY <1>7, <2>2, <3>1, <3>2 DEF Fits, Stacked
  <2>3. ASSUME NEW i \in DOMAIN calls', calls'[i].kind = "Object",
               NEW k \in DOMAIN object_stack', k > calls'[i].start
        PROVE  i + Height(object_stack'[k].value, na, no) <= MaxDepth
    <3>1. /\ i \in DOMAIN calls /\ calls'[i] = calls[i]
          /\ k \in DOMAIN object_stack /\ object_stack'[k] = object_stack[k]
      BY <1>1, <1>2, <1>4, <2>1
    <3>2. object_stack[k].value \in JsonValues /\ Resolves(object_stack[k].value)
      BY <3>1, HeldValues
    <3> QED
      BY <1>7, <2>3, <3>1, <3>2 DEF Fits, Stacked
  <2> QED
    BY <2>2, <2>3 DEF Stacked
<1>11. Delivered(na, no)'
  <2>1. Len(calls') + x = MaxDepth
    <3>1. n \in Nat /\ Len(calls') = n - 1 /\ MaxDepth \in Nat
      BY <1>2, BoundsAssumption
    <3> QED
      BY <1>3, <3>1
  <2>2. Height(root', na, no) <= MaxDepth
    BY <1>1, <1>7, HeldValues DEF Fits, Delivered
  <2> QED
    BY <1>3, <1>8, <2>1, <2>2, BoundsAssumption DEF Delivered
<1>12. Fits(na, no)'
  BY <1>9, <1>10, <1>11 DEF Fits
<1> QED
  BY <1>6, <1>12

(* A delivered document is no higher than its root.                        *)
LEMMA HeightsDeliver ==
  ASSUME TypeOK, IndicesResolve, NEW ha \in Seq(Nat), NEW ho \in Seq(Nat), Fits(ha, ho), SetRoot
  PROVE  Fits(ha, ho)'
<1>1. /\ UNCHANGED <<calls, array_stack, object_stack, arrays, objects>>
      /\ pc = "return" /\ pc' = "done" /\ calls = <<>> /\ root' = ret
  BY DEF SetRoot, stacks, storage
<1>2. Height(ret, ha, ho) \in Nat
  BY HeldValues, HeightType DEF Fits, Stored
<1>3. Height(ret, ha, ho) <= MaxDepth
  <2>1. Len(calls) = 0 /\ Len(calls) + Height(ret, ha, ho) <= MaxDepth
    BY <1>1 DEF Fits, Delivered
  <2> QED
    BY <1>2, <2>1
<1> QED
  BY <1>1, <1>3 DEF Fits, Stored, Stacked, Delivered

(* The heights of a document stay given until it is delivered.             *)
LEMMA HeightsStep ==
  ASSUME TypeOK, TypeOK', StructureInv, IndicesResolve, [Next]_vars, HeightsBounded
  PROVE  HeightsBounded'
<1> SUFFICES ASSUME ~has_error'  PROVE \E na, no \in Seq(Nat) : Fits(na, no)'
  BY DEF HeightsBounded
<1>1. ~has_error
  BY ErrorKept
<1>2. PICK ha, ho \in Seq(Nat) : Fits(ha, ho)
  BY <1>1 DEF HeightsBounded
<1>3. CASE EmptyArray \/ CloseArray
  BY <1>1, <1>2, <1>3, HeightsSealArray
<1>4. CASE EmptyObject \/ CloseObject
  BY <1>1, <1>2, <1>4, HeightsSealObject
<1>5. CASE ~(EmptyArray \/ CloseArray \/ EmptyObject \/ CloseObject)
  <2>1. CASE \/ UNCHANGED vars \/ BuildRoot \/ ReadClosing \/ ReadColon \/ ReadComma
             \/ AfterComma \/ EnterLoop
    BY <1>2, <2>1, HeightsQuiet
  <2>2. CASE BuildNull \/ BuildBoolean \/ BuildInteger \/ BuildDouble \/ BuildString
    BY <1>1, <1>2, <2>2, HeightsLeaf
  <2>3. CASE OpenArray \/ OpenObject
    BY <1>2, <2>3, HeightsOpen
  <2>4. CASE ReadKey
    BY <1>2, <2>4, HeightsKey
  <2>5. CASE AddElement \/ AddMember
    BY <1>2, <2>5, HeightsAdd
  <2>6. CASE SetRoot
    BY <1>2, <2>6, HeightsDeliver
  <2> QED
    BY <1>1, <1>2, <1>5, <2>1, <2>2, <2>3, <2>4, <2>5, <2>6, BuildingSteps
<1> QED
  BY <1>3, <1>4, <1>5

(* Every document the parser stores is a tree no higher than its depth     *)
(* limit, and has no cycle: a container is stored after what is in it.     *)
THEOREM DocumentsBounded == Spec => []HeightsBounded
<1>1. Init => HeightsBounded
  BY HeightsInit
<1>2. TypeOK /\ TypeOK' /\ StructureInv /\ IndicesResolve /\ HeightsBounded /\ [Next]_vars
        => HeightsBounded'
  BY HeightsStep
<1> QED
  BY <1>1, <1>2, StructureSafe, IndicesSafe, PTL DEF Spec

-----------------------------------------------------------------------------
(* The activation records of the serializer.                               *)

NonScalars == [type : {"Array", "Object"}, payload : Int]
VisitRecords == [value : NonScalars, next : Nat \ {0}]

(* Every record's container is stored and has items.                       *)
Entered(q) ==
  /\ q \in Seq(VisitRecords)
  /\ \A k \in DOMAIN q : Resolves(q[k].value) /\ Items(q[k].value) # <<>>

(* What the k-th record's container may still nest.                        *)
Deep(q, ha, ho) == \A k \in DOMAIN q : k + Height(q[k].value, ha, ho) <= MaxDepth + 1

RootDelivered == pc = "done" /\ ~has_error => root \in JsonValues

DumpStates ==
  /\ dumping \in {"idle", "running", "returned"}
  /\ dumping = "idle" => visits = <<>> /\ out = <<>> /\ current_indent = 0
  /\ dumping # "idle" => pc = "done" /\ ~has_error

VisitsInv ==
  /\ DumpStates
  /\ Entered(visits)
  /\ dumping # "idle" => \E ha, ho \in Seq(Nat) : Stored(ha, ho) /\ Deep(visits, ha, ho)

(* The value of an item: an element itself, a member's value.              *)
ItemValue(v, i) == IF v.type = "Array" THEN Items(v)[i] ELSE Items(v)[i].value

(* The containers among the values.                                        *)
LEMMA ContainerValues ==
  ASSUME NEW v \in JsonValues
  PROVE  /\ v.payload \in Int
         /\ IsContainer(v) => v \in NonScalars
         /\ ~IsContainer(v) => v.type \in {"Null", "Boolean", "Integer", "Double", "String"}
BY DEF JsonValues, NonScalars, IsContainer

(* What is in a stored container is stored, and lower.                     *)
LEMMA ItemFacts ==
  ASSUME TypeOK, IndicesResolve, NEW v \in NonScalars, Resolves(v)
  PROVE  /\ Len(Items(v)) \in Nat /\ DOMAIN Items(v) = 1..Len(Items(v))
         /\ (Len(Items(v)) = 0) <=> (Items(v) = <<>>)
         /\ \A i \in DOMAIN Items(v) :
              /\ ItemValue(v, i) \in JsonValues /\ Resolves(ItemValue(v, i))
              /\ \A ha, ho : Stored(ha, ho) => Height(ItemValue(v, i), ha, ho) < Height(v, ha, ho)
              /\ v.type = "Object" => Items(v)[i] \in Members /\ KeyResolves(Items(v)[i].key)
<1> DEFINE n == v.payload + 1
<1>1. /\ v.type \in {"Array", "Object"} /\ v.payload \in Int
      /\ v.type = "Array" => n \in DOMAIN arrays
      /\ v.type = "Object" => n \in DOMAIN objects
  <2>1. v.type \in {"Array", "Object"} /\ v.payload \in Int
    BY DEF NonScalars
  <2>2. /\ DOMAIN arrays = 1..Len(arrays) /\ DOMAIN objects = 1..Len(objects)
        /\ Len(arrays) \in Nat /\ Len(objects) \in Nat
    BY LenProperties DEF TypeOK
  <2> QED
    BY <2>1, <2>2 DEF Resolves
<1> HIDE DEF n
<1>2. CASE v.type = "Array"
  <2>1. n \in DOMAIN arrays /\ Items(v) = arrays[n]
    BY <1>1, <1>2 DEF Items, n
  <2>2. arrays[n] \in Seq(JsonValues)
    BY <2>1, ElementOfSeq, LenProperties DEF TypeOK
  <2>3. /\ Len(Items(v)) \in Nat /\ DOMAIN Items(v) = 1..Len(Items(v))
        /\ (Len(Items(v)) = 0) <=> (Items(v) = <<>>)
    BY <2>1, <2>2, LenProperties, EmptySeq
  <2>4. ASSUME NEW i \in DOMAIN Items(v)
        PROVE  /\ ItemValue(v, i) \in JsonValues /\ Resolves(ItemValue(v, i))
               /\ \A ha, ho : Stored(ha, ho) => Height(ItemValue(v, i), ha, ho) < Height(v, ha, ho)
    <3>1. ItemValue(v, i) = arrays[n][i] /\ i \in DOMAIN arrays[n]
      BY <1>2, <2>1, <2>4 DEF ItemValue
    <3>2. \A ha, ho : Height(v, ha, ho) = ha[n]
      BY <1>2 DEF Height, n
    <3> QED
      BY <2>1, <3>1, <3>2, HeldValues DEF Stored
  <2> QED
    BY <1>2, <2>3, <2>4
<1>3. CASE v.type = "Object"
  <2>1. n \in DOMAIN objects /\ Items(v) = objects[n]
    BY <1>1, <1>3 DEF Items, n
  <2>2. objects[n] \in Seq(Members)
    BY <2>1, ElementOfSeq, LenProperties DEF TypeOK
  <2>3. /\ Len(Items(v)) \in Nat /\ DOMAIN Items(v) = 1..Len(Items(v))
        /\ (Len(Items(v)) = 0) <=> (Items(v) = <<>>)
    BY <2>1, <2>2, LenProperties, EmptySeq
  <2>4. ASSUME NEW i \in DOMAIN Items(v)
        PROVE  /\ ItemValue(v, i) \in JsonValues /\ Resolves(ItemValue(v, i))
               /\ \A ha, ho : Stored(ha, ho) => Height(ItemValue(v, i), ha, ho) < Height(v, ha, ho)
               /\ Items(v)[i] \in Members /\ KeyResolves(Items(v)[i].key)
    <3>1. ItemValue(v, i) = objects[n][i].value /\ i \in DOMAIN objects[n]
      BY <1>3, <2>1, <2>4 DEF ItemValue
    <3>2. \A ha, ho : Height(v, ha, ho) = ho[n]
      BY <1>3 DEF Height, n
    <3>3. Items(v)[i] \in Members
      BY <2>1, <2>2, <3>1, ElementOfSeq, LenProperties
    <3>4. KeyResolves(Items(v)[i].key)
      BY <2>1, <3>1 DEF IndicesResolve, MemberResolves
    <3> QED
      BY <2>1, <3>1, <3>2, <3>3, <3>4, HeldValues DEF Stored
  <2> QED
    BY <1>3, <2>3, <2>4
<1> QED
  BY <1>1, <1>2, <1>3

(* A container with items has a height.                                    *)
LEMMA EnteredHeight ==
  ASSUME TypeOK, IndicesResolve, NEW v \in NonScalars, Resolves(v), Items(v) # <<>>,
         NEW ha \in Seq(Nat), NEW ho \in Seq(Nat), Stored(ha, ho)
  PROVE  Height(v, ha, ho) \in Nat \ {0}
<1>1. v \in JsonValues \cup {NoRoot}
  BY DEF NonScalars, JsonValues
<1>2. Height(v, ha, ho) \in Nat
  BY <1>1, HeightType DEF Stored
<1>3. 1 \in DOMAIN Items(v)
  BY ItemFacts
<1>4. ItemValue(v, 1) \in JsonValues \cup {NoRoot} /\ Resolves(ItemValue(v, 1))
      /\ Height(ItemValue(v, 1), ha, ho) < Height(v, ha, ho)
  BY <1>3, ItemFacts
<1>5. Height(ItemValue(v, 1), ha, ho) \in Nat
  BY <1>4, HeightType DEF Stored
<1> QED
  BY <1>2, <1>4, <1>5

(* A turn of the loop counts in its own record.                            *)
Advanced(q) == [q EXCEPT ![Len(q)].next = @ + 1]

(* Stepping the innermost frame leaves the path to it alone.               *)
LEMMA AdvancedFacts ==
  ASSUME NEW q, Entered(q), q # <<>>
  PROVE  /\ Entered(Advanced(q)) /\ Len(Advanced(q)) = Len(q) /\ Len(q) \in Nat \ {0}
         /\ \A k \in 1..Len(q) : Advanced(q)[k].value = q[k].value
<1> DEFINE n == Len(q)
           next == q[n].next
           e == [value |-> q[n].value, next |-> next + 1]
<1>1. q \in Seq(VisitRecords) /\ n \in Nat \ {0} /\ n \in 1..Len(q) /\ DOMAIN q = 1..Len(q)
  BY EmptySeq, LenProperties DEF Entered
<1>2. q[n] \in VisitRecords
  BY <1>1, ElementOfSeq
<1>3. next \in Nat \ {0} /\ q[n].value \in NonScalars /\ [q[n] EXCEPT !.next = @ + 1] = e
  BY <1>2 DEF VisitRecords
<1>4. e \in VisitRecords /\ e.value = q[n].value
  BY <1>3 DEF VisitRecords
<1>5. Advanced(q) = [q EXCEPT ![n] = e]
  BY <1>3 DEF Advanced
<1> HIDE DEF e, n
<1>6. /\ Advanced(q) \in Seq(VisitRecords) /\ Len(Advanced(q)) = Len(q)
      /\ \A k \in 1..Len(q) : Advanced(q)[k] = IF k = n THEN e ELSE q[k]
  BY <1>1, <1>4, <1>5, ExceptSeq
<1>7. \A k \in 1..Len(q) : Advanced(q)[k].value = q[k].value
  BY <1>4, <1>6
<1>8. DOMAIN Advanced(q) = 1..Len(q)
  BY <1>6, LenProperties
<1> QED
  BY <1>1, <1>6, <1>7, <1>8 DEF Entered, n

(* The innermost record.                                                   *)
LEMMA LastRecord ==
  ASSUME NEW q, Entered(q), q # <<>>
  PROVE  /\ Len(q) \in Nat \ {0} /\ DOMAIN q = 1..Len(q) /\ Len(q) \in DOMAIN q
         /\ Last(q) = q[Len(q)] /\ q[Len(q)] \in VisitRecords
<1>1. q \in Seq(VisitRecords)
  BY DEF Entered
<1>2. Len(q) \in Nat \ {0} /\ Last(q) = q[Len(q)] /\ Last(q) \in VisitRecords
  BY <1>1, LastFront
<1>3. DOMAIN q = 1..Len(q)
  BY <1>1, LenProperties
<1> DEFINE n == Len(q)
<1>4. n \in 1..n
  BY <1>2
<1> QED
  BY <1>2, <1>3, <1>4

(* A visited value with items gets a record of its own.                    *)
LEMMA VisitEnters ==
  ASSUME TypeOK, NEW v \in JsonValues, Resolves(v), NEW stack, Entered(stack),
         NEW text, NEW width, Visit(text, v, stack, width),
         NEW ha \in Seq(Nat), NEW ho \in Seq(Nat), Stored(ha, ho), Deep(stack, ha, ho),
         Len(stack) + Height(v, ha, ho) <= MaxDepth
  PROVE  Entered(visits') /\ Deep(visits', ha, ho)
<1> DEFINE new == [value |-> v, next |-> 1]
           n == Len(stack)
<1>1. CASE IsContainer(v) /\ Items(v) # <<>>
  <2>1. v \in NonScalars /\ new \in VisitRecords /\ new.value = v
    BY <1>1, ContainerValues DEF VisitRecords
  <2>2. visits' = Append(stack, new)
    BY <1>1 DEF Visit
  <2> HIDE DEF new
  <2>3. /\ n \in Nat /\ visits' \in Seq(VisitRecords) /\ DOMAIN visits' = 1..(n + 1)
        /\ DOMAIN stack = 1..n
        /\ \A k \in 1..n : visits'[k] = stack[k]
        /\ visits'[n + 1] = new
    BY <2>1, <2>2, AppendFacts DEF Entered
  <2>4. n + 1 + Height(v, ha, ho) <= MaxDepth + 1
    <3>1. Height(v, ha, ho) \in Nat /\ MaxDepth \in Nat
      BY HeightType, BoundsAssumption DEF Stored
    <3> QED
      BY <2>3, <3>1
  <2> HIDE DEF n
  <2>5. \A k \in 1..(n + 1) : k \in 1..n \/ k = n + 1
    BY <2>3
  <2> QED
    BY <1>1, <2>1, <2>3, <2>4, <2>5 DEF Entered, Deep
<1>2. CASE ~(IsContainer(v) /\ Items(v) # <<>>)
  BY <1>2 DEF Visit
<1> QED
  BY <1>1, <1>2

(* A document is there once the parse has succeeded.                       *)
LEMMA RootStep ==
  ASSUME TypeOK, StructureInv, [Next]_vars, RootDelivered
  PROVE  RootDelivered'
<1> SUFFICES ASSUME pc' = "done", ~has_error'  PROVE root' \in JsonValues
  BY DEF RootDelivered
<1>1. ~has_error
  BY ErrorKept
<1>2. UNCHANGED vars \/ SetRoot
  BY <1>1, BuildingSteps
  DEF BuildRoot, ReadColon, ReadComma, AfterComma, EnterLoop, EnterLoopWithLimit, BuildNull,
      BuildBoolean, BuildInteger, BuildDouble, BuildString, OpenArray, OpenObject, Open,
      ReadClosing, EmptyArray, EmptyObject, ReadKey, AddElement, AddMember, CloseArray,
      CloseObject, SealArray, SealObject, Return, Fail
<1>3. CASE UNCHANGED vars
  BY <1>3 DEF RootDelivered, vars, has_error
<1>4. CASE SetRoot
  BY <1>4 DEF SetRoot, TypeOK
<1> QED
  BY <1>2, <1>3, <1>4

(* Once the parser has returned it does nothing more.                      *)
LEMMA ParserStays == pc = "done" /\ [Next]_vars => UNCHANGED vars
BY DEF Next, RejectStart, BuildRoot, BuildNull, BuildBoolean, BuildInteger,
        BuildDouble, BuildString, OpenArray, OpenObject, RejectValue, ReadClosing,
        EmptyArray, EmptyObject, EnterLoop, EnterLoopWithLimit, RejectKey, ReadKey, ReadColon, Unwind,
        SetRoot, AddElement, AddMember, ReadComma, AfterComma, CloseArray, CloseObject,
        MissingComma, Done

(* What is said of the tables stays true while they stay as they are.      *)
LEMMA TablesStay ==
  ASSUME UNCHANGED vars
  PROVE  /\ \A q : q = visits' => (Entered(visits') <=> Entered(visits)')
         /\ \A ha, ho : Stored(ha, ho)' <=> Stored(ha, ho)
         /\ has_error' <=> has_error
BY DEF vars, storage, stacks, Entered, Resolves, Items, Stored, has_error

(* The records and their nesting through a dump.                           *)
LEMMA VisitsStep ==
  ASSUME ParserInv, RootDelivered, HeightsBounded, VisitsInv, [DumpNext]_all_vars
  PROVE  VisitsInv'
<1>0. TypeOK /\ StructureInv /\ IndicesResolve
  BY DEF ParserInv
<1>1. CASE UNCHANGED dump_vars /\ [Next]_vars
  <2>1. CASE dumping = "idle"
    <3>1. visits = <<>> /\ visits' = <<>> /\ dumping' = "idle"
      BY <1>1, <2>1 DEF dump_vars, VisitsInv, DumpStates
    <3>2. DumpStates'
      BY <1>1, <2>1 DEF dump_vars, VisitsInv, DumpStates
    <3>3. Entered(visits)'
      <4>1. <<>> \in Seq(VisitRecords)
        BY EmptySeq
      <4>2. DOMAIN <<>> = {}
        OBVIOUS
      <4>3. visits' \in Seq(VisitRecords) /\ DOMAIN visits' = {}
        BY <3>1, <4>1, <4>2
      <4> QED
        BY <4>3 DEF Entered
    <3> QED
      BY <3>1, <3>2, <3>3 DEF VisitsInv
  <2>2. CASE dumping # "idle"
    <3>1. UNCHANGED vars /\ UNCHANGED dump_vars
      BY <1>1, <2>2, ParserStays DEF VisitsInv, DumpStates
    <3> QED
      BY <3>1, TablesStay DEF dump_vars, vars, VisitsInv, DumpStates, Deep, has_error
  <2> QED
    BY <2>1, <2>2
<1>2. CASE UNCHANGED vars /\ (Dump \/ SerializeItem \/ SerializeClose \/ DumpReturns)
  <2>1. /\ pc = "done" /\ ~has_error /\ pc' = "done" /\ ~has_error'
        /\ dumping' # "idle" /\ DumpStates'
    BY <1>2 DEF Dump, SerializeItem, SerializeClose, DumpReturns, VisitsInv, DumpStates, vars,
                has_error
  <2>2. SUFFICES \E ha, ho \in Seq(Nat) :
                   Stored(ha, ho) /\ Entered(visits') /\ Deep(visits', ha, ho)
    BY <1>2, <2>1, TablesStay DEF VisitsInv, Deep
  <2>3. CASE Dump
    <3>1. PICK ha, ho \in Seq(Nat) : Fits(ha, ho)
      BY <2>1 DEF HeightsBounded
    <3>2. Visit(<<>>, root, <<>>, indent')
      BY <2>3 DEF Dump
    <3>3. root \in JsonValues /\ Resolves(root)
      BY <1>0, <2>1 DEF RootDelivered, IndicesResolve
    <3>4. Stored(ha, ho) /\ Len(<<>>) + Height(root, ha, ho) <= MaxDepth
      <4>1. Height(root, ha, ho) \in Nat
        BY <1>0, <3>1, <3>3, HeightType DEF Fits, Stored
      <4>2. Height(root, ha, ho) <= MaxDepth /\ Len(<<>>) = 0
        BY <3>1 DEF Fits, Delivered
      <4> QED
        BY <3>1, <4>1, <4>2 DEF Fits
    <3>5. Entered(<<>>) /\ Deep(<<>>, ha, ho)
      BY EmptySeq DEF Entered, Deep
    <3> QED
      BY <1>0, <3>2, <3>3, <3>4, <3>5, VisitEnters
  <2>4. CASE SerializeItem
    <3>1. PICK ha, ho \in Seq(Nat) : Stored(ha, ho) /\ Deep(visits, ha, ho)
      BY <2>4 DEF SerializeItem, VisitsInv
    <3> DEFINE v == Visited.value
               i == Visited.next
               n == Len(visits)
               child == ItemValue(v, i)
    <3>2. /\ visits # <<>> /\ Entered(visits) /\ i <= Len(Items(v))
          /\ \E text : Visit(text, child, Advanced(visits), indent)
      BY <2>4 DEF SerializeItem, VisitsInv, ItemValue, Advanced
    <3>3. /\ n \in Nat \ {0} /\ Visited = visits[n] /\ Visited \in VisitRecords
          /\ n \in DOMAIN visits
      BY <3>2, LastRecord DEF Visited
    <3>4. v \in NonScalars /\ i \in Nat \ {0} /\ Resolves(v) /\ Items(v) # <<>>
      BY <3>2, <3>3 DEF VisitRecords, Entered
    <3>5. n + Height(v, ha, ho) <= MaxDepth + 1
      BY <3>1, <3>3 DEF Deep
    <3> HIDE DEF v, i, n
    <3>6. i \in DOMAIN Items(v)
      BY <1>0, <3>2, <3>4, ItemFacts
    <3>7. child \in JsonValues /\ Resolves(child) /\ Height(child, ha, ho) < Height(v, ha, ho)
      BY <1>0, <3>1, <3>4, <3>6, ItemFacts
    <3>8. n + Height(child, ha, ho) <= MaxDepth
      <4>1. Height(v, ha, ho) \in Nat /\ Height(child, ha, ho) \in Nat
        BY <1>0, <3>1, <3>4, <3>7, EnteredHeight, HeightType DEF Stored
      <4> QED
        BY <3>3, <3>5, <3>7, <4>1, BoundsAssumption
    <3>9. /\ Entered(Advanced(visits)) /\ Len(Advanced(visits)) = n
          /\ Deep(Advanced(visits), ha, ho)
      <4>1. /\ Entered(Advanced(visits)) /\ Len(Advanced(visits)) = n
            /\ \A k \in 1..n : Advanced(visits)[k].value = visits[k].value
        BY <3>2, AdvancedFacts DEF n
      <4>2. DOMAIN Advanced(visits) = 1..n /\ DOMAIN visits = 1..n
        BY <3>2, <4>1, LenProperties DEF Entered, n
      <4> QED
        BY <3>1, <4>1, <4>2 DEF Deep
    <3> HIDE DEF child
    <3> QED
      BY <1>0, <3>1, <3>2, <3>7, <3>8, <3>9, VisitEnters
  <2>5. CASE SerializeClose
    <3>1. visits # <<>> /\ visits' = Front(visits) /\ Entered(visits) /\ dumping # "idle"
      BY <2>5 DEF SerializeClose, VisitsInv
    <3>2. PICK ha, ho \in Seq(Nat) : Stored(ha, ho) /\ Deep(visits, ha, ho)
      BY <3>1 DEF VisitsInv
    <3>3. /\ visits' \in Seq(VisitRecords)
          /\ \A k \in DOMAIN visits' : k \in DOMAIN visits /\ visits'[k] = visits[k]
      <4> DEFINE n == Len(visits)
      <4>1. /\ n \in Nat \ {0} /\ Front(visits) \in Seq(VisitRecords)
            /\ Len(Front(visits)) = n - 1 /\ DOMAIN visits = 1..n
            /\ \A k \in 1..(n - 1) : Front(visits)[k] = visits[k]
        BY <3>1, LastFront, LenProperties DEF Entered
      <4>2. DOMAIN Front(visits) = 1..(n - 1)
        BY <4>1, LenProperties
      <4>3. \A k \in 1..(n - 1) : k \in 1..n
        BY <4>1
      <4> QED
        BY <3>1, <4>1, <4>2, <4>3
    <3>4. Entered(visits') /\ Deep(visits', ha, ho)
      BY <3>1, <3>2, <3>3 DEF Entered, Deep
    <3> QED
      BY <3>2, <3>4
  <2>6. CASE DumpReturns
    <3>1. visits' = visits /\ Entered(visits) /\ dumping # "idle"
      BY <2>6 DEF DumpReturns, VisitsInv
    <3>2. PICK ha, ho \in Seq(Nat) : Stored(ha, ho) /\ Deep(visits, ha, ho)
      BY <3>1 DEF VisitsInv
    <3> QED
      BY <3>1, <3>2
  <2> QED
    BY <1>2, <2>3, <2>4, <2>5, <2>6
<1> QED
  BY <1>1, <1>2 DEF DumpNext, all_vars

(* Before the dump there are no records.                                   *)
LEMMA VisitsInit == DumpInit => RootDelivered /\ VisitsInv
<1> SUFFICES ASSUME DumpInit  PROVE RootDelivered /\ VisitsInv
  OBVIOUS
<1> DEFINE none == <<>>
<1>1. none \in Seq(VisitRecords)
  BY EmptySeq
<1>3. DOMAIN none = {}
  OBVIOUS
<1>4. visits = none
  BY DEF DumpInit
<1> HIDE DEF none
<1>2. Entered(visits)
  BY <1>1, <1>3, <1>4 DEF Entered
<1> QED
  BY <1>2 DEF DumpInit, Init, RootDelivered, VisitsInv, DumpStates

(* The records nest in stored containers at any moment of a dump.          *)
LEMMA VisitsInvariant == DumpSpec => [](ParserInv /\ HeightsBounded /\ RootDelivered /\ VisitsInv)
<1>1. [DumpNext]_all_vars => [Next]_vars
  BY DEF DumpNext, all_vars
<1>2. TypeOK /\ StructureInv /\ [Next]_vars /\ RootDelivered => RootDelivered'
  BY RootStep
<1>3. ParserInv /\ HeightsBounded /\ RootDelivered /\ VisitsInv /\ [DumpNext]_all_vars => VisitsInv'
  BY VisitsStep
<1>4. DumpInit => RootDelivered /\ VisitsInv
  BY VisitsInit
<1>5. ParserInv => TypeOK /\ StructureInv
  BY DEF ParserInv
<1> QED
  BY <1>1, <1>2, <1>3, <1>4, <1>5, ParserBeneath, ParserInvariant, DocumentsBounded, PTL
  DEF DumpSpec

(* dump() never nests deeper than the parser's depth limit: serializeValue *)
(* has no limit of its own, but no stored document is higher.              *)
THEOREM DumpRecursionSafe == DumpSpec => []DumpRecursionBounded
<1>1. ParserInv /\ VisitsInv => DumpRecursionBounded
  <2> SUFFICES ASSUME ParserInv, VisitsInv  PROVE Len(visits) <= MaxDepth
    BY DEF DumpRecursionBounded
  <2>1. MaxDepth \in Nat /\ TypeOK /\ IndicesResolve
    BY BoundsAssumption DEF ParserInv
  <2>2. CASE visits = <<>>
    BY <2>1, <2>2, EmptySeq
  <2>3. CASE visits # <<>>
    <3> DEFINE n == Len(visits)
               v == visits[n].value
    <3>1. PICK ha, ho \in Seq(Nat) : Stored(ha, ho) /\ Deep(visits, ha, ho)
      BY <2>3 DEF VisitsInv, DumpStates
    <3>2. n \in Nat \ {0} /\ n \in DOMAIN visits /\ visits[n] \in VisitRecords
      BY <2>3, LastRecord DEF VisitsInv
    <3>3. v \in NonScalars /\ Resolves(v) /\ Items(v) # <<>>
      BY <3>2 DEF VisitsInv, Entered, VisitRecords
    <3>4. n + Height(v, ha, ho) <= MaxDepth + 1
      BY <3>1, <3>2 DEF Deep
    <3>5. Height(v, ha, ho) \in Nat \ {0}
      <4> HIDE DEF v
      <4> QED
        BY <2>1, <3>1, <3>3, EnteredHeight
    <3> HIDE DEF n, v
    <3>6. n <= MaxDepth
      BY <2>1, <3>2, <3>4, <3>5
    <3> QED
      BY <3>6 DEF n
  <2> QED
    BY <2>2, <2>3
<1> QED
  BY <1>1, VisitsInvariant, PTL

-----------------------------------------------------------------------------
(* The layout of what is written.                                          *)

OutTokens ==
  [type : {"LeftSquareBracket", "LeftCurlyBracket", "RightSquareBracket", "RightCurlyBracket",
           "Comma", "Colon", "Null", "Space"}]
  \cup [type : {"Boolean"}, value : BOOLEAN]
  \cup [type : {"String"}, value : Texts]
  \cup [type : {"Integer", "Double"}, value : Int]
  \cup [type : {"Newline"}, spaces : Int]

OpenMarks(t, n) == {k \in 1..n : Opens(t[k])}
ShutMarks(t, n) == {k \in 1..n : Shuts(t[k])}

(* The containers left open by the first n tokens of t.                    *)
Level(t, n) == Cardinality(OpenMarks(t, n)) - Cardinality(ShutMarks(t, n))

Back(a) == IF Shuts(a) THEN 1 ELSE 0
Change(a) == IF Opens(a) THEN 1 ELSE -Back(a)

(* The i-th token may be followed by one that closes `back` containers.    *)
Placed(t, i, back, width) ==
  t[i].type \in Layout =>
    /\ width >= 0
    /\ t[i].type = "Newline" => t[i].spaces = width * (Level(t, i - 1) - back)

(* t is laid out up to its last token, which leaves `level` containers     *)
(* open.                                                                   *)
Laid(t, level, width) ==
  /\ t \in Seq(OutTokens)
  /\ Level(t, Len(t)) = level
  /\ \A i \in 1..Len(t) : i < Len(t) => Placed(t, i, Back(t[i + 1]), width)

(* A token that closes `back` containers may come next.                    *)
Awaits(t, back, width) == t # <<>> => Placed(t, Len(t), back, width)
Ready(t) == t # <<>> => t[Len(t)].type \notin Layout

LayoutInv ==
  /\ indent \in Int
  /\ dumping # "idle" =>
       /\ current_indent = Step(indent) * Len(visits)
       /\ Laid(out, Len(visits), indent)
       /\ Ready(out)

(* What a token does to the number of open containers.                     *)
LEMMA LevelAppend ==
  ASSUME NEW t \in Seq(OutTokens), NEW a \in OutTokens
  PROVE  /\ \A m \in 0..Len(t) : Level(Append(t, a), m) = Level(t, m) /\ Level(t, m) \in Int
         /\ Level(Append(t, a), Len(t) + 1) = Level(t, Len(t)) + Change(a)
         /\ Level(Append(t, a), Len(t) + 1) \in Int
<1> DEFINE n == Len(t)
           u == Append(t, a)
<1>1. n \in Nat /\ (\A i \in 1..n : u[i] = t[i]) /\ u[n + 1] = a
  BY AppendFacts
<1> HIDE DEF u, n
<1>2. ASSUME NEW m \in 0..n
      PROVE  /\ OpenMarks(u, m) = OpenMarks(t, m) /\ ShutMarks(u, m) = ShutMarks(t, m)
             /\ IsFiniteSet(OpenMarks(t, m)) /\ IsFiniteSet(ShutMarks(t, m))
             /\ Level(t, m) \in Int
  <2>1. \A k \in 1..m : k \in 1..n
    BY <1>1
  <2>2. OpenMarks(u, m) = OpenMarks(t, m) /\ ShutMarks(u, m) = ShutMarks(t, m)
    BY <1>1, <2>1 DEF OpenMarks, ShutMarks
  <2>3. IsFiniteSet(1..m)
    BY <1>1, FS_Interval
  <2>4. OpenMarks(t, m) \in SUBSET (1..m) /\ ShutMarks(t, m) \in SUBSET (1..m)
    BY DEF OpenMarks, ShutMarks
  <2>5. IsFiniteSet(OpenMarks(t, m)) /\ IsFiniteSet(ShutMarks(t, m))
    BY <2>3, <2>4, FS_Subset
  <2>6. Cardinality(OpenMarks(t, m)) \in Nat /\ Cardinality(ShutMarks(t, m)) \in Nat
    BY <2>5, FS_CardinalityType
  <2> QED
    BY <2>2, <2>5, <2>6 DEF Level
<1>3. /\ n \in 0..n /\ n + 1 \notin OpenMarks(t, n) /\ n + 1 \notin ShutMarks(t, n)
      /\ \A k \in 1..(n + 1) : k \in 1..n \/ k = n + 1
      /\ \A k \in 1..n : k \in 1..(n + 1)
      /\ n + 1 \in 1..(n + 1)
  BY <1>1 DEF OpenMarks, ShutMarks
<1>4. OpenMarks(u, n + 1) = IF Opens(a) THEN OpenMarks(t, n) \cup {n + 1} ELSE OpenMarks(t, n)
  BY <1>1, <1>3 DEF OpenMarks
<1>5. ShutMarks(u, n + 1) = IF Shuts(a) THEN ShutMarks(t, n) \cup {n + 1} ELSE ShutMarks(t, n)
  BY <1>1, <1>3 DEF ShutMarks
<1>6. /\ Cardinality(OpenMarks(t, n)) \in Nat /\ Cardinality(ShutMarks(t, n)) \in Nat
      /\ Cardinality(OpenMarks(t, n) \cup {n + 1}) = Cardinality(OpenMarks(t, n)) + 1
      /\ Cardinality(ShutMarks(t, n) \cup {n + 1}) = Cardinality(ShutMarks(t, n)) + 1
  BY <1>2, <1>3, FS_AddElement, FS_CardinalityType
<1>7. Opens(a) => ~Shuts(a)
  BY DEF Opens, Shuts
<1>8. Level(u, n + 1) = Level(t, n) + Change(a) /\ Level(u, n + 1) \in Int
  <2> DEFINE o == IF Opens(a) THEN 1 ELSE 0
             c == IF Shuts(a) THEN 1 ELSE 0
             p == Cardinality(OpenMarks(t, n))
             q == Cardinality(ShutMarks(t, n))
  <2>1. o \in Nat /\ c \in Nat /\ Change(a) = o - c
    BY <1>7 DEF Change, Back
  <2>2. /\ Cardinality(OpenMarks(u, n + 1)) = p + o /\ Cardinality(ShutMarks(u, n + 1)) = q + c
        /\ p \in Nat /\ q \in Nat
    BY <1>4, <1>5, <1>6
  <2>3. Level(t, n) = p - q /\ Level(u, n + 1) = (p + o) - (q + c)
    BY <2>2 DEF Level
  <2> HIDE DEF o, c, p, q
  <2> QED
    BY <2>1, <2>2, <2>3
<1>9. \A m \in 0..n : Level(u, m) = Level(t, m) /\ Level(t, m) \in Int
  BY <1>2 DEF Level
<1> QED
  BY <1>8, <1>9 DEF u, n

(* One more token, where the last one lets it be.                          *)
LEMMA LaidAppend ==
  ASSUME NEW t, NEW level, NEW width, Laid(t, level, width), NEW a \in OutTokens,
         Awaits(t, Back(a), width)
  PROVE  /\ Laid(Append(t, a), level + Change(a), width)
         /\ a.type \notin Layout => Ready(Append(t, a))
         /\ \A back : Awaits(Append(t, a), back, width) <=>
              (a.type \in Layout =>
                 /\ width >= 0
                 /\ a.type = "Newline" => a.spaces = width * (level - back))
<1> DEFINE n == Len(t)
           u == Append(t, a)
<1>1. /\ t \in Seq(OutTokens) /\ n \in Nat /\ (\A i \in 1..n : u[i] = t[i]) /\ u[n + 1] = a
      /\ u \in Seq(OutTokens) /\ Len(u) = n + 1 /\ u # <<>>
      /\ n # 0 <=> t # <<>>
  <2>1. t \in Seq(OutTokens)
    BY DEF Laid
  <2> QED
    BY <2>1, AppendFacts, AppendProperties, EmptySeq
<1>2. /\ Level(t, n) = level /\ Level(u, n) = level /\ Level(u, n + 1) = level + Change(a)
      /\ \A m \in 0..n : Level(u, m) = Level(t, m)
  <2>1. n \in 0..n
    BY <1>1
  <2> QED
    BY <1>1, <2>1, LevelAppend DEF Laid
<1> HIDE DEF u, n
<1>3. ASSUME NEW i \in 1..n, NEW back  PROVE Placed(u, i, back, width) <=> Placed(t, i, back, width)
  <2>1. u[i] = t[i] /\ Level(u, i - 1) = Level(t, i - 1)
    <3>1. i - 1 \in 0..n
      BY <1>1
    <3> QED
      BY <1>1, <1>2, <3>1
  <2> QED
    BY <2>1 DEF Placed
<1>4. ASSUME NEW i \in 1..(n + 1), i < n + 1  PROVE Placed(u, i, Back(u[i + 1]), width)
  <2>1. i \in 1..n
    BY <1>1, <1>4
  <2>2. CASE i < n
    <3>1. i + 1 \in 1..n
      BY <1>1, <2>1, <2>2
    <3>2. Placed(t, i, Back(t[i + 1]), width)
      BY <2>1, <2>2 DEF Laid, n
    <3> QED
      BY <1>1, <1>3, <2>1, <3>1, <3>2
  <2>3. CASE i = n
    <3>1. Placed(t, n, Back(a), width)
      <4>1. t # <<>>
        BY <1>1, <2>1
      <4> QED
        BY <4>1 DEF Awaits, n
    <3> QED
      BY <1>1, <1>3, <2>1, <2>3, <3>1
  <2> QED
    BY <1>1, <2>1, <2>2, <2>3
<1>5. Laid(u, level + Change(a), width)
  BY <1>1, <1>2, <1>4 DEF Laid
<1>6. ASSUME NEW back
      PROVE  Awaits(u, back, width) <=>
              (a.type \in Layout =>
                 /\ width >= 0
                 /\ a.type = "Newline" => a.spaces = width * (level - back))
  <2>1. (n + 1) - 1 = n
    BY <1>1
  <2> QED
    BY <1>1, <1>2, <2>1 DEF Awaits, Placed
<1>7. a.type \notin Layout => Ready(u)
  BY <1>1 DEF Ready
<1> QED
  BY <1>5, <1>6, <1>7 DEF u

(* What a token does to the nesting is in its type.                        *)
LEMMA ChangeByType ==
  ASSUME NEW a
  PROVE  /\ a.type \notin {"LeftSquareBracket", "LeftCurlyBracket", "RightSquareBracket",
                          "RightCurlyBracket"} => Change(a) = 0 /\ Back(a) = 0
         /\ a.type \in {"LeftSquareBracket", "LeftCurlyBracket"} => Change(a) = 1 /\ Back(a) = 0
         /\ a.type \in {"RightSquareBracket", "RightCurlyBracket"} => Change(a) = -1 /\ Back(a) = 1
<1>1. CASE a.type \in {"RightSquareBracket", "RightCurlyBracket"}
  <2>1. Shuts(a) /\ ~Opens(a)
    BY <1>1 DEF Opens, Shuts
  <2>2. a.type \notin {"LeftSquareBracket", "LeftCurlyBracket"}
    BY <1>1
  <2> QED
    BY <1>1, <2>1, <2>2 DEF Change, Back
<1>2. CASE a.type \notin {"RightSquareBracket", "RightCurlyBracket"}
  <2>1. ~Shuts(a) /\ Back(a) = 0
    BY <1>2 DEF Shuts, Back
  <2>2. Change(a) = IF Opens(a) THEN 1 ELSE 0
    BY <2>1 DEF Change
  <2> QED
    BY <1>2, <2>1, <2>2 DEF Opens
<1> QED
  BY <1>1, <1>2

Plain(a) == a \in OutTokens /\ a.type \notin Layout /\ Change(a) = 0 /\ Back(a) = 0

(* The tokens that are written.                                            *)
LEMMA TokensWritten ==
  /\ \A type \in {"Comma", "Colon", "Null"} : Plain(Token(type))
  /\ \A text \in Texts : Plain([type |-> "String", value |-> text])
  /\ \A b \in BOOLEAN : Plain([type |-> "Boolean", value |-> b])
  /\ \A type \in {"Integer", "Double"}, n \in Int : Plain([type |-> type, value |-> n])
  /\ \A n \in Int : Newline(n) \in OutTokens /\ Change(Newline(n)) = 0 /\ Back(Newline(n)) = 0
                    /\ Newline(n).type = "Newline" /\ Newline(n).spaces = n
  /\ Space \in OutTokens /\ Change(Space) = 0 /\ Back(Space) = 0 /\ Space.type = "Space"
  /\ \A v : /\ Opening(v) \in OutTokens /\ Opening(v).type \notin Layout
            /\ Change(Opening(v)) = 1 /\ Back(Opening(v)) = 0
            /\ Closing(v) \in OutTokens /\ Closing(v).type \notin Layout
            /\ Change(Closing(v)) = -1 /\ Back(Closing(v)) = 1
<1>1. ASSUME NEW type \in {"Comma", "Colon", "Null"}  PROVE Plain(Token(type))
  <2>1. Token(type) \in OutTokens /\ Token(type).type = type
    BY DEF Token, OutTokens
  <2> QED
    BY <2>1, ChangeByType DEF Plain, Layout
<1>2. ASSUME NEW text \in Texts  PROVE Plain([type |-> "String", value |-> text])
  <2> DEFINE a == [type |-> "String", value |-> text]
  <2>1. a \in OutTokens /\ a.type = "String"
    BY DEF OutTokens
  <2> QED
    BY <2>1, ChangeByType DEF Plain, Layout
<1>3. ASSUME NEW b \in BOOLEAN  PROVE Plain([type |-> "Boolean", value |-> b])
  <2> DEFINE a == [type |-> "Boolean", value |-> b]
  <2>1. a \in OutTokens /\ a.type = "Boolean"
    BY DEF OutTokens
  <2> QED
    BY <2>1, ChangeByType DEF Plain, Layout
<1>4. ASSUME NEW type \in {"Integer", "Double"}, NEW n \in Int
      PROVE  Plain([type |-> type, value |-> n])
  <2> DEFINE a == [type |-> type, value |-> n]
  <2>1. a \in OutTokens /\ a.type = type
    BY DEF OutTokens
  <2> QED
    BY <2>1, ChangeByType DEF Plain, Layout
<1>5. ASSUME NEW n \in Int
      PROVE  /\ Newline(n) \in OutTokens /\ Change(Newline(n)) = 0 /\ Back(Newline(n)) = 0
             /\ Newline(n).type = "Newline" /\ Newline(n).spaces = n
  <2>1. Newline(n) \in OutTokens /\ Newline(n).type = "Newline" /\ Newline(n).spaces = n
    BY DEF Newline, OutTokens
  <2> QED
    BY <2>1, ChangeByType
<1>6. Space \in OutTokens /\ Change(Space) = 0 /\ Back(Space) = 0 /\ Space.type = "Space"
  <2>1. Space \in OutTokens /\ Space.type = "Space"
    BY DEF Space, OutTokens
  <2> QED
    BY <2>1, ChangeByType
<1>7. ASSUME NEW v
      PROVE  /\ Opening(v) \in OutTokens /\ Opening(v).type \notin Layout
             /\ Change(Opening(v)) = 1 /\ Back(Opening(v)) = 0
  <2>1. Opening(v) \in OutTokens /\ Opening(v).type \in {"LeftSquareBracket", "LeftCurlyBracket"}
    BY DEF Opening, Token, OutTokens
  <2> QED
    BY <2>1, ChangeByType DEF Layout
<1>8. ASSUME NEW v
      PROVE  /\ Closing(v) \in OutTokens /\ Closing(v).type \notin Layout
             /\ Change(Closing(v)) = -1 /\ Back(Closing(v)) = 1
  <2>1. Closing(v) \in OutTokens /\ Closing(v).type \in {"RightSquareBracket", "RightCurlyBracket"}
    BY DEF Closing, Token, OutTokens
  <2> QED
    BY <2>1, ChangeByType DEF Layout
<1> QED
  BY <1>1, <1>2, <1>3, <1>4, <1>5, <1>6, <1>7, <1>8

(* A scalar is one token, and what it names is stored.                     *)
LEMMA ScalarWritten ==
  ASSUME TypeOK, NEW v \in JsonValues, Resolves(v), ~IsContainer(v)
  PROVE  Plain(Scalar(v))
<1>1. v.payload \in Int /\ v.type \in {"Null", "Boolean", "Integer", "Double", "String"}
  BY ContainerValues
<1>2. CASE v.type = "String"
  <2>1. v.payload \in 0..(Len(strings) - 1) /\ Len(strings) \in Nat
    BY <1>2, LenProperties DEF TypeOK, Resolves
  <2>2. v.payload + 1 \in 1..Len(strings)
    BY <2>1
  <2>3. strings[v.payload + 1] \in Texts
    BY <2>2, ElementOfSeq DEF TypeOK
  <2>4. Scalar(v) = [type |-> "String", value |-> strings[v.payload + 1]]
    BY <1>2 DEF Scalar
  <2> QED
    BY <2>3, <2>4, TokensWritten
<1>3. CASE v.type = "Null"
  <2>1. Scalar(v) = Token("Null")
    BY <1>3 DEF Scalar
  <2> QED
    BY <2>1, TokensWritten
<1>4. CASE v.type = "Boolean"
  <2>1. Scalar(v) = [type |-> "Boolean", value |-> v.payload # 0]
    BY <1>4 DEF Scalar
  <2> QED
    BY <2>1, TokensWritten
<1>5. CASE v.type = "Integer"
  <2>1. Scalar(v) = [type |-> "Integer", value |-> v.payload]
    BY <1>5 DEF Scalar
  <2> QED
    BY <1>1, <2>1, TokensWritten
<1>6. CASE v.type = "Double"
  <2>1. Scalar(v) = DoubleText(v.payload)
    BY <1>6 DEF Scalar
  <2>2. PICK type \in {"Integer", "Double"} :
          DoubleText(v.payload) = [type |-> type, value |-> v.payload]
    BY DEF DoubleText
  <2> QED
    BY <1>1, <2>1, <2>2, TokensWritten
<1> QED
  BY <1>1, <1>2, <1>3, <1>4, <1>5, <1>6

(* A key is a text: its own, or a stored one.                              *)
LEMMA KeyWritten ==
  ASSUME TypeOK, NEW m \in Members, KeyResolves(m.key)
  PROVE  resolveKey(m.key) \in Texts
<1>1. m.key \in Keys
  BY DEF Members
<1>2. CASE m.key.tag = "sso"
  BY <1>1, <1>2 DEF Keys, resolveKey
<1>3. CASE m.key.tag = "ref"
  <2>1. m.key.index \in Nat /\ m.key.index < Len(strings) /\ Len(strings) \in Nat
    BY <1>1, <1>3, LenProperties DEF Keys, KeyResolves, TypeOK
  <2>2. m.key.index + 1 \in 1..Len(strings)
    BY <2>1
  <2>3. strings[m.key.index + 1] \in Texts
    BY <2>2, ElementOfSeq DEF TypeOK
  <2> QED
    BY <1>3, <2>3 DEF resolveKey
<1> QED
  BY <1>1, <1>2, <1>3 DEF Keys

(* Writing one token, or two, is appending them.                           *)
LEMMA TextAppends ==
  ASSUME NEW t \in Seq(OutTokens), NEW a \in OutTokens, NEW b \in OutTokens
  PROVE  /\ t \o <<>> = t /\ t \o <<a>> = Append(t, a)
         /\ t \o <<a, b>> = Append(Append(t, a), b)
<1>1. t \o <<>> = t /\ t \o <<a>> = Append(t, a)
  BY ConcatEmptySeq, AppendIsConcat
<1>2. <<a>> \in Seq(OutTokens) /\ <<b>> \in Seq(OutTokens) /\ <<a, b>> = <<a>> \o <<b>>
  <2> DEFINE one == <<a>>
             other == <<b>>
             both == <<a, b>>
  <2>1. /\ one \in Seq(OutTokens) /\ Len(one) = 1 /\ one[1] = a
        /\ other \in Seq(OutTokens) /\ Len(other) = 1 /\ other[1] = b
    OBVIOUS
  <2>2. both \in Seq(OutTokens) /\ Len(both) = 2 /\ both[1] = a /\ both[2] = b
    OBVIOUS
  <2> HIDE DEF one, other, both
  <2>3. /\ one \o other \in Seq(OutTokens) /\ Len(one \o other) = Len(one) + Len(other)
        /\ \A i \in 1..(Len(one) + Len(other)) :
             (one \o other)[i] = IF i <= Len(one) THEN one[i] ELSE other[i - Len(one)]
    BY <2>1, ConcatProperties
  <2>4. Len(one \o other) = 2 /\ (one \o other)[1] = a /\ (one \o other)[2] = b
    BY <2>1, <2>3
  <2>5. \A i \in 1..2 : (one \o other)[i] = both[i]
    BY <2>2, <2>4
  <2>6. one \o other = both
    BY <2>2, <2>3, <2>4, <2>5, SeqEqual
  <2> QED
    BY <2>1, <2>6 DEF one, other, both
<1>3. (t \o <<a>>) \o <<b>> = t \o <<a, b>>
  BY <1>2, ConcatAssociative
<1>4. Append(t, a) \in Seq(OutTokens)
  BY AppendProperties
<1>5. Append(Append(t, a), b) = Append(t, a) \o <<b>>
  BY <1>4, AppendIsConcat
<1> QED
  BY <1>1, <1>3, <1>5

(* A line break, where one is written, is indented for what comes next.    *)
LEMMA LineLaid ==
  ASSUME NEW t, NEW level \in Nat, NEW back \in Int, indent \in Int,
         Laid(t, level, indent), Ready(t), NEW m, m = Step(indent) * (level - back)
  PROVE  Laid(t \o Line(m), level, indent) /\ Awaits(t \o Line(m), back, indent)
<1>1. t \in Seq(OutTokens) /\ m \in Int
  <2>1. Step(indent) \in Int
    BY DEF Step
  <2> QED
    BY <2>1 DEF Laid
<1>2. CASE indent >= 0
  <2>1. /\ Line(m) = <<Newline(m)>> /\ Newline(m) \in OutTokens /\ Change(Newline(m)) = 0
        /\ Newline(m).spaces = m
    BY <1>1, <1>2, TokensWritten DEF Line
  <2>2. m = indent * (level - back)
    BY <1>2 DEF Step
  <2>3. t \o Line(m) = Append(t, Newline(m))
    BY <1>1, <2>1, AppendIsConcat
  <2>4. Awaits(t, Back(Newline(m)), indent)
    BY DEF Ready, Awaits, Placed
  <2> DEFINE a == Newline(m)
             u == Append(t, a)
  <2> HIDE DEF a, u
  <2>5. Laid(u, level + Change(a), indent) /\ (Awaits(u, back, indent) <=>
              (a.type \in Layout =>
                 /\ indent >= 0
                 /\ a.type = "Newline" => a.spaces = indent * (level - back)))
    BY <2>1, <2>4, LaidAppend DEF a, u
  <2>6. level + 0 = level
    OBVIOUS
  <2> QED
    BY <1>2, <2>1, <2>2, <2>3, <2>5, <2>6 DEF a, u
<1>3. CASE ~(indent >= 0)
  <2>1. t \o Line(m) = t
    BY <1>1, <1>3, ConcatEmptySeq DEF Line
  <2> QED
    BY <2>1 DEF Ready, Awaits, Placed
<1> QED
  BY <1>2, <1>3

(* A token that is not layout, where it may come.                          *)
LEMMA TokenLaid ==
  ASSUME NEW t, NEW level \in Int, NEW width, Laid(t, level, width), NEW a \in OutTokens,
         a.type \notin Layout, Awaits(t, Back(a), width)
  PROVE  /\ Laid(t \o <<a>>, level + Change(a), width) /\ Ready(t \o <<a>>)
         /\ \A back : Awaits(t \o <<a>>, back, width)
<1>1. t \o <<a>> = Append(t, a)
  BY TextAppends DEF Laid
<1> QED
  BY <1>1, LaidAppend

(* A key and its colon open and close nothing.                             *)
LEMMA KeyLaid ==
  ASSUME TypeOK, NEW t, NEW level \in Nat, indent \in Int, Laid(t, level, indent),
         Awaits(t, 0, indent), NEW m \in Members, KeyResolves(m.key)
  PROVE  Laid(t \o KeyText(m), level, indent) /\ Awaits(t \o KeyText(m), 0, indent)
<1> DEFINE a == [type |-> "String", value |-> resolveKey(m.key)]
           c == Token("Colon")
           u == Append(Append(t, a), c)
           gap == IF indent >= 0 THEN <<Space>> ELSE <<>>
<1>1. Plain(a) /\ Plain(c)
  BY KeyWritten, TokensWritten
<1>2. KeyText(m) = <<a, c>> \o gap
  BY DEF KeyText
<1>3. t \in Seq(OutTokens)
  BY DEF Laid
<1> HIDE DEF a, c
<1>4. <<a, c>> \in Seq(OutTokens) /\ gap \in Seq(OutTokens) /\ Space \in OutTokens
  BY <1>1, TokensWritten DEF Plain
<1>5. t \o KeyText(m) = u \o gap
  <2>1. t \o <<a, c>> = u
    BY <1>1, <1>3, TextAppends DEF Plain
  <2>2. (t \o <<a, c>>) \o gap = t \o (<<a, c>> \o gap)
    BY <1>3, <1>4, ConcatAssociative
  <2> QED
    BY <1>2, <2>1, <2>2
<1>6. level + 0 = level
  OBVIOUS
<1>7. Laid(Append(t, a), level, indent) /\ Awaits(Append(t, a), 0, indent)
  <2>1. /\ Laid(Append(t, a), level + Change(a), indent)
        /\ Awaits(Append(t, a), 0, indent) <=>
              (a.type \in Layout =>
                 /\ indent >= 0
                 /\ a.type = "Newline" => a.spaces = indent * (level - 0))
    BY <1>1, LaidAppend DEF Plain
  <2> QED
    BY <1>1, <1>6, <2>1 DEF Plain
<1>8. Laid(u, level, indent) /\ Awaits(u, 0, indent)
  <2>1. /\ Laid(u, level + Change(c), indent)
        /\ Awaits(u, 0, indent) <=>
              (c.type \in Layout =>
                 /\ indent >= 0
                 /\ c.type = "Newline" => c.spaces = indent * (level - 0))
    BY <1>1, <1>7, LaidAppend DEF Plain
  <2> QED
    BY <1>1, <1>6, <2>1 DEF Plain
<1>9. u \in Seq(OutTokens)
  BY <1>8 DEF Laid
<1> HIDE DEF u
<1>10. CASE indent >= 0
  <2>1. u \o gap = Append(u, Space)
    BY <1>4, <1>9, <1>10, AppendIsConcat
  <2>2. /\ Laid(Append(u, Space), level + Change(Space), indent)
        /\ Awaits(Append(u, Space), 0, indent) <=>
              (Space.type \in Layout =>
                 /\ indent >= 0
                 /\ Space.type = "Newline" => Space.spaces = indent * (level - 0))
    BY <1>8, TokensWritten, LaidAppend
  <2>3. Change(Space) = 0 /\ Space.type # "Newline"
    BY TokensWritten
  <2> QED
    BY <1>5, <1>6, <1>10, <2>1, <2>2, <2>3
<1>11. CASE ~(indent >= 0)
  BY <1>5, <1>8, <1>9, <1>11, ConcatEmptySeq
<1> QED
  BY <1>10, <1>11

(* A level of indentation is Step(width) more, or less.                    *)
LEMMA IndentTurns ==
  ASSUME NEW width \in Int, NEW n \in Nat
  PROVE  /\ Step(width) \in Nat
         /\ Step(width) * n + Step(width) = Step(width) * (n + 1)
         /\ Step(width) * n - Step(width) = Step(width) * (n - 1)
         /\ Step(width) * n = Step(width) * (n - 0)
<1>1. Step(width) \in Nat
  BY DEF Step
<1> DEFINE s == Step(width)
<1> HIDE DEF s
<1>2. \A x \in Nat : x * n + x = x * (n + 1) /\ x * n - x = x * (n - 1) /\ x * n = x * (n - 0)
  OBVIOUS
<1> QED
  BY <1>1, <1>2

(* What a visit writes is laid out, and the indentation is that of the     *)
(* records.                                                                *)
LEMMA VisitLaid ==
  ASSUME TypeOK, NEW v \in JsonValues, Resolves(v), NEW text, NEW level \in Nat,
         NEW width \in Int, Laid(text, level, width), Awaits(text, 0, width), NEW stack,
         Entered(stack), Len(stack) = level, current_indent = Step(width) * level,
         Visit(text, v, stack, width)
  PROVE  /\ current_indent' = Step(width) * Len(visits')
         /\ Laid(out', Len(visits'), width) /\ Ready(out')
<1>1. text \in Seq(OutTokens) /\ level + 0 = level /\ (level + 1) + (-1) = level
  BY DEF Laid
<1>2. CASE ~IsContainer(v)
  <2>1. out' = text \o <<Scalar(v)>> /\ UNCHANGED current_indent /\ visits' = stack
    BY <1>2 DEF Visit
  <2>2. Plain(Scalar(v))
    BY <1>2, ScalarWritten
  <2>3. Laid(text \o <<Scalar(v)>>, level + Change(Scalar(v)), width) /\ Ready(text \o <<Scalar(v)>>)
    BY <2>2, TokenLaid DEF Plain
  <2> QED
    BY <1>1, <2>1, <2>2, <2>3 DEF Plain
<1> DEFINE o == Opening(v)
           c == Closing(v)
<1>3. /\ o \in OutTokens /\ o.type \notin Layout /\ Change(o) = 1 /\ Back(o) = 0
      /\ c \in OutTokens /\ c.type \notin Layout /\ Change(c) = -1 /\ Back(c) = 1
  BY TokensWritten
<1>4. Laid(text \o <<o>>, level + 1, width) /\ Ready(text \o <<o>>) /\ Awaits(text \o <<o>>, 1, width)
  <2> HIDE DEF o
  <2>1. /\ Laid(text \o <<o>>, level + Change(o), width) /\ Ready(text \o <<o>>)
        /\ \A back : Awaits(text \o <<o>>, back, width)
    BY <1>3, TokenLaid
  <2> QED
    BY <1>3, <2>1
<1>5. CASE IsContainer(v) /\ Items(v) = <<>>
  <2>1. out' = text \o <<o, c>> /\ UNCHANGED current_indent /\ visits' = stack
    BY <1>5 DEF Visit
  <2> HIDE DEF o, c
  <2>2. text \o <<o, c>> = (text \o <<o>>) \o <<c>>
    <3>1. text \o <<o>> \in Seq(OutTokens)
      BY <1>4 DEF Laid
    <3>2. (text \o <<o>>) \o <<c>> = Append(text \o <<o>>, c)
      BY <1>3, <3>1, AppendIsConcat
    <3>3. text \o <<o>> = Append(text, o) /\ text \o <<o, c>> = Append(Append(text, o), c)
      BY <1>1, <1>3, TextAppends
    <3> QED
      BY <3>2, <3>3
  <2>3. /\ Laid((text \o <<o>>) \o <<c>>, (level + 1) + Change(c), width)
        /\ Ready((text \o <<o>>) \o <<c>>)
    <3>1. level + 1 \in Int
      OBVIOUS
    <3> DEFINE u == text \o <<o>>
    <3>2. Laid(u, level + 1, width) /\ Awaits(u, 1, width)
      BY <1>4
    <3> HIDE DEF u
    <3>3. Laid(u \o <<c>>, (level + 1) + Change(c), width) /\ Ready(u \o <<c>>)
      BY <1>3, <3>1, <3>2, TokenLaid
    <3> QED
      BY <3>3 DEF u
  <2> QED
    BY <1>1, <1>3, <2>1, <2>2, <2>3
<1>6. CASE IsContainer(v) /\ Items(v) # <<>>
  <2>1. /\ out' = text \o <<o>> /\ current_indent' = current_indent + Step(width)
        /\ visits' = Append(stack, [value |-> v, next |-> 1])
    BY <1>6 DEF Visit
  <2>2. Len(visits') = level + 1
    <3>1. v \in NonScalars /\ [value |-> v, next |-> 1] \in VisitRecords
      BY <1>6, ContainerValues DEF VisitRecords
    <3>2. Len(Append(stack, [value |-> v, next |-> 1])) = Len(stack) + 1
      BY <3>1, AppendProperties DEF Entered
    <3> QED
      BY <2>1, <3>2
  <2>3. current_indent' = Step(width) * (level + 1)
    BY <2>1, IndentTurns
  <2> QED
    BY <1>4, <2>1, <2>2, <2>3
<1> QED
  BY <1>2, <1>5, <1>6

(* What the comma, if any, and the line leave before an item.              *)
LEMMA HeadLaid ==
  ASSUME NEW t, NEW level \in Nat, NEW next, indent \in Int, Laid(t, level, indent), Ready(t),
         NEW m, m = Step(indent) * level
  PROVE  /\ Laid(t \o CommaBefore(next) \o Line(m), level, indent)
         /\ Awaits(t \o CommaBefore(next) \o Line(m), 0, indent)
<1> DEFINE c == Token("Comma")
           u == t \o CommaBefore(next)
<1>1. Laid(u, level, indent) /\ Ready(u)
  <2>1. CASE next = 1
    <3>1. t \o <<>> = t
      BY ConcatEmptySeq DEF Laid
    <3> QED
      BY <2>1, <3>1 DEF CommaBefore
  <2>2. CASE next # 1
    <3>1. Plain(c) /\ level + 0 = level /\ level \in Int
      BY TokensWritten
    <3> HIDE DEF c
    <3>2. Awaits(t, Back(c), indent)
      BY DEF Ready, Awaits, Placed
    <3>3. Laid(t \o <<c>>, level + Change(c), indent) /\ Ready(t \o <<c>>)
      BY <3>1, <3>2, TokenLaid DEF Plain
    <3> QED
      BY <2>2, <3>1, <3>3 DEF CommaBefore, Plain, c
  <2> QED
    BY <2>1, <2>2
<1> HIDE DEF u
<1>2. m = Step(indent) * (level - 0)
  BY IndentTurns
<1>3. Laid(u \o Line(m), level, indent) /\ Awaits(u \o Line(m), 0, indent)
  BY <1>1, <1>2, LineLaid
<1> QED
  BY <1>3 DEF u

(* The layout through a dump.                                              *)
LEMMA LayoutStep ==
  ASSUME ParserInv, RootDelivered, VisitsInv, LayoutInv, [DumpNext]_all_vars
  PROVE  LayoutInv'
<1>0. TypeOK /\ IndicesResolve
  BY DEF ParserInv
<1>1. CASE UNCHANGED dump_vars
  BY <1>1 DEF dump_vars, LayoutInv
<1>2. CASE Dump
  <2>1. /\ Visit(<<>>, root, <<>>, indent') /\ indent' \in Int /\ dumping = "idle"
        /\ pc = "done" /\ ~has_error
    BY <1>2, IndentsAssumption DEF Dump
  <2>2. root \in JsonValues /\ Resolves(root)
    BY <1>0, <2>1 DEF RootDelivered, IndicesResolve
  <2>3. Laid(<<>>, 0, indent') /\ Awaits(<<>>, 0, indent')
    <3> DEFINE none == <<>>
    <3>1. none \in Seq(OutTokens) /\ Len(none) = 0
      BY EmptySeq
    <3>2. Awaits(none, 0, indent')
      BY DEF Awaits
    <3> HIDE DEF none
    <3>3. OpenMarks(none, 0) = {} /\ ShutMarks(none, 0) = {}
      BY DEF OpenMarks, ShutMarks
    <3>4. Cardinality({}) = 0
      BY FS_EmptySet
    <3>5. Level(none, 0) = 0
      BY <3>3, <3>4 DEF Level
    <3>6. Laid(none, 0, indent')
      BY <3>1, <3>5 DEF Laid
    <3> QED
      BY <3>2, <3>6 DEF none
  <2>4. Entered(<<>>) /\ Len(<<>>) = 0
    BY EmptySeq DEF Entered
  <2>5. current_indent = Step(indent') * 0
    <3>1. current_indent = 0
      BY <2>1 DEF VisitsInv, DumpStates
    <3>2. Step(indent') \in Nat
      BY <2>1 DEF Step
    <3> QED
      BY <3>1, <3>2
  <2> DEFINE w == indent'
             none == <<>>
  <2>6. /\ w \in Int /\ Visit(none, root, none, w) /\ Laid(none, 0, w) /\ Awaits(none, 0, w)
        /\ Entered(none) /\ Len(none) = 0 /\ current_indent = Step(w) * 0 /\ 0 \in Nat
    BY <2>1, <2>3, <2>4, <2>5
  <2> HIDE DEF w, none
  <2>7. current_indent' = Step(w) * Len(visits') /\ Laid(out', Len(visits'), w) /\ Ready(out')
    BY <1>0, <2>2, <2>6, VisitLaid
  <2> QED
    BY <2>1, <2>7 DEF LayoutInv, w
<1>3. ASSUME dumping # "idle"
      PROVE  /\ indent \in Int /\ current_indent = Step(indent) * Len(visits)
             /\ Laid(out, Len(visits), indent) /\ Ready(out)
             /\ Entered(visits) /\ Len(visits) \in Nat
  BY <1>3, LenProperties DEF LayoutInv, VisitsInv, Entered
<1>4. CASE SerializeItem
  <2> DEFINE v == Visited.value
             i == Visited.next
             n == Len(visits)
             item == Items(v)[i]
             head == out \o CommaBefore(i) \o Line(current_indent)
             child == ItemValue(v, i)
  <2>1. /\ dumping # "idle" /\ visits # <<>> /\ i <= Len(Items(v))
        /\ v.type = "Array" => Visit(head, child, Advanced(visits), indent)
        /\ v.type # "Array" => Visit(head \o KeyText(item), child, Advanced(visits), indent)
        /\ UNCHANGED indent
    BY <1>4 DEF SerializeItem, ItemValue, Advanced
  <2>2. /\ n \in Nat \ {0} /\ Visited = visits[n] /\ Visited \in VisitRecords
        /\ n \in DOMAIN visits
    BY <1>3, <2>1, LastRecord DEF Visited
  <2>3. v \in NonScalars /\ i \in Nat \ {0} /\ Resolves(v)
    BY <1>3, <2>1, <2>2 DEF VisitRecords, Entered
  <2>4. Laid(head, n, indent) /\ Awaits(head, 0, indent)
    <3>1. /\ n \in Nat /\ indent \in Int /\ Laid(out, n, indent) /\ Ready(out)
          /\ current_indent = Step(indent) * n
      BY <1>3, <2>1
    <3> HIDE DEF n, i
    <3> QED
      BY <3>1, HeadLaid
  <2>5. /\ Entered(Advanced(visits)) /\ Len(Advanced(visits)) = n
    BY <1>3, <2>1, AdvancedFacts
  <2>6. indent \in Int /\ current_indent = Step(indent) * n /\ n \in Nat
    BY <1>3, <2>1
  <2> HIDE DEF v, i, n, head
  <2>7. i \in DOMAIN Items(v)
    BY <1>0, <2>1, <2>3, ItemFacts
  <2>8. /\ child \in JsonValues /\ Resolves(child)
        /\ v.type = "Object" => item \in Members /\ KeyResolves(item.key)
    BY <1>0, <2>3, <2>7, ItemFacts
  <2>9. v.type \in {"Array", "Object"}
    BY <2>3 DEF NonScalars
  <2> HIDE DEF item, child
  <2>10. /\ current_indent' = Step(indent) * Len(visits')
         /\ Laid(out', Len(visits'), indent) /\ Ready(out')
    <3>1. CASE v.type = "Array"
      BY <1>0, <2>1, <2>4, <2>5, <2>6, <2>8, <3>1, VisitLaid
    <3>2. CASE v.type # "Array"
      <4> DEFINE text == head \o KeyText(item)
      <4>1. Laid(text, n, indent) /\ Awaits(text, 0, indent)
        BY <1>0, <2>4, <2>6, <2>8, <2>9, <3>2, KeyLaid
      <4>2. Visit(text, child, Advanced(visits), indent)
        BY <2>1, <3>2
      <4> HIDE DEF text
      <4> QED
        BY <1>0, <2>5, <2>6, <2>8, <4>1, <4>2, VisitLaid
    <3> QED
      BY <3>1, <3>2
  <2> QED
    BY <2>1, <2>6, <2>10 DEF LayoutInv
<1>5. CASE SerializeClose
  <2> DEFINE n == Len(visits)
             m == current_indent - Step(indent)
             c == Closing(Visited.value)
             u == out \o Line(m)
  <2>1. /\ dumping # "idle" /\ visits # <<>> /\ current_indent' = m /\ UNCHANGED indent
        /\ out' = out \o Line(current_indent') \o <<c>> /\ visits' = Front(visits)
    BY <1>5 DEF SerializeClose
  <2>2. Line(current_indent') = Line(m)
    BY <2>1 DEF Line
  <2>3. out' = u \o <<c>>
    BY <2>1, <2>2
  <2>4. Len(visits') = n - 1 /\ n \in Nat \ {0} /\ n - 1 \in Nat
    <3>1. visits \in Seq(VisitRecords)
      BY <1>3, <2>1 DEF Entered
    <3>2. Len(visits) \in Nat \ {0} /\ Len(Front(visits)) = Len(visits) - 1
      BY <2>1, <3>1, LastFront
    <3> QED
      BY <2>1, <3>2
  <2>5. /\ indent \in Int /\ current_indent = Step(indent) * n
        /\ Laid(out, n, indent) /\ Ready(out)
    BY <1>3, <2>1
  <2>6. c \in OutTokens /\ c.type \notin Layout /\ Change(c) = -1 /\ Back(c) = 1
    BY TokensWritten
  <2> HIDE DEF n, c
  <2>7. m = Step(indent) * (n - 1)
    BY <2>4, <2>5, IndentTurns
  <2> HIDE DEF m
  <2>8. Laid(u, n, indent) /\ Awaits(u, 1, indent)
    BY <2>4, <2>5, <2>7, LineLaid
  <2> HIDE DEF u
  <2>9. Laid(u \o <<c>>, n + Change(c), indent) /\ Ready(u \o <<c>>)
    BY <2>4, <2>6, <2>8, TokenLaid
  <2>10. n + (-1) = n - 1
    BY <2>4
  <2> QED
    BY <2>1, <2>3, <2>4, <2>5, <2>6, <2>7, <2>9, <2>10 DEF LayoutInv
<1>6. CASE DumpReturns
  BY <1>6 DEF DumpReturns, LayoutInv
<1> QED
  BY <1>1, <1>2, <1>4, <1>5, <1>6 DEF DumpNext, all_vars

(* The layout at any moment of a dump.                                     *)
LEMMA LayoutInvariant == DumpSpec => []LayoutInv
<1>1. DumpInit => LayoutInv
  BY DEF DumpInit, LayoutInv
<1>2. ParserInv /\ RootDelivered /\ VisitsInv /\ LayoutInv /\ [DumpNext]_all_vars => LayoutInv'
  BY LayoutStep
<1> QED
  BY <1>1, <1>2, VisitsInvariant, PTL DEF DumpSpec

(* Every line is indented by the containers open around what it begins     *)
(* with, whatever the document and however wide a level is; minified text  *)
(* has no layout.                                                          *)
THEOREM LayoutSafe == DumpSpec => []LayoutNested
<1>1. LayoutInv => LayoutNested
  <2> SUFFICES ASSUME LayoutInv, dumping # "idle"
               PROVE  /\ current_indent = Step(indent) * Len(visits)
                      /\ \A i \in DOMAIN out :
                           out[i].type \in Layout =>
                             /\ indent >= 0 /\ i < Len(out)
                             /\ out[i].type = "Newline" =>
                                  out[i].spaces = indent * (Nesting(i) - (IF Shuts(out[i + 1]) THEN 1 ELSE 0))
    BY DEF LayoutNested
  <2>1. current_indent = Step(indent) * Len(visits) /\ Laid(out, Len(visits), indent) /\ Ready(out)
    BY DEF LayoutInv
  <2>2. out \in Seq(OutTokens) /\ DOMAIN out = 1..Len(out) /\ Len(out) \in Nat
    BY <2>1, LenProperties DEF Laid
  <2>3. ASSUME NEW i \in DOMAIN out, out[i].type \in Layout
        PROVE  /\ indent >= 0 /\ i < Len(out)
               /\ out[i].type = "Newline" =>
                    out[i].spaces = indent * (Nesting(i) - (IF Shuts(out[i + 1]) THEN 1 ELSE 0))
    <3>1. i # Len(out)
      <4>1. out # <<>>
        BY <2>2, <2>3
      <4> QED
        BY <2>1, <2>3, <4>1 DEF Ready
    <3>2. i \in 1..Len(out) /\ i < Len(out)
      BY <2>2, <3>1
    <3>3. Placed(out, i, Back(out[i + 1]), indent)
      BY <2>1, <3>2 DEF Laid
    <3>4. Nesting(i) = Level(out, i - 1)
      BY DEF Nesting, Level, OpenMarks, ShutMarks
    <3> QED
      BY <2>3, <3>2, <3>3, <3>4 DEF Placed, Back
  <2> QED
    BY <2>1, <2>3
<1> QED
  BY <1>1, LayoutInvariant, PTL

-----------------------------------------------------------------------------
(***************************************************************************)
(* What the parser accepts the grammar derives, with the tree that is read *)
(* back from the tables.                                                   *)
(***************************************************************************)

(* What holds of 0, and of every number up to m if of the one before it.   *)
LEMMA UpTo ==
  ASSUME NEW m \in Nat, NEW S, 0 \in S, \A n \in 0..m : n \in S /\ n < m => n + 1 \in S
  PROVE  \A n \in 0..m : n \in S
<1> DEFINE bad == {n \in 1..m : n \notin S}
<1>1. bad = {}
  <2> SUFFICES ASSUME bad # {} PROVE FALSE
    OBVIOUS
  <2>1. bad \in SUBSET (1..m)
    OBVIOUS
  <2>2. PICK j \in bad : \A k \in bad : j <= k
    BY <2>1, LowestMember
  <2>3. j \in 1..m /\ j \notin S
    OBVIOUS
  <2>4. j - 1 \in 0..m /\ j - 1 < m /\ (j - 1) + 1 = j /\ (j - 1 = 0 \/ j - 1 \in 1..m)
    BY <2>3
  <2>5. j - 1 \notin bad
    BY <2>2, <2>4
  <2>6. j - 1 \in S
    BY <2>4, <2>5
  <2> QED BY <2>3, <2>4, <2>6
<1> QED BY <1>1

(* A piece of a text around one of its elements.                           *)
LEMMA Around ==
  ASSUME NEW S, NEW t \in Seq(S), NEW a \in 1..Len(t), NEW b \in a..Len(t), NEW c \in b..Len(t)
  PROVE  SubSeq(t, a, c) = (SubSeq(t, a, b - 1) \o <<t[b]>>) \o SubSeq(t, b + 1, c)
<1>0. Len(t) \in Nat
  BY LenProperties
<1>1. SubSeq(t, a, b) = SubSeq(t, a, b - 1) \o <<t[b]>>
  BY SubSeqRecursiveSecond
<1>2. a \in 1..(Len(t) + 1) /\ b \in (a - 1)..Len(t)
  BY <1>0
<1>3. SubSeq(t, a, b) \o SubSeq(t, b + 1, c) = SubSeq(t, a, c)
  BY <1>2, ConcatAdjacentSubSeq
<1> QED BY <1>1, <1>3

(* A piece of one element.                                                 *)
LEMMA OneElement ==
  ASSUME NEW S, NEW t \in Seq(S), NEW a \in 1..Len(t)
  PROVE  SubSeq(t, a, a) = <<t[a]>>
<1>0. Len(t) \in Nat
  BY LenProperties
<1>1. SubSeq(t, a, a) = <<t[a]>> \o SubSeq(t, a + 1, a)
  BY <1>0, SubSeqRecursiveFirst
<1>2. SubSeq(t, a + 1, a) = <<>>
  BY <1>0, SubSeqEmpty
<1>3. <<t[a]>> \in Seq(S)
  BY ElementOfSeq
<1> QED BY <1>1, <1>2, <1>3, ConcatEmptySeq

(* A piece is its first element and the rest.                              *)
LEMMA FirstAndRest ==
  ASSUME NEW S, NEW t \in Seq(S), NEW a \in 1..Len(t), NEW c \in a..Len(t)
  PROVE  SubSeq(t, a, c) = <<t[a]>> \o SubSeq(t, a + 1, c)
BY SubSeqRecursiveFirst

-----------------------------------------------------------------------------
(* The derivations of each length.                                         *)

(* The equations of the grammar, for the lengths up to n.                  *)
Derived(tokens, d, n) ==
  \A k \in 1..n :
    /\ d.values[k] = Values(tokens, d.elements, d.members, k)
    /\ d.pairs[k] = Pairs(tokens, d.values, k)
    /\ d.elements[k] = Lists(d.values, d.elements, k)
    /\ d.members[k] = Lists(d.pairs, d.members, k)

(* Whatever is derived consists of what is shorter.                        *)
LEMMA ListsLocal ==
  ASSUME NEW n \in Nat \ {0}, NEW items, NEW more, NEW lists, NEW longer,
         \A k \in 1..n : more[k] = items[k], \A k \in 1..(n - 1) : longer[k] = lists[k]
  PROVE  Lists(more, longer, n) = Lists(items, lists, n)
<1>1. \A i \in 1..(n - 2) : Joins(more[i], longer[n - 1 - i]) = Joins(items[i], lists[n - 1 - i])
  <2> TAKE i \in 1..(n - 2)
  <2>1. i \in 1..n /\ n - 1 - i \in 1..(n - 1)
    OBVIOUS
  <2>2. more[i] = items[i] /\ longer[n - 1 - i] = lists[n - 1 - i]
    BY <2>1
  <2> QED BY <2>2
<1>2. more[n] = items[n]
  OBVIOUS
<1>3. UNION {Joins(more[i], longer[n - 1 - i]) : i \in 1..(n - 2)} =
        UNION {Joins(items[i], lists[n - 1 - i]) : i \in 1..(n - 2)}
  BY <1>1
<1> QED BY <1>2, <1>3 DEF Lists

(* A value of n tokens is made of shorter lists.                           *)
LEMMA ValuesLocal ==
  ASSUME NEW n \in Nat \ {0}, NEW tokens, NEW ls, NEW longer, NEW ms, NEW more,
         \A k \in 1..(n - 1) : longer[k] = ls[k] /\ more[k] = ms[k]
  PROVE  Values(tokens, longer, more, n) = Values(tokens, ls, ms, n)
<1>1. n # 1 /\ n # 2 => longer[n - 2] = ls[n - 2] /\ more[n - 2] = ms[n - 2]
  OBVIOUS
<1>2. CASE n = 1
  BY <1>2 DEF Values
<1>3. CASE n # 1
  <2>1. /\ Containers(tokens, "Array", "LeftSquareBracket", "RightSquareBracket", longer, n) =
             Containers(tokens, "Array", "LeftSquareBracket", "RightSquareBracket", ls, n)
        /\ Containers(tokens, "Object", "LeftCurlyBracket", "RightCurlyBracket", more, n) =
             Containers(tokens, "Object", "LeftCurlyBracket", "RightCurlyBracket", ms, n)
    BY <1>1, <1>3 DEF Containers
  <2> QED BY <1>3, <2>1 DEF Values
<1> QED BY <1>2, <1>3

(* A member of n tokens is made of a shorter value.                        *)
LEMMA PairsLocal ==
  ASSUME NEW n \in Nat \ {0}, NEW tokens, NEW values, NEW more,
         \A k \in 1..(n - 1) : more[k] = values[k]
  PROVE  Pairs(tokens, more, n) = Pairs(tokens, values, n)
<1>1. ~(n <= 2) => more[n - 2] = values[n - 2]
  OBVIOUS
<1>2. CASE n <= 2
  BY <1>2 DEF Pairs
<1>3. CASE ~(n <= 2)
  <2>1. more[n - 2] = values[n - 2]
    BY <1>1, <1>3
  <2> QED BY <1>3, <2>1 DEF Pairs
<1> QED BY <1>2, <1>3

(* Setting the last entry of a table keeps those below.                    *)
LEMMA WithFacts ==
  ASSUME NEW n \in Nat \ {0}, NEW table, NEW x
  PROVE  /\ With(table, n, x)[n] = x /\ DOMAIN With(table, n, x) = 1..n
         /\ \A k \in 1..(n - 1) : With(table, n, x)[k] = table[k]
BY DEF With

(* One length more.                                                        *)
LEMMA DeriveOne ==
  ASSUME NEW tokens, NEW d, NEW n \in Nat \ {0}, Derived(tokens, d, n - 1)
  PROVE  Derived(tokens, Derive(tokens, d, n), n) /\ DOMAIN Derive(tokens, d, n).values = 1..n
<1> DEFINE e == Derive(tokens, d, n)
           values == With(d.values, n, Values(tokens, d.elements, d.members, n))
           pairs == With(d.pairs, n, Pairs(tokens, values, n))
<1>1. /\ e.values = values /\ e.pairs = pairs
      /\ e.elements = With(d.elements, n, Lists(values, d.elements, n))
      /\ e.members = With(d.members, n, Lists(pairs, d.members, n))
  BY DEF Derive
<1> HIDE DEF e
<1>2. /\ e.values[n] = Values(tokens, d.elements, d.members, n)
      /\ e.pairs[n] = Pairs(tokens, values, n)
      /\ e.elements[n] = Lists(values, d.elements, n) /\ e.members[n] = Lists(pairs, d.members, n)
      /\ \A k \in 1..(n - 1) : /\ e.values[k] = d.values[k] /\ e.pairs[k] = d.pairs[k]
                               /\ e.elements[k] = d.elements[k] /\ e.members[k] = d.members[k]
      /\ DOMAIN e.values = 1..n
  BY <1>1, WithFacts
<1> HIDE DEF values, pairs
<1>3. ASSUME NEW k \in 1..n
      PROVE  /\ e.values[k] = Values(tokens, e.elements, e.members, k)
             /\ e.pairs[k] = Pairs(tokens, e.values, k)
             /\ e.elements[k] = Lists(e.values, e.elements, k)
             /\ e.members[k] = Lists(e.pairs, e.members, k)
  <2>0. k \in Nat \ {0} /\ (k = n \/ k \in 1..(n - 1))
    OBVIOUS
  <2>1. \A j \in 1..(k - 1) : /\ e.elements[j] = d.elements[j] /\ e.members[j] = d.members[j]
                             /\ e.values[j] = d.values[j] /\ e.pairs[j] = d.pairs[j]
    BY <1>2
  <2>2. /\ Values(tokens, e.elements, e.members, k) = Values(tokens, d.elements, d.members, k)
        /\ Pairs(tokens, e.values, k) = Pairs(tokens, d.values, k)
        /\ Lists(e.values, e.elements, k) = Lists(e.values, d.elements, k)
        /\ Lists(e.pairs, e.members, k) = Lists(e.pairs, d.members, k)
    BY <2>0, <2>1, ValuesLocal, PairsLocal, ListsLocal
  <2>3. CASE k = n
    BY <1>1, <1>2, <2>2, <2>3
  <2>4. CASE k \in 1..(n - 1)
    <3>1. \A j \in 1..k : e.values[j] = d.values[j] /\ e.pairs[j] = d.pairs[j]
      BY <1>2, <2>4
    <3>2. /\ Lists(e.values, d.elements, k) = Lists(d.values, d.elements, k)
          /\ Lists(e.pairs, d.members, k) = Lists(d.pairs, d.members, k)
      BY <2>0, <3>1, ListsLocal
    <3>3. /\ d.values[k] = Values(tokens, d.elements, d.members, k)
          /\ d.pairs[k] = Pairs(tokens, d.values, k)
          /\ d.elements[k] = Lists(d.values, d.elements, k)
          /\ d.members[k] = Lists(d.pairs, d.members, k)
      BY <2>4 DEF Derived
    <3> QED BY <1>2, <2>2, <2>4, <3>2, <3>3
  <2> QED BY <2>0, <2>3, <2>4
<1>4. Derived(tokens, e, n)
  BY <1>3 DEF Derived
<1> QED BY <1>2, <1>4 DEF e

(* The recursion of Derivations is well defined.                           *)
LEMMA DerivationsIs ==
  ASSUME NEW tokens, NEW length \in Nat
  PROVE  \E d : /\ d = [n \in 0..length |-> IF n = 0 THEN Nothing ELSE Derive(tokens, d[n - 1], n)]
                /\ Derivations(tokens, length) = d[length]
<1> DEFINE Good(g, k) == \A n \in 0..k : g[n] = IF n = 0 THEN Nothing ELSE Derive(tokens, g[n - 1], n)
           S == {k \in 0..length : \E g : Good(g, k)}
<1>1. 0 \in S
  <2> DEFINE g == [n \in 0..0 |-> Nothing]
  <2>1. Good(g, 0)
    OBVIOUS
  <2> HIDE DEF g, Good
  <2> QED BY <2>1
<1>2. ASSUME NEW k \in 0..length, k \in S, k < length PROVE k + 1 \in S
  <2>1. PICK g : Good(g, k)
    BY <1>2
  <2> DEFINE h == [n \in 0..(k + 1) |-> IF n <= k THEN g[n] ELSE Derive(tokens, g[n - 1], n)]
  <2>2. Good(h, k + 1)
    <3> SUFFICES ASSUME NEW n \in 0..(k + 1)
                 PROVE  h[n] = IF n = 0 THEN Nothing ELSE Derive(tokens, h[n - 1], n)
      OBVIOUS
    <3>1. n # 0 => h[n - 1] = g[n - 1]
      OBVIOUS
    <3>2. CASE n <= k
      BY <2>1, <3>1, <3>2
    <3>3. CASE ~(n <= k)
      <4>1. h[n] = Derive(tokens, g[n - 1], n) /\ n # 0
        BY <3>3
      <4> HIDE DEF h
      <4> QED BY <3>1, <4>1
    <3> QED BY <3>2, <3>3
  <2> HIDE DEF h, Good
  <2> QED BY <1>2, <2>2
<1>3. length \in S
  <2> HIDE DEF S
  <2> QED BY <1>1, <1>2, UpTo
<1>4. PICK g : Good(g, length)
  BY <1>3
<1> DEFINE f == [n \in 0..length |-> g[n]]
<1>5. f = [n \in 0..length |-> IF n = 0 THEN Nothing ELSE Derive(tokens, f[n - 1], n)]
  <2>1. \A n \in 0..length : f[n] = IF n = 0 THEN Nothing ELSE Derive(tokens, f[n - 1], n)
    <3> TAKE n \in 0..length
    <3>1. n # 0 => f[n - 1] = g[n - 1]
      OBVIOUS
    <3>2. f[n] = g[n]
      OBVIOUS
    <3>3. g[n] = IF n = 0 THEN Nothing ELSE Derive(tokens, g[n - 1], n)
      BY <1>4
    <3> HIDE DEF f
    <3> QED BY <3>1, <3>2, <3>3
  <2> QED BY <2>1
<1> DEFINE d == CHOOSE d : d = [n \in 0..length |-> IF n = 0 THEN Nothing ELSE Derive(tokens, d[n - 1], n)]
<1>6. d = [n \in 0..length |-> IF n = 0 THEN Nothing ELSE Derive(tokens, d[n - 1], n)]
  <2>1. \E x : x = [n \in 0..length |-> IF n = 0 THEN Nothing ELSE Derive(tokens, x[n - 1], n)]
    <3> HIDE DEF f
    <3> QED BY <1>5
  <2> QED BY <2>1
<1>7. Derivations(tokens, length) = d[length]
  BY DEF Derivations
<1> HIDE DEF d
<1> QED BY <1>6, <1>7

(* Derivations meet the equations of the grammar.                          *)
LEMMA DerivationsDerived ==
  ASSUME NEW tokens, NEW length \in Nat \ {0}
  PROVE  /\ Derived(tokens, Derivations(tokens, length), length)
         /\ DOMAIN Derivations(tokens, length).values = 1..length
<1>1. PICK d : /\ d = [n \in 0..length |-> IF n = 0 THEN Nothing ELSE Derive(tokens, d[n - 1], n)]
               /\ Derivations(tokens, length) = d[length]
  BY DerivationsIs
<1>2. \A n \in 0..length : d[n] = IF n = 0 THEN Nothing ELSE Derive(tokens, d[n - 1], n)
  BY <1>1
<1> DEFINE S == {n \in 0..length : Derived(tokens, d[n], n)}
<1>3. 0 \in S
  BY DEF Derived
<1>4. ASSUME NEW n \in 0..length, n \in S, n < length PROVE n + 1 \in S
  <2>1. /\ n + 1 \in 0..length /\ n + 1 \in Nat \ {0} /\ (n + 1) - 1 = n
        /\ d[n + 1] = Derive(tokens, d[(n + 1) - 1], n + 1)
    BY <1>2, <1>4
  <2>2. Derived(tokens, d[n], (n + 1) - 1)
    BY <1>4, <2>1
  <2>3. Derived(tokens, Derive(tokens, d[n], n + 1), n + 1)
    BY <2>1, <2>2, DeriveOne
  <2> QED BY <2>1, <2>3
<1>5. length - 1 \in S
  <2> HIDE DEF S
  <2>1. length - 1 \in 0..length
    OBVIOUS
  <2> QED BY <1>3, <1>4, <2>1, UpTo
<1>6. d[length] = Derive(tokens, d[length - 1], length)
  BY <1>2
<1> QED BY <1>1, <1>5, <1>6, DeriveOne

(* The recursion of Forest is well defined.                                *)
Bare == [arrays  |-> [a \in DOMAIN arrays |-> Leaf("Array", 0)],
         objects |-> [o \in DOMAIN objects |-> Leaf("Object", 0)]]

(* Each round grows the trees of the round before.                         *)
LEMMA ForestIs ==
  ASSUME NEW m \in Nat, m = Len(pulled)
  PROVE  \A n \in 0..m : Forest[n] = IF n = 0 THEN Bare ELSE Grow(Forest[n - 1])
<1> DEFINE Good(g, k) == \A n \in 0..k : g[n] = IF n = 0 THEN Bare ELSE Grow(g[n - 1])
           S == {k \in 0..m : \E g : Good(g, k)}
<1>1. 0 \in S
  <2> DEFINE g == [n \in 0..0 |-> Bare]
  <2>1. Good(g, 0)
    OBVIOUS
  <2> HIDE DEF g, Good
  <2> QED BY <2>1
<1>2. ASSUME NEW k \in 0..m, k \in S, k < m PROVE k + 1 \in S
  <2>1. PICK g : Good(g, k)
    BY <1>2
  <2> DEFINE h == [n \in 0..(k + 1) |-> IF n <= k THEN g[n] ELSE Grow(g[n - 1])]
  <2>2. Good(h, k + 1)
    <3> SUFFICES ASSUME NEW n \in 0..(k + 1)
                 PROVE  h[n] = IF n = 0 THEN Bare ELSE Grow(h[n - 1])
      OBVIOUS
    <3>1. n # 0 => h[n - 1] = g[n - 1]
      OBVIOUS
    <3>2. CASE n <= k
      BY <2>1, <3>1, <3>2
    <3>3. CASE ~(n <= k)
      <4>1. h[n] = Grow(g[n - 1]) /\ n # 0
        BY <3>3
      <4> HIDE DEF h
      <4> QED BY <3>1, <4>1
    <3> QED BY <3>2, <3>3
  <2> HIDE DEF h, Good
  <2> QED BY <1>2, <2>2
<1>3. m \in S
  <2> HIDE DEF S
  <2> QED BY <1>1, <1>2, UpTo
<1>4. PICK g : Good(g, m)
  BY <1>3
<1> DEFINE f == [n \in 0..m |-> g[n]]
<1>5. f = [n \in 0..m |-> IF n = 0 THEN Bare ELSE Grow(f[n - 1])]
  <2>1. \A n \in 0..m : f[n] = IF n = 0 THEN Bare ELSE Grow(f[n - 1])
    <3> TAKE n \in 0..m
    <3>1. n # 0 => f[n - 1] = g[n - 1]
      OBVIOUS
    <3>2. f[n] = g[n]
      OBVIOUS
    <3>3. g[n] = IF n = 0 THEN Bare ELSE Grow(g[n - 1])
      BY <1>4
    <3> HIDE DEF f
    <3> QED BY <3>1, <3>2, <3>3
  <2> QED BY <2>1
<1>6. \E x : x = [n \in 0..m |-> IF n = 0 THEN Bare ELSE Grow(x[n - 1])]
  <2> HIDE DEF f
  <2> QED BY <1>5
<1>7. Forest = CHOOSE x : x = [n \in 0..m |-> IF n = 0 THEN Bare ELSE Grow(x[n - 1])]
  BY DEF Forest, Bare
<1>8. Forest = [n \in 0..m |-> IF n = 0 THEN Bare ELSE Grow(Forest[n - 1])]
  BY <1>6, <1>7
<1> QED BY <1>8

(* The tree of a container, from those of its items.                       *)
ItemTree(trees, kind, item) ==
  IF kind = "Array" THEN TreeOver(trees, item)
  ELSE [key |-> ResolveKey(item.key), value |-> TreeOver(trees, item.value)]

(* The tree of a container after k rounds has the trees of its items after *)
(* k - 1.                                                                  *)
LEMMA ContainerTree ==
  ASSUME NEW m \in Nat, m = Len(pulled), NEW k \in 1..m, NEW v, NEW p, p = v.payload + 1
  PROVE  /\ v.type = "Array" /\ p \in DOMAIN arrays =>
              TreeOver(Forest[k], v) =
                Branch("Array", [i \in DOMAIN arrays[p] |->
                                   ItemTree(Forest[k - 1], "Array", arrays[p][i])])
         /\ v.type = "Object" /\ p \in DOMAIN objects =>
              TreeOver(Forest[k], v) =
                Branch("Object", [i \in DOMAIN objects[p] |->
                                    ItemTree(Forest[k - 1], "Object", objects[p][i])])
<1>1. Forest[k] = Grow(Forest[k - 1])
  BY ForestIs
<1> DEFINE f == Forest[k - 1]
           g == Forest[k]
<1>2. g = Grow(f)
  BY <1>1
<1> HIDE DEF f, g
<1>3. /\ p \in DOMAIN arrays =>
           g.arrays[p] = Branch("Array", [i \in DOMAIN arrays[p] |-> TreeOver(f, arrays[p][i])])
      /\ p \in DOMAIN objects =>
           g.objects[p] = Branch("Object", [i \in DOMAIN objects[p] |->
             [key |-> ResolveKey(objects[p][i].key), value |-> TreeOver(f, objects[p][i].value)]])
  BY <1>2 DEF Grow
<1>4. /\ v.type = "Array" => TreeOver(g, v) = g.arrays[p]
      /\ v.type = "Object" => TreeOver(g, v) = g.objects[p]
  BY DEF TreeOver
<1>5. /\ p \in DOMAIN arrays =>
           g.arrays[p] = Branch("Array", [i \in DOMAIN arrays[p] |-> ItemTree(f, "Array", arrays[p][i])])
      /\ p \in DOMAIN objects =>
           g.objects[p] = Branch("Object", [i \in DOMAIN objects[p] |->
                                              ItemTree(f, "Object", objects[p][i])])
  BY <1>3 DEF ItemTree
<1> QED BY <1>4, <1>5 DEF f, g

(* One item, then a comma and the list of the items after it, is a list.   *)
LEMMA SingleList ==
  ASSUME NEW lists, NEW items, NEW n \in Nat \ {0}, lists[n] = Lists(items, lists, n),
         NEW v \in items[n]
  PROVE  [text |-> v.text, tree |-> <<v.tree>>, nesting |-> v.nesting] \in lists[n]
<1>1. [text |-> v.text, tree |-> <<v.tree>>, nesting |-> v.nesting] \in Singles(items[n])
  BY DEF Singles
<1> QED BY <1>1 DEF Lists

(* An item joined to a list is among the joins.                            *)
LEMMA JoinedPair ==
  ASSUME NEW A, NEW B, NEW v \in A, NEW l \in B
  PROVE  Joined(v, l) \in Joins(A, B)
BY DEF Joins

(* An item joined to a list is a list.                                     *)
LEMMA JoinedList ==
  ASSUME NEW lists, NEW items, NEW n \in Nat \ {0}, lists[n] = Lists(items, lists, n),
         NEW i \in 1..(n - 2), NEW v \in items[i], NEW l \in lists[n - 1 - i]
  PROVE  [text |-> v.text \o Tok("Comma") \o l.text, tree |-> <<v.tree>> \o l.tree,
          nesting |-> MaxOf(v.nesting, l.nesting)] \in lists[n]
<1>1. Joined(v, l) \in Joins(items[i], lists[n - 1 - i])
  BY JoinedPair
<1>2. Joins(items[i], lists[n - 1 - i]) \in {Joins(items[k], lists[n - 1 - k]) : k \in 1..(n - 2)}
  OBVIOUS
<1>3. Joins(items[i], lists[n - 1 - i]) \subseteq lists[n]
  BY <1>2 DEF Lists
<1> QED BY <1>1, <1>3 DEF Joined

(* The tokens lo to hi are derived, with a tree, nested at most b deep.    *)
Derivable(t, lo, hi, tree, b, derived) ==
  \E g \in 0..b : [text |-> SubSeq(t, lo, hi), tree |-> tree, nesting |-> g] \in derived

ListsUpTo(lists, items, size) == \A n \in 1..size : lists[n] = Lists(items, lists, n)

(* The marks of m items in a text.                                         *)
Apart(t, marks, m) ==
  /\ m \in Nat \ {0} /\ marks \in Seq(Nat) /\ Len(marks) = m + 1
  /\ \A j \in 1..(m + 1) : marks[j] \in 1..Len(t)
  /\ \A j \in 1..m : marks[j] + 1 < marks[j + 1]

(* What the parts of a text between its marks are derived as.              *)
Parts(t, marks, m, trees, items, b) ==
  /\ Apart(t, marks, m)
  /\ \A j \in 2..m : t[marks[j]] = [type |-> "Comma"]
  /\ \A j \in 1..m : Derivable(t, marks[j] + 1, marks[j + 1] - 1, trees[j], b,
                              items[marks[j + 1] - marks[j] - 1])

(* Marks that are apart are in order.                                      *)
LEMMA MarksOrder ==
  ASSUME NEW t, Len(t) \in Nat, NEW marks, NEW m \in Nat \ {0}, Apart(t, marks, m)
  PROVE  /\ \A j \in 1..(m + 1) : marks[j] \in Nat /\ marks[1] <= marks[j]
         /\ \A j \in 1..m : marks[j] + 1 < marks[m + 1]
<1>1. /\ \A j \in 1..(m + 1) : marks[j] \in 1..Len(t)
      /\ \A j \in 1..m : marks[j] + 1 < marks[j + 1]
  BY DEF Apart
<1>2. \A j \in 1..(m + 1) : marks[j] \in Nat
  BY <1>1
<1> DEFINE Q == {i \in 0..m : marks[1] <= marks[i + 1]}
           R == {i \in 0..(m - 1) : marks[m - i] + 1 < marks[m + 1]}
<1>3. \A i \in 0..m : i \in Q
  <2>1. 0 \in Q
    BY <1>2
  <2>2. ASSUME NEW i \in 0..m, i \in Q, i < m PROVE i + 1 \in Q
    <3> DEFINE j == i + 1
    <3>1. j \in 1..m /\ j \in 1..(m + 1) /\ j + 1 \in 1..(m + 1) /\ 1 \in 1..(m + 1) /\ j \in 0..m
      BY <2>2
    <3>2. marks[1] <= marks[j]
      BY <2>2
    <3> HIDE DEF j
    <3>3. marks[1] <= marks[j + 1]
      BY <1>1, <1>2, <3>1, <3>2
    <3>4. j \in Q
      BY <3>1, <3>3
    <3> QED BY <3>4 DEF j
  <2> HIDE DEF Q
  <2> QED BY <2>1, <2>2, UpTo
<1>4. \A i \in 0..(m - 1) : i \in R
  <2>1. 0 \in R
    <3>1. m \in 1..m /\ m - 0 = m /\ 0 \in 0..(m - 1)
      OBVIOUS
    <3> QED BY <1>1, <3>1
  <2>2. ASSUME NEW i \in 0..(m - 1), i \in R, i < m - 1 PROVE i + 1 \in R
    <3> DEFINE j == m - (i + 1)
    <3>1. /\ j \in 1..m /\ j \in 1..(m + 1) /\ j + 1 \in 1..(m + 1) /\ m - i = j + 1
          /\ m + 1 \in 1..(m + 1) /\ i + 1 \in 0..(m - 1)
      BY <2>2
    <3>2. marks[m - i] + 1 < marks[m + 1]
      BY <2>2
    <3> HIDE DEF j
    <3>3. marks[j] + 1 < marks[m + 1]
      BY <1>1, <1>2, <3>1, <3>2
    <3> QED BY <3>1, <3>3 DEF j
  <2>3. m - 1 \in Nat
    OBVIOUS
  <2> HIDE DEF R
  <2> QED BY <2>1, <2>2, <2>3, UpTo
<1>5. ASSUME NEW j \in 1..(m + 1) PROVE marks[1] <= marks[j]
  <2>1. j - 1 \in 0..m /\ (j - 1) + 1 = j
    OBVIOUS
  <2> QED BY <1>3, <2>1
<1>6. ASSUME NEW j \in 1..m PROVE marks[j] + 1 < marks[m + 1]
  <2>1. m - j \in 0..(m - 1) /\ m - (m - j) = j
    OBVIOUS
  <2> QED BY <1>4, <2>1
<1> QED BY <1>2, <1>5, <1>6

(* The items between the marks of a container make a list.                 *)
LEMMA ListDerives ==
  ASSUME NEW S, NEW t \in Seq(S), NEW m \in Nat \ {0}, NEW T, NEW trees \in Seq(T), Len(trees) = m,
         NEW marks, NEW items, NEW b \in Nat, Parts(t, marks, m, trees, items, b),
         NEW lists, NEW size \in Nat, marks[m + 1] - marks[1] - 1 <= size,
         ListsUpTo(lists, items, size)
  PROVE  Derivable(t, marks[1] + 1, marks[m + 1] - 1, trees, b, lists[marks[m + 1] - marks[1] - 1])
<1> DEFINE end == marks[m + 1]
           ListFrom(j) == Derivable(t, marks[j] + 1, end - 1, SubSeq(trees, j, m), b,
                                    lists[end - marks[j] - 1])
           P == {i \in 0..(m - 1) : ListFrom(m - i)}
<1>0. Len(t) \in Nat
  BY LenProperties
<1>1. /\ \A j \in 1..(m + 1) : marks[j] \in Nat /\ marks[1] <= marks[j] /\ marks[j] \in 1..Len(t)
      /\ \A j \in 1..m : marks[j] + 1 < end
  BY <1>0, MarksOrder DEF Parts, Apart
<1>2. ASSUME NEW j \in 1..m
      PROVE  /\ marks[j] \in 1..Len(t) /\ end \in 1..Len(t) /\ marks[1] <= marks[j]
             /\ marks[1] \in Nat /\ marks[j] \in Nat /\ end \in Nat
             /\ marks[j] + 1 < end /\ end - marks[j] - 1 \in 1..size
  <2>1. j \in 1..(m + 1) /\ m + 1 \in 1..(m + 1) /\ 1 \in 1..(m + 1)
    OBVIOUS
  <2>2. /\ marks[j] \in 1..Len(t) /\ end \in 1..Len(t) /\ marks[1] <= marks[j]
        /\ marks[1] \in Nat /\ marks[j] \in Nat /\ end \in Nat /\ marks[j] + 1 < end
    BY <1>1, <2>1
  <2>3. end - marks[1] - 1 <= size
    OBVIOUS
  <2> DEFINE x == marks[j]  y == marks[1]
  <2> HIDE DEF end, x, y
  <2>4. end - x - 1 \in 1..size
    BY <2>2, <2>3 DEF x, y
  <2> QED BY <2>2, <2>4 DEF x
<1>3. \A j \in 1..m : lists[end - marks[j] - 1] = Lists(items, lists, end - marks[j] - 1)
  BY <1>2 DEF ListsUpTo
<1>4. /\ \A j \in 2..m : t[marks[j]] = [type |-> "Comma"]
      /\ \A j \in 1..m : marks[j] + 1 < marks[j + 1]
      /\ \A j \in 1..m : Derivable(t, marks[j] + 1, marks[j + 1] - 1, trees[j], b,
                                  items[marks[j + 1] - marks[j] - 1])
  BY DEF Parts, Apart
<1>5. 0 \in P
  <2>1. m \in 1..m /\ m - 0 = m /\ 0 \in 0..(m - 1)
    OBVIOUS
  <2> DEFINE n == end - marks[m] - 1
  <2>2. n \in Nat \ {0} /\ lists[n] = Lists(items, lists, n)
    BY <1>2, <1>3, <2>1
  <2>3. PICK g \in 0..b : [text |-> SubSeq(t, marks[m] + 1, end - 1), tree |-> trees[m], nesting |-> g]
                            \in items[n]
    BY <1>4, <2>1 DEF Derivable
  <2> HIDE DEF n
  <2>4. [text |-> SubSeq(t, marks[m] + 1, end - 1), tree |-> <<trees[m]>>, nesting |-> g] \in lists[n]
    <3> DEFINE v == [text |-> SubSeq(t, marks[m] + 1, end - 1), tree |-> trees[m], nesting |-> g]
    <3>1. [text |-> v.text, tree |-> <<v.tree>>, nesting |-> v.nesting] \in lists[n]
      <4> HIDE DEF v
      <4>1. v \in items[n]
        BY <2>3 DEF v
      <4> QED BY <2>2, <4>1, SingleList
    <3> QED BY <3>1
  <2>5. SubSeq(trees, m, m) = <<trees[m]>>
    BY <2>1, OneElement
  <2>6. ListFrom(m)
    BY <2>4, <2>5 DEF n, Derivable
  <2> HIDE DEF ListFrom
  <2> QED BY <2>1, <2>6
<1>6. ASSUME NEW i \in 0..(m - 1), i \in P, i < m - 1 PROVE i + 1 \in P
  <2> DEFINE j == m - (i + 1)
  <2>1. /\ i + 1 \in 0..(m - 1) /\ m - i = j + 1 /\ j \in 1..m /\ j + 1 \in 1..m /\ j + 1 \in 2..m
    BY <1>6
  <2>2. ListFrom(j + 1)
    BY <1>6, <2>1
  <2> HIDE DEF j
  <2> DEFINE lo == marks[j]
             mid == marks[j + 1]
             n == end - lo - 1
             l == mid - lo - 1
  <2>3. /\ lo \in 1..Len(t) /\ mid \in 1..Len(t) /\ end \in 1..Len(t)
        /\ lo + 1 < mid /\ mid + 1 < end /\ n \in 1..size /\ t[mid] = [type |-> "Comma"]
        /\ lists[n] = Lists(items, lists, n)
    BY <1>2, <1>3, <1>4, <2>1
  <2>4. PICK g \in 0..b : [text |-> SubSeq(t, lo + 1, mid - 1), tree |-> trees[j], nesting |-> g] \in items[l]
    BY <1>4, <2>1 DEF Derivable
  <2>5. PICK h \in 0..b : [text |-> SubSeq(t, mid + 1, end - 1), tree |-> SubSeq(trees, j + 1, m),
                           nesting |-> h] \in lists[end - mid - 1]
    BY <2>2 DEF Derivable
  <2> HIDE DEF ListFrom, lo, mid, end
  <2>6. n \in Nat \ {0} /\ l \in 1..(n - 2) /\ end - mid - 1 = n - 1 - l
    BY <1>0, <2>3
  <2> HIDE DEF n, l
  <2> DEFINE lists2 == lists[end - mid - 1]
  <2>7. [text |-> SubSeq(t, lo + 1, mid - 1) \o Tok("Comma") \o SubSeq(t, mid + 1, end - 1),
         tree |-> <<trees[j]>> \o SubSeq(trees, j + 1, m), nesting |-> MaxOf(g, h)] \in lists[n]
    <3> DEFINE v == [text |-> SubSeq(t, lo + 1, mid - 1), tree |-> trees[j], nesting |-> g]
               r == [text |-> SubSeq(t, mid + 1, end - 1), tree |-> SubSeq(trees, j + 1, m), nesting |-> h]
    <3>1. [text |-> v.text \o Tok("Comma") \o r.text, tree |-> <<v.tree>> \o r.tree,
           nesting |-> MaxOf(v.nesting, r.nesting)] \in lists[n]
      <4>1. v \in items[l] /\ r \in lists[n - 1 - l]
        BY <2>4, <2>5, <2>6
      <4> HIDE DEF v, r
      <4> QED BY <2>3, <2>6, <4>1, JoinedList
    <3> QED BY <3>1
  <2>8. SubSeq(t, lo + 1, end - 1) =
          SubSeq(t, lo + 1, mid - 1) \o Tok("Comma") \o SubSeq(t, mid + 1, end - 1)
    <3>1. lo + 1 \in 1..Len(t) /\ mid \in (lo + 1)..Len(t) /\ end - 1 \in mid..Len(t)
      BY <1>0, <2>3
    <3>2. SubSeq(t, lo + 1, end - 1) =
            (SubSeq(t, lo + 1, mid - 1) \o <<t[mid]>>) \o SubSeq(t, mid + 1, end - 1)
      BY <3>1, Around
    <3> QED BY <2>3, <3>2 DEF Tok
  <2>9. SubSeq(trees, j, m) = <<trees[j]>> \o SubSeq(trees, j + 1, m)
    <3>1. j \in 1..Len(trees) /\ m \in j..Len(trees)
      BY <2>1
    <3> QED BY <3>1, FirstAndRest
  <2>10. MaxOf(g, h) \in 0..b
    BY DEF MaxOf
  <2>11. ListFrom(j)
    BY <2>7, <2>8, <2>9, <2>10 DEF ListFrom, lo, n, Derivable
  <2> QED BY <2>1, <2>11 DEF j
<1>7. \A i \in 0..(m - 1) : i \in P
  <2> HIDE DEF P
  <2>1. m - 1 \in Nat
    OBVIOUS
  <2> QED BY <1>5, <1>6, <2>1, UpTo
<1>8. ListFrom(1)
  <2>1. m - 1 \in 0..(m - 1) /\ m - (m - 1) = 1
    OBVIOUS
  <2> QED BY <1>7, <2>1
<1>9. SubSeq(trees, 1, m) = trees
  BY SubSeqFull
<1> QED BY <1>8, <1>9

(* The integers of the source texts are those 48 bits represent.           *)
IntegersFit == \A n \in IntegerLiterals : Truncate48(n) = n

(* A token without content is its type.                                    *)
LEMMA PlainToken ==
  ASSUME NEW t \in Tokens
  PROVE  t.type \in {"LeftCurlyBracket", "RightCurlyBracket", "LeftSquareBracket",
                     "RightSquareBracket", "Comma", "Colon", "Null", "EndOfFile"}
           => t = [type |-> t.type]
BY DEF Tokens

(* A scalar is derived from the token it was made of.                      *)
LEMMA ScalarDerives ==
  ASSUME NEW tokens, NEW t \in tokens, t \in Tokens, NEW v, NEW w, w.strings = strings,
         Denotes(t, v, w), IntegersFit, NEW trees
  PROVE  [text |-> <<t>>, tree |-> TreeOver(trees, v), nesting |-> 0] \in Scalars(tokens)
<1>1. CASE t.type = "Null" /\ v = Value("Null", 0)
  <2>1. TreeOver(trees, v) = Leaf("Null", 0)
    BY <1>1 DEF TreeOver, Value
  <2> QED BY <1>1, <2>1 DEF Scalars
<1>2. CASE t.type = "Boolean" /\ v = Value("Boolean", IF t.value THEN 1 ELSE 0)
  <2>1. t.value \in BOOLEAN
    BY <1>2 DEF Tokens
  <2>2. v.type = "Boolean" /\ (v.payload # 0) = t.value
    BY <1>2, <2>1 DEF Value
  <2>3. TreeOver(trees, v) = Leaf(t.type, t.value)
    BY <1>2, <2>2 DEF TreeOver
  <2> HIDE DEF TreeOver
  <2>4. [text |-> <<t>>, tree |-> Leaf(t.type, t.value), nesting |-> 0] \in Scalars(tokens)
    BY <1>2 DEF Scalars
  <2> QED BY <2>3, <2>4
<1>3. CASE t.type = "Integer" /\ v = Value("Integer", Truncate48(t.value))
  <2>1. t.value \in IntegerLiterals
    BY <1>3 DEF Tokens
  <2>2. v = Value("Integer", t.value)
    BY <1>3, <2>1 DEF IntegersFit
  <2>3. TreeOver(trees, v) = Leaf(t.type, t.value)
    BY <1>3, <2>2 DEF TreeOver, Value
  <2>4. [text |-> <<t>>, tree |-> Leaf(t.type, t.value), nesting |-> 0] \in Scalars(tokens)
    BY <1>3 DEF Scalars
  <2> QED BY <2>3, <2>4
<1>4. CASE t.type = "Double" /\ t.value \notin OutOfRange /\ v = Value("Double", t.value)
  <2>3. TreeOver(trees, v) = Leaf(t.type, t.value)
    BY <1>4 DEF TreeOver, Value
  <2>4. [text |-> <<t>>, tree |-> Leaf(t.type, t.value), nesting |-> 0] \in Scalars(tokens)
    BY <1>4 DEF Scalars
  <2> QED BY <2>3, <2>4
<1>5. CASE /\ t.type = "String" /\ Decoded(t.value) # Malformed
           /\ v.type = "String" /\ v.payload + 1 \in 1..Len(w.strings)
           /\ w.strings[v.payload + 1] = Decoded(t.value)
  <2>1. TreeOver(trees, v) = Leaf("String", Decoded(t.value))
    BY <1>5 DEF TreeOver
  <2>2. [text |-> <<t>>, tree |-> Leaf("String", Decoded(t.value)), nesting |-> 0] \in Scalars(tokens)
    BY <1>5 DEF Scalars, WellFormed
  <2> QED BY <2>1, <2>2
<1> QED BY <1>1, <1>2, <1>3, <1>4, <1>5 DEF Denotes

(* A key, a colon and a value are a member.                                *)
LEMMA PairDerives ==
  ASSUME NEW tokens, NEW values, NEW n \in Nat, n > 2, NEW k \in MemberHeads(tokens),
         NEW v \in values[n - 2]
  PROVE  Pair(k, v) \in Pairs(tokens, values, n)
<1>1. ~(n <= 2)
  OBVIOUS
<1> QED BY <1>1 DEF Pairs

(* A list in brackets is a container; so are the brackets alone.           *)
LEMMA BracketsDerive ==
  ASSUME NEW tokens, NEW type, NEW open, NEW close, NEW lists, NEW n \in Nat,
         [type |-> open] \in tokens
  PROVE  /\ n = 2 => [text |-> Tok(open) \o Tok(close), tree |-> Branch(type, <<>>), nesting |-> 0]
                       \in Containers(tokens, type, open, close, lists, n)
         /\ n # 2 => \A l \in lists[n - 2] :
              [text |-> Tok(open) \o l.text \o Tok(close),
               tree |-> Branch(type, l.tree), nesting |-> l.nesting + 1]
                \in Containers(tokens, type, open, close, lists, n)
BY DEF Containers

-----------------------------------------------------------------------------
(* A text being read back: the tables it lies in, the heights of the       *)
(* stored containers, and what the grammar derives from its tokens.        *)
Reading(w, ha, ho, tokens, length, d) ==
  /\ TypeOK /\ IndicesResolve /\ IntegersFit
  /\ w \in Worlds /\ w.text = pulled /\ w.strings = strings
  /\ TablesLie(arrays, objects, w)
  /\ ha \in Seq(Nat) /\ ho \in Seq(Nat) /\ Stored(ha, ho)
  /\ \A i \in 1..(Len(w.text) - 1) : w.text[i] \in tokens
  /\ length \in Nat /\ Len(w.text) - 1 <= length
  /\ Derived(tokens, d, length)

(* A derivation of v from the tokens lo to hi, with fuel k.                *)
Derives(v, lo, hi, k, w, ha, ho, d) ==
  Derivable(w.text, lo, hi, TreeOver(Forest[k], v), Height(v, ha, ho), d.values[hi - lo + 1])

ShorterDerive(n, w, ha, ho, d) ==
  \A v \in JsonValues : \A lo, hi, k \in Nat :
    Resolves(v) /\ Spans(v, lo, hi, w) /\ hi < Len(w.text) /\ hi - lo + 1 < n
      /\ hi - lo + 1 <= k /\ k <= Len(w.text) => Derives(v, lo, hi, k, w, ha, ho, d)

(* One item of a container.                                                *)
ItemsDerived(kind, d) == IF kind = "Array" THEN d.values ELSE d.pairs
ListsDerived(kind, d) == IF kind = "Array" THEN d.elements ELSE d.members
ValueOfItem(kind, item) == IF kind = "Array" THEN item ELSE item.value

(* An item of a container is derived from its tokens, if its value is.     *)
LEMMA ItemDerives ==
  ASSUME NEW w, NEW ha, NEW ho, NEW tokens, NEW length, NEW d, Reading(w, ha, ho, tokens, length, d),
         NEW n \in Nat, ShorterDerive(n, w, ha, ho, d),
         NEW kind \in {"Array", "Object"}, NEW item, ValueOfItem(kind, item) \in JsonValues,
         Resolves(ValueOfItem(kind, item)),
         NEW lo \in Nat, NEW hi \in Nat, hi < Len(w.text), ItemSpans(kind, item, lo, hi, w),
         hi - lo + 1 < n, NEW k \in Nat, hi - lo + 1 <= k, k <= Len(w.text)
  PROVE  /\ lo \in 1..Len(w.text) /\ lo <= hi
         /\ Derivable(w.text, lo, hi, ItemTree(Forest[k], kind, item),
                      Height(ValueOfItem(kind, item), ha, ho), ItemsDerived(kind, d)[hi - lo + 1])
<1>0. /\ Len(w.text) \in Nat /\ w.text \in Seq(Tokens) /\ w.strings = strings
      /\ \A i \in 1..Len(w.text) : w.text[i] \in Tokens
      /\ \A i \in 1..(Len(w.text) - 1) : w.text[i] \in tokens
      /\ length \in Nat /\ Len(w.text) - 1 <= length /\ Derived(tokens, d, length)
  BY WorldLens DEF Reading, Worlds
<1>1. CASE kind = "Array"
  <2>1. Spans(item, lo, hi, w) /\ item \in JsonValues /\ Resolves(item)
    BY <1>1 DEF ItemSpans, ValueOfItem
  <2>2. lo \in 1..Len(w.text) /\ lo <= hi
    BY <1>0, <2>1 DEF Spans
  <2>3. Derives(item, lo, hi, k, w, ha, ho, d)
    BY <2>1 DEF ShorterDerive
  <2> QED
    BY <1>1, <2>2, <2>3 DEF Derives, ItemTree, ItemsDerived, ValueOfItem
<1>2. CASE kind = "Object"
  <2> DEFINE v == item.value
             t == w.text
  <2>1. /\ Spans(v, lo + 2, hi, w) /\ v \in JsonValues /\ Resolves(v)
        /\ lo \in 1..Len(t) /\ Names(t[lo], item.key, w) /\ t[lo + 1].type = "Colon"
    BY <1>2 DEF ItemSpans, ValueOfItem
  <2>2. lo + 2 \in 1..Len(t) /\ lo + 2 <= hi /\ lo + 2 \in Nat
    BY <1>0, <2>1 DEF Spans
  <2>3. Derives(v, lo + 2, hi, k, w, ha, ho, d)
    <3>1. hi - (lo + 2) + 1 < n /\ hi - (lo + 2) + 1 <= k
      OBVIOUS
    <3> QED BY <2>1, <2>2, <3>1 DEF ShorterDerive
  <2>4. PICK g \in 0..Height(v, ha, ho) :
          [text |-> SubSeq(t, lo + 2, hi), tree |-> TreeOver(Forest[k], v), nesting |-> g]
            \in d.values[hi - (lo + 2) + 1]
    BY <2>3 DEF Derives, Derivable
  <2> DEFINE l == hi - lo + 1
             x == [text |-> SubSeq(t, lo + 2, hi), tree |-> TreeOver(Forest[k], v), nesting |-> g]
  <2>5. l \in Nat /\ l > 2 /\ hi - (lo + 2) + 1 = l - 2 /\ l \in 1..length
    BY <1>0, <2>1, <2>2
  <2>6. t[lo] \in MemberHeads(tokens)
    <3>1. t[lo] \in tokens
      BY <1>0, <2>1, <2>2
    <3> QED BY <2>1, <3>1 DEF Names, MemberHeads, WellFormed
  <2>7. Pair(t[lo], x) \in d.pairs[l]
    <3>1. x \in d.values[l - 2]
      BY <2>4, <2>5
    <3>2. d.pairs[l] = Pairs(tokens, d.values, l)
      BY <1>0, <2>5 DEF Derived
    <3> HIDE DEF x, l
    <3> QED BY <2>5, <2>6, <3>1, <3>2, PairDerives
  <2>8. Pair(t[lo], x) = [text |-> <<t[lo]>> \o Tok("Colon") \o SubSeq(t, lo + 2, hi),
                          tree |-> [key |-> Decoded(t[lo].value), value |-> TreeOver(Forest[k], v)],
                          nesting |-> g]
    BY DEF Pair
  <2>9. SubSeq(t, lo, hi) = <<t[lo]>> \o Tok("Colon") \o SubSeq(t, lo + 2, hi)
    <3>1. t[lo + 1] \in Tokens
      BY <1>0, <2>2
    <3>2. t[lo + 1] = [type |-> "Colon"]
      BY <2>1, <3>1, PlainToken
    <3>3. lo \in 1..Len(t) /\ lo + 1 \in lo..Len(t) /\ hi \in (lo + 1)..Len(t)
      <4>1. Len(t) \in Nat /\ lo \in 1..Len(t) /\ lo + 2 <= hi /\ hi < Len(t)
        BY <1>0, <2>1, <2>2
      <4> HIDE DEF t
      <4> QED BY <4>1
    <3>4. SubSeq(t, lo, hi) = (SubSeq(t, lo, (lo + 1) - 1) \o <<t[lo + 1]>>) \o SubSeq(t, (lo + 1) + 1, hi)
      BY <1>0, <3>3, Around
    <3>5. (lo + 1) - 1 = lo /\ (lo + 1) + 1 = lo + 2
      OBVIOUS
    <3>6. SubSeq(t, lo, lo) = <<t[lo]>>
      BY <1>0, <2>1, OneElement
    <3> HIDE DEF t
    <3> QED BY <3>2, <3>4, <3>5, <3>6 DEF Tok
  <2>10. ItemTree(Forest[k], kind, item) = [key |-> Decoded(t[lo].value), value |-> TreeOver(Forest[k], v)]
    <3>1. ResolveKey(item.key) = Decoded(t[lo].value)
      BY <1>0, <2>1 DEF Names, ResolveKey
    <3> QED BY <1>2, <3>1 DEF ItemTree
  <2>11. [text |-> SubSeq(t, lo, hi), tree |-> ItemTree(Forest[k], kind, item), nesting |-> g] \in d.pairs[l]
    BY <2>7, <2>8, <2>9, <2>10
  <2>12. lo <= hi
    BY <2>2
  <2> QED
    BY <1>2, <2>1, <2>11, <2>12 DEF ItemsDerived, ValueOfItem, Derivable
<1> QED BY <1>1, <1>2

(* A text in brackets.                                                     *)
LEMMA Bracketed ==
  ASSUME NEW t \in Seq(Tokens), NEW lo \in Nat, NEW hi \in Nat, 1 <= lo, lo < hi, hi <= Len(t)
  PROVE  SubSeq(t, lo, hi) = (<<t[lo]>> \o SubSeq(t, lo + 1, hi - 1)) \o <<t[hi]>>
<1>0. Len(t) \in Nat
  BY LenProperties
<1>1. lo \in 1..Len(t) /\ hi \in lo..Len(t) /\ hi - 1 \in lo..Len(t)
  BY <1>0
<1>2. SubSeq(t, lo, hi) = SubSeq(t, lo, hi - 1) \o <<t[hi]>>
  BY <1>1, SubSeqRecursiveSecond
<1>3. SubSeq(t, lo, hi - 1) = <<t[lo]>> \o SubSeq(t, lo + 1, hi - 1)
  BY <1>1, FirstAndRest
<1> QED BY <1>2, <1>3

(* The marks of a stored container, with its text.                         *)
MarksOf(v, w) == IF v.type = "Array" THEN w.arrays[v.payload + 1] ELSE w.objects[v.payload + 1]

(* Where a stored container lies is where its marks are.                   *)
LEMMA ContainerSpan ==
  ASSUME TypeOK, NEW w \in Worlds, TablesLie(arrays, objects, w),
         NEW v \in NonScalars, NEW lo, NEW hi, Spans(v, lo, hi, w)
  PROVE  /\ SealedIn(v.type, Items(v), MarksOf(v, w), w)
         /\ MarksOf(v, w)[1] = lo /\ EndOf(MarksOf(v, w)) = hi
         /\ lo \in 1..Len(w.text) /\ hi \in lo..Len(w.text)
<1>1. v.type \in {"Array", "Object"}
  BY DEF NonScalars
<1>2. ~Denotes(w.text[lo], v, w)
  BY <1>1 DEF Denotes, Value
<1>3. /\ lo \in 1..Len(w.text) /\ hi \in lo..Len(w.text)
      /\ \/ /\ v.type = "Array" /\ v.payload + 1 \in 1..Len(w.arrays)
            /\ w.arrays[v.payload + 1][1] = lo /\ EndOf(w.arrays[v.payload + 1]) = hi
         \/ /\ v.type = "Object" /\ v.payload + 1 \in 1..Len(w.objects)
            /\ w.objects[v.payload + 1][1] = lo /\ EndOf(w.objects[v.payload + 1]) = hi
  BY <1>2 DEF Spans
<1> QED BY <1>3 DEF TablesLie, MarksOf, Items

(* The items of a stored container are separated in its text.              *)
LEMMA ItemsApart ==
  ASSUME NEW w \in Worlds, NEW kind \in {"Array", "Object"}, NEW items, NEW marks,
         Marked(kind, items, marks, w), Len(items) \in Nat \ {0}
  PROVE  Apart(w.text, marks, Len(items))
<1> DEFINE m == Len(items)
<1>0. Len(w.text) \in Nat
  BY WorldLens
<1>1. /\ marks \in Seq(Nat) /\ Len(marks) = m + 1
      /\ \A j \in 1..(m + 1) : marks[j] \in 1..Len(w.text)
      /\ \A j \in 1..m : ItemSpans(kind, items[j], marks[j] + 1, marks[j + 1] - 1, w)
  BY DEF Marked
<1>2. ASSUME NEW j \in 1..m PROVE marks[j] + 1 < marks[j + 1]
  <2> DEFINE a == marks[j]
             b == marks[j + 1]
  <2>1. j \in 1..(m + 1) /\ j + 1 \in 1..(m + 1)
    OBVIOUS
  <2>2. a \in 1..Len(w.text) /\ b \in 1..Len(w.text) /\ ItemSpans(kind, items[j], a + 1, b - 1, w)
    BY <1>1, <2>1
  <2> HIDE DEF a, b
  <2>3. a + 1 <= b - 1
    BY <1>0, <2>2 DEF ItemSpans, Spans
  <2>4. a + 1 < b
    BY <1>0, <2>2, <2>3
  <2> QED BY <2>4 DEF a, b
<1> QED BY <1>1, <1>2 DEF Apart

(* A stored container is derived from its text, if its items are.          *)
LEMMA ContainerDerives ==
  ASSUME NEW w, NEW ha, NEW ho, NEW tokens, NEW length, NEW d, Reading(w, ha, ho, tokens, length, d),
         NEW n \in Nat, ShorterDerive(n, w, ha, ho, d),
         NEW v \in NonScalars, Resolves(v),
         NEW lo \in Nat, NEW hi \in Nat, hi < Len(w.text), Spans(v, lo, hi, w), n = hi - lo + 1,
         NEW k \in Nat, n <= k, k <= Len(w.text)
  PROVE  Derives(v, lo, hi, k, w, ha, ho, d)
<1> DEFINE kind == v.type
           items == Items(v)
           m == Len(items)
           marks == MarksOf(v, w)
           open == Bracket.open[kind]
           close == Bracket.close[kind]
           lists == ListsDerived(kind, d)
           trees == [i \in 1..m |-> ItemTree(Forest[k - 1], kind, items[i])]
           h == Height(v, ha, ho)
<1>0. /\ Len(w.text) \in Nat /\ w.text \in Seq(Tokens) /\ w \in Worlds
      /\ \A i \in 1..Len(w.text) : w.text[i] \in Tokens
      /\ \A i \in 1..(Len(w.text) - 1) : w.text[i] \in tokens
      /\ length \in Nat /\ Len(w.text) - 1 <= length /\ Derived(tokens, d, length)
      /\ TypeOK /\ IndicesResolve /\ TablesLie(arrays, objects, w) /\ w.text = pulled
      /\ ha \in Seq(Nat) /\ ho \in Seq(Nat) /\ Stored(ha, ho)
  BY WorldLens DEF Reading, Worlds
<1>1. kind \in {"Array", "Object"} /\ v \in JsonValues \cup {NoRoot}
  BY DEF NonScalars, JsonValues
<1>2. /\ SealedIn(kind, items, marks, w) /\ marks[1] = lo /\ EndOf(marks) = hi
      /\ lo \in 1..Len(w.text) /\ hi \in lo..Len(w.text)
  BY <1>0, ContainerSpan
<1>3. /\ m \in Nat /\ DOMAIN items = 1..m /\ (m = 0 <=> items = <<>>)
      /\ \A i \in 1..m :
           /\ ItemValue(v, i) \in JsonValues /\ Resolves(ItemValue(v, i))
           /\ Height(ItemValue(v, i), ha, ho) < h
  BY <1>0, ItemFacts
<1>4. \A i \in 1..m : ItemValue(v, i) = ValueOfItem(kind, items[i])
  BY DEF ItemValue, ValueOfItem
<1>5. h \in Nat
  BY <1>0, <1>1, HeightType DEF Stored
<1>6. TreeOver(Forest[k], v) = Branch(kind, trees)
  <2>1. k \in 1..Len(pulled) /\ Len(pulled) \in Nat
    BY <1>0, <1>2
  <2>2. /\ DOMAIN arrays = 1..Len(arrays) /\ DOMAIN objects = 1..Len(objects)
        /\ Len(arrays) \in Nat /\ Len(objects) \in Nat
    BY <1>0, LenProperties DEF TypeOK
  <2>3. /\ kind = "Array" => v.payload + 1 \in DOMAIN arrays
        /\ kind = "Object" => v.payload + 1 \in DOMAIN objects
    BY <2>2 DEF Resolves, NonScalars
  <2>4. /\ kind = "Array" => items = arrays[v.payload + 1]
        /\ kind = "Object" => items = objects[v.payload + 1]
    BY DEF Items
  <2> DEFINE p == v.payload + 1
  <2>5. /\ kind = "Array" =>
             TreeOver(Forest[k], v) =
               Branch("Array", [i \in DOMAIN arrays[p] |-> ItemTree(Forest[k - 1], "Array", arrays[p][i])])
        /\ kind = "Object" =>
             TreeOver(Forest[k], v) =
               Branch("Object", [i \in DOMAIN objects[p] |-> ItemTree(Forest[k - 1], "Object", objects[p][i])])
    BY <2>1, <2>3, ContainerTree
  <2> HIDE DEF p, items, m
  <2>6. CASE kind = "Array"
    <3>1. DOMAIN arrays[p] = 1..m /\ items = arrays[p]
      BY <1>3, <2>4, <2>6 DEF p
    <3>2. [i \in DOMAIN arrays[p] |-> ItemTree(Forest[k - 1], "Array", arrays[p][i])] = trees
      BY <2>6, <3>1
    <3> QED BY <2>5, <2>6, <3>2
  <2>7. CASE kind = "Object"
    <3>1. DOMAIN objects[p] = 1..m /\ items = objects[p]
      BY <1>3, <2>4, <2>7 DEF p
    <3>2. [i \in DOMAIN objects[p] |-> ItemTree(Forest[k - 1], "Object", objects[p][i])] = trees
      BY <2>7, <3>1
    <3> QED BY <2>5, <2>7, <3>2
  <2> QED BY <1>1, <2>6, <2>7
<1>7. /\ Marked(kind, items, marks, w) /\ hi \in 1..Len(w.text) /\ w.text[hi].type = close
      /\ w.text[lo].type = open
  BY <1>2 DEF SealedIn, Marked
<1>8. lo < hi
  <2>1. open # close
    BY <1>1 DEF Bracket
  <2> HIDE DEF open, close, marks, items, kind
  <2>2. lo # hi
    BY <1>7, <2>1
  <2> QED BY <1>2, <2>2
<1>9. w.text[lo] = [type |-> open] /\ w.text[hi] = [type |-> close] /\ [type |-> open] \in tokens
  <2>1. w.text[lo] \in Tokens /\ w.text[hi] \in Tokens /\ w.text[lo] \in tokens
    BY <1>0, <1>2, <1>8
  <2>2. open \in {"LeftSquareBracket", "LeftCurlyBracket"} /\ close \in {"RightSquareBracket", "RightCurlyBracket"}
    BY <1>1 DEF Bracket
  <2> HIDE DEF open, close
  <2> QED BY <1>7, <2>1, <2>2, PlainToken
<1>10. SubSeq(w.text, lo, hi) = (Tok(open) \o SubSeq(w.text, lo + 1, hi - 1)) \o Tok(close)
  <2> HIDE DEF open, close, marks, items, kind
  <2>1. w.text \in Seq(Tokens) /\ 1 <= lo /\ hi <= Len(w.text)
    BY <1>0, <1>2
  <2>2. SubSeq(w.text, lo, hi) = (<<w.text[lo]>> \o SubSeq(w.text, lo + 1, hi - 1)) \o <<w.text[hi]>>
    BY <1>8, <2>1, Bracketed
  <2> QED BY <1>9, <2>2 DEF Tok
<1>11. /\ n \in 1..length /\ n # 1
       /\ Containers(tokens, kind, open, close, lists, n) \subseteq d.values[n]
  <2>1. n \in 1..length /\ n # 1
    BY <1>0, <1>2, <1>8
  <2>2. d.values[n] = Values(tokens, d.elements, d.members, n)
    BY <1>0, <2>1 DEF Derived
  <2> QED BY <1>1, <2>1, <2>2 DEF Values, Bracket, ListsDerived
<1> HIDE DEF open, close, lists, kind
<1>12. CASE m = 0
  <2>1. Len(marks) = 1
    BY <1>7, <1>12 DEF Marked
  <2>2. hi = lo + 1 /\ n = 2
    BY <1>2, <2>1 DEF EndOf
  <2>3. trees = <<>>
    BY <1>12
  <2>4. SubSeq(w.text, lo + 1, hi - 1) = <<>>
    <3>1. hi - 1 = lo
      BY <2>2
    <3> QED BY <1>0, <1>2, <2>2, <3>1, SubSeqEmpty
  <2>5. SubSeq(w.text, lo, hi) = Tok(open) \o Tok(close)
    <3>1. Tok(open) \in Seq({[type |-> open]})
      BY ElementOfSeq DEF Tok
    <3>2. Tok(open) \o <<>> = Tok(open)
      BY <3>1, ConcatEmptySeq
    <3> QED BY <1>10, <2>4, <3>2
  <2>6. [text |-> Tok(open) \o Tok(close), tree |-> Branch(kind, <<>>), nesting |-> 0] \in d.values[n]
    BY <1>9, <1>11, <2>2, BracketsDerive
  <2>7. [text |-> SubSeq(w.text, lo, hi), tree |-> TreeOver(Forest[k], v), nesting |-> 0] \in d.values[n]
    BY <1>6, <2>3, <2>5, <2>6
  <2>8. 0 \in 0..h /\ n = hi - lo + 1
    BY <1>5
  <2> QED BY <2>7, <2>8 DEF Derives, Derivable
<1>13. CASE m # 0
  <2> DEFINE b == h - 1
             derived == ItemsDerived(kind, d)
  <2>1. Apart(w.text, marks, m) /\ m \in Nat \ {0}
    BY <1>0, <1>1, <1>3, <1>7, <1>13, ItemsApart DEF kind
  <2>2. /\ marks[m + 1] = hi
        /\ \A j \in 1..(m + 1) : marks[j] \in Nat /\ lo <= marks[j]
        /\ \A j \in 1..m : marks[j] + 1 < hi
    <3>1. Len(marks) = m + 1
      BY <2>1 DEF Apart
    <3>2. marks[m + 1] = hi
      BY <1>2, <1>3, <1>13, <3>1 DEF EndOf
    <3> QED BY <1>0, <1>2, <2>1, <3>2, MarksOrder
  <2>3. b \in Nat /\ \A i \in 1..m : 0..Height(ItemValue(v, i), ha, ho) \subseteq 0..b
    <3>1. \A i \in 1..m : Height(ItemValue(v, i), ha, ho) \in Nat
      <4>1. \A i \in 1..m : ItemValue(v, i) \in JsonValues \cup {NoRoot} /\ Resolves(ItemValue(v, i))
        BY <1>3
      <4> QED BY <1>0, <4>1, HeightType DEF Stored
    <3>2. 1 \in 1..m
      BY <2>1
    <3> HIDE DEF h
    <3>3. b \in Nat
      BY <1>3, <1>5, <3>1, <3>2
    <3> QED BY <1>3, <1>5, <3>1, <3>3
  <2>4. ASSUME NEW j \in 1..m
        PROVE  Derivable(w.text, marks[j] + 1, marks[j + 1] - 1, trees[j], b,
                         derived[marks[j + 1] - marks[j] - 1])
    <3> DEFINE x == marks[j] + 1
               y == marks[j + 1] - 1
               item == items[j]
    <3>1. /\ j \in 1..(m + 1) /\ j + 1 \in 1..(m + 1)
          /\ marks[j] + 1 < marks[j + 1] /\ marks[j] \in Nat /\ marks[j + 1] \in Nat
          /\ lo <= marks[j] /\ marks[j + 1] <= hi
      <4>1. j \in 1..(m + 1) /\ j + 1 \in 1..(m + 1) /\ (j + 1 \in 1..m \/ j + 1 = m + 1)
        BY <1>3
      <4>2. marks[j] + 1 < marks[j + 1]
        BY <2>1 DEF Apart
      <4>3. marks[j + 1] \in Nat /\ (j + 1 \in 1..m => marks[j + 1] + 1 < hi)
        BY <2>2, <4>1
      <4>4. marks[j + 1] <= hi
        BY <2>2, <4>1, <4>3
      <4> QED BY <2>2, <4>1, <4>2, <4>3, <4>4
    <3>2. ItemSpans(kind, item, x, y, w)
      BY <1>7 DEF Marked
    <3>3. /\ x \in Nat /\ y \in Nat /\ y < Len(w.text) /\ y - x + 1 < n
          /\ y - x + 1 <= k - 1 /\ k - 1 \in Nat /\ k - 1 <= Len(w.text)
          /\ y - x + 1 = marks[j + 1] - marks[j] - 1
      <4> DEFINE p == marks[j]
                 q == marks[j + 1]
      <4>1. p \in Nat /\ q \in Nat /\ p + 1 < q /\ lo <= p /\ q <= hi
        BY <3>1
      <4> HIDE DEF p, q
      <4>2. /\ p + 1 \in Nat /\ q - 1 \in Nat /\ q - 1 < Len(w.text) /\ q - 1 - (p + 1) + 1 < n
            /\ q - 1 - (p + 1) + 1 <= k - 1 /\ k - 1 \in Nat /\ k - 1 <= Len(w.text)
            /\ q - 1 - (p + 1) + 1 = q - p - 1
        BY <1>0, <4>1
      <4> QED BY <4>2 DEF p, q
    <3>4. ValueOfItem(kind, item) \in JsonValues /\ Resolves(ValueOfItem(kind, item))
          /\ ValueOfItem(kind, item) = ItemValue(v, j)
      BY <1>3, <1>4
    <3> HIDE DEF x, y, item
    <3>5. Derivable(w.text, x, y, ItemTree(Forest[k - 1], kind, item),
                    Height(ValueOfItem(kind, item), ha, ho), derived[y - x + 1])
      <4> HIDE DEF items, marks, trees, m
      <4> QED BY <1>1, <3>2, <3>3, <3>4, ItemDerives
    <3>6. PICK g \in 0..Height(ValueOfItem(kind, item), ha, ho) :
            [text |-> SubSeq(w.text, x, y), tree |-> ItemTree(Forest[k - 1], kind, item), nesting |-> g]
              \in derived[y - x + 1]
      BY <3>5 DEF Derivable
    <3>7. g \in 0..b
      BY <2>3, <3>4
    <3>8. trees[j] = ItemTree(Forest[k - 1], kind, item)
      BY DEF item
    <3>9. y - x + 1 = marks[j + 1] - marks[j] - 1
      BY <3>3
    <3> HIDE DEF trees, derived, b, marks
    <3> QED BY <3>6, <3>7, <3>8, <3>9 DEF x, y, Derivable
  <2>5. \A j \in 2..m : w.text[marks[j]] = [type |-> "Comma"]
    <3> TAKE j \in 2..m
    <3>1. j \in 1..(m + 1)
      BY <2>1
    <3>2. w.text[marks[j]] \in Tokens
      BY <1>0, <2>1, <3>1 DEF Apart
    <3>3. w.text[marks[j]].type = "Comma"
      BY <1>7 DEF Marked
    <3> QED BY <3>2, <3>3, PlainToken
  <2>6. Parts(w.text, marks, m, trees, derived, b)
    <3> HIDE DEF trees, derived, b, marks, m
    <3> QED BY <2>1, <2>4, <2>5 DEF Parts
  <2>7. ListsUpTo(lists, derived, length)
    BY <1>0, <1>1 DEF ListsUpTo, Derived, ItemsDerived, ListsDerived, lists
  <2> DEFINE T == {ItemTree(Forest[k - 1], kind, items[i]) : i \in 1..m}
  <2>8. trees \in Seq(T) /\ Len(trees) = m
    <3>1. trees \in [1..m -> T]
      OBVIOUS
    <3> HIDE DEF trees, T
    <3> QED BY <1>3, <3>1, IsASeq, LenProperties
  <2>9. hi - lo - 1 = n - 2 /\ n - 2 <= length
    BY <1>0, <1>2
  <2>10. Derivable(w.text, lo + 1, hi - 1, trees, b, lists[n - 2])
    <3> HIDE DEF trees, T, derived, b, marks, m
    <3>1. marks[m + 1] - marks[1] - 1 = n - 2
      BY <1>2, <2>2, <2>9
    <3>2. Derivable(w.text, marks[1] + 1, marks[m + 1] - 1, trees, b, lists[marks[m + 1] - marks[1] - 1])
      <4>1. /\ w.text \in Seq(Tokens) /\ length \in Nat /\ m \in Nat \ {0} /\ b \in Nat
            /\ marks[m + 1] - marks[1] - 1 <= length
        BY <1>0, <2>1, <2>3, <2>9, <3>1
      <4> QED BY <2>6, <2>7, <2>8, <4>1, ListDerives
    <3> QED BY <1>2, <2>2, <3>1, <3>2
  <2>11. PICK g \in 0..b : [text |-> SubSeq(w.text, lo + 1, hi - 1), tree |-> trees, nesting |-> g] \in lists[n - 2]
    BY <2>10 DEF Derivable
  <2>12. n # 2
    <3>1. 1 \in 1..m
      BY <2>1
    <3> QED BY <1>2, <2>2, <3>1
  <2>13. [text |-> (Tok(open) \o SubSeq(w.text, lo + 1, hi - 1)) \o Tok(close),
          tree |-> Branch(kind, trees), nesting |-> g + 1] \in d.values[n]
    <3> DEFINE l == [text |-> SubSeq(w.text, lo + 1, hi - 1), tree |-> trees, nesting |-> g]
    <3>1. [text |-> (Tok(open) \o l.text) \o Tok(close), tree |-> Branch(kind, l.tree),
           nesting |-> l.nesting + 1] \in d.values[n]
      <4> HIDE DEF l
      <4>1. l \in lists[n - 2]
        BY <2>11 DEF l
      <4> QED BY <1>9, <1>11, <2>12, <4>1, BracketsDerive
    <3> QED BY <3>1
  <2>14. g + 1 \in 0..h
    BY <1>5, <2>3
  <2>15. [text |-> SubSeq(w.text, lo, hi), tree |-> TreeOver(Forest[k], v), nesting |-> g + 1] \in d.values[n]
    BY <1>6, <1>10, <2>13
  <2> QED BY <2>14, <2>15 DEF Derives, Derivable
<1> QED BY <1>3, <1>12, <1>13

(* Whatever lies in the text is derived from its tokens, by induction on   *)
(* how many they are.                                                      *)
LEMMA LongerDerive ==
  ASSUME NEW w, NEW ha, NEW ho, NEW tokens, NEW length, NEW d, Reading(w, ha, ho, tokens, length, d),
         NEW n \in Nat, ShorterDerive(n, w, ha, ho, d)
  PROVE  ShorterDerive(n + 1, w, ha, ho, d)
<1> SUFFICES ASSUME NEW v \in JsonValues, NEW lo \in Nat, NEW hi \in Nat, NEW k \in Nat,
                    Resolves(v), Spans(v, lo, hi, w), hi < Len(w.text), hi - lo + 1 < n + 1,
                    hi - lo + 1 <= k, k <= Len(w.text)
             PROVE  Derives(v, lo, hi, k, w, ha, ho, d)
  BY DEF ShorterDerive
<1>0. /\ Len(w.text) \in Nat /\ w.text \in Seq(Tokens) /\ w.strings = strings /\ IntegersFit
      /\ \A i \in 1..Len(w.text) : w.text[i] \in Tokens
      /\ \A i \in 1..(Len(w.text) - 1) : w.text[i] \in tokens
      /\ length \in Nat /\ Len(w.text) - 1 <= length /\ Derived(tokens, d, length)
      /\ TypeOK /\ ha \in Seq(Nat) /\ ho \in Seq(Nat) /\ Stored(ha, ho)
  BY WorldLens DEF Reading, Worlds
<1>1. lo \in 1..Len(w.text) /\ hi \in lo..Len(w.text)
  BY DEF Spans
<1>2. CASE hi - lo + 1 < n
  BY <1>2 DEF ShorterDerive
<1>3. CASE hi - lo + 1 = n /\ lo = hi /\ Denotes(w.text[lo], v, w)
  <2> DEFINE t == w.text[lo]
             h == Height(v, ha, ho)
  <2>1. lo \in 1..(Len(w.text) - 1) /\ t \in tokens /\ t \in Tokens
    BY <1>0, <1>1, <1>3
  <2>2. [text |-> <<t>>, tree |-> TreeOver(Forest[k], v), nesting |-> 0] \in Scalars(tokens)
    BY <1>0, <1>3, <2>1, ScalarDerives
  <2>3. d.values[1] = Scalars(tokens)
    <3>1. 1 \in 1..length
      BY <1>0, <2>1
    <3> QED BY <1>0, <3>1 DEF Derived, Values
  <2>4. SubSeq(w.text, lo, hi) = <<t>>
    BY <1>0, <1>1, <1>3, OneElement
  <2>5. 0 \in 0..h
    BY <1>0, HeightType DEF Stored
  <2>6. hi - lo + 1 = 1
    BY <1>3
  <2> HIDE DEF t, h
  <2>7. Derivable(w.text, lo, hi, TreeOver(Forest[k], v), h, d.values[hi - lo + 1])
    BY <2>2, <2>3, <2>4, <2>5, <2>6 DEF Derivable
  <2> QED BY <2>7 DEF Derives, h
<1>4. CASE hi - lo + 1 = n /\ v.type \in {"Array", "Object"}
  <2>1. v \in NonScalars
    BY <1>4 DEF NonScalars, JsonValues
  <2> QED BY <1>4, <2>1, ContainerDerives
<1>5. hi - lo + 1 < n \/ hi - lo + 1 = n
  OBVIOUS
<1>6. (lo = hi /\ Denotes(w.text[lo], v, w)) \/ v.type \in {"Array", "Object"}
  BY DEF Spans
<1> QED BY <1>2, <1>3, <1>4, <1>5, <1>6

(* So all that lies in the text is derived from its tokens.                *)
LEMMA AllDerive ==
  ASSUME NEW w, NEW ha, NEW ho, NEW tokens, NEW length, NEW d, Reading(w, ha, ho, tokens, length, d),
         NEW m \in Nat
  PROVE  ShorterDerive(m, w, ha, ho, d)
<1> DEFINE S == {n \in 0..m : ShorterDerive(n, w, ha, ho, d)}
<1>1. 0 \in S
  <2>1. ShorterDerive(0, w, ha, ho, d)
    <3>0. Len(w.text) \in Nat
      BY WorldLens DEF Reading
    <3> SUFFICES ASSUME NEW v, NEW lo \in Nat, NEW hi \in Nat, Spans(v, lo, hi, w), hi - lo + 1 < 0
                 PROVE  FALSE
      BY DEF ShorterDerive
    <3>1. lo <= hi
      BY <3>0 DEF Spans
    <3> QED BY <3>1
  <2> QED BY <2>1
<1>2. ASSUME NEW n \in 0..m, n \in S, n < m PROVE n + 1 \in S
  <2>1. n \in Nat /\ n + 1 \in 0..m /\ ShorterDerive(n, w, ha, ho, d)
    BY <1>2
  <2>2. ShorterDerive(n + 1, w, ha, ho, d)
    BY <2>1, LongerDerive
  <2> QED BY <2>1, <2>2
<1>3. m \in S
  <2> HIDE DEF S
  <2> QED BY <1>1, <1>2, UpTo
<1> QED BY <1>3

(* An accepted document is derived from its tokens.                        *)
LEMMA DocumentDerived ==
  ASSUME TypeOK, IndicesResolve, TextsLie, HeightsBounded, IntegersFit,
         pc = "done", ~has_error, InSamples
  PROVE  [text |-> pulled, tree |-> Tree(root)] \in Documents
<1>1. PICK sa, so, ms \in Seq(Seq(Nat)) : Lies(sa, so, ms)
  BY DEF TextsLie
<1>2. PICK ha, ho \in Seq(Nat) : Stored(ha, ho) /\ Height(root, ha, ho) <= MaxDepth
  BY DEF HeightsBounded, Fits, Delivered
<1>3. PICK c : c = Len(pulled)
  OBVIOUS
<1>4. PICK w : w = World(sa, so)
  OBVIOUS
<1>5. /\ w \in Worlds /\ w.text = pulled /\ w.strings = strings
      /\ TablesLie(arrays, objects, w)
      /\ Spans(root, 1, c - 1, w) /\ pulled[c].type = "EndOfFile"
  <2>1. w \in Worlds /\ w.text = pulled /\ w.strings = strings
    BY <1>4 DEF World, Worlds, TypeOK
  <2>2. TablesLie(arrays, objects, w) /\ Progress(pc, ret, root, OpenNow, ms, w)
    BY <1>1, <1>4 DEF Lies
  <2> QED BY <1>3, <2>1, <2>2 DEF Progress
<1>6. c \in Nat \ {0} /\ pulled \in Seq(Tokens) /\ Is("EndOfFile") /\ pulled[c] = [type |-> "EndOfFile"]
  <2>1. c \in Nat \ {0} /\ pulled \in Seq(Tokens) /\ Current = pulled[c]
    BY <1>3, LastFront, LenProperties, EmptySeq DEF TypeOK, Current
  <2>2. pulled[c] \in Tokens
    BY <1>3, <2>1, ElementOfSeq
  <2> QED BY <1>5, <2>1, <2>2, PlainToken DEF Is
<1>7. PICK s \in Samples : Len(Front(pulled)) <= s.length /\ ToSet(Front(pulled)) \subseteq s.tokens
  BY <1>6 DEF InSamples
<1>8. PICK tokens, length : tokens = s.tokens /\ length = s.length
  OBVIOUS
<1>9. length \in Nat \ {0}
  BY <1>8, SamplesAssumption DEF BoundsAssumption
<1>10. PICK d : d = Derivations(tokens, length)
  OBVIOUS
<1>11. c - 1 <= length /\ \A i \in 1..(c - 1) : pulled[i] \in tokens
  <2>1. /\ Front(pulled) \in Seq(Tokens) /\ Len(Front(pulled)) = c - 1
        /\ \A i \in 1..(c - 1) : Front(pulled)[i] = pulled[i]
    BY <1>3, <1>6, LastFront, EmptySeq
  <2>2. DOMAIN Front(pulled) = 1..(c - 1)
    BY <2>1, LenProperties
  <2>3. \A i \in 1..(c - 1) : Front(pulled)[i] \in ToSet(Front(pulled))
    BY <2>2 DEF ToSet
  <2> QED BY <1>7, <1>8, <2>1, <2>3
<1>12. Derived(tokens, d, length) /\ DOMAIN d.values = 1..length
  BY <1>9, <1>10, DerivationsDerived
<1>13. Reading(w, ha, ho, tokens, length, d)
  BY <1>2, <1>3, <1>5, <1>9, <1>11, <1>12 DEF Reading
<1>14. root \in JsonValues /\ Resolves(root)
  <2>1. root # NoRoot
    BY <1>5 DEF Spans, Denotes, Value, NoRoot
  <2> QED BY <2>1 DEF TypeOK, IndicesResolve
<1>15. 1 \in Nat /\ c - 1 \in Nat /\ 1 <= c - 1 /\ (c - 1) - 1 + 1 = c - 1
  <2>1. c - 1 \in 1..Len(w.text)
    BY <1>5 DEF Spans
  <2> QED BY <1>6, <2>1
<1>16. Derives(root, 1, c - 1, c, w, ha, ho, d)
  <2>1. c \in Nat /\ Len(w.text) = c /\ c - 1 < c /\ (c - 1) - 1 + 1 < c /\ (c - 1) - 1 + 1 <= c /\ c <= c
    BY <1>3, <1>5, <1>6
  <2>2. ShorterDerive(c, w, ha, ho, d)
    BY <1>13, <2>1, AllDerive
  <2> QED BY <1>5, <1>14, <1>15, <2>1, <2>2 DEF ShorterDerive
<1>17. PICK g \in 0..Height(root, ha, ho) :
         [text |-> SubSeq(pulled, 1, c - 1), tree |-> Tree(root), nesting |-> g] \in d.values[c - 1]
  <2>1. Derivable(pulled, 1, c - 1, TreeOver(Forest[c], root), Height(root, ha, ho), d.values[c - 1])
    BY <1>5, <1>15, <1>16 DEF Derives
  <2>2. Tree(root) = TreeOver(Forest[c], root)
    BY <1>3 DEF Tree
  <2> QED BY <2>1, <2>2 DEF Derivable
<1> DEFINE u == [text |-> SubSeq(pulled, 1, c - 1), tree |-> Tree(root), nesting |-> g]
<1>18. u.text = SubSeq(pulled, 1, c - 1) /\ u.tree = Tree(root) /\ u.nesting = g /\ u \in d.values[c - 1]
  BY <1>17
<1> HIDE DEF u
<1>19. u.nesting <= MaxDepth
  <2>1. Height(root, ha, ho) \in Nat
    BY <1>2, <1>14, HeightType DEF Stored
  <2> QED BY <1>2, <1>17, <1>18, <2>1, BoundsAssumption
<1>20. u \in UNION ToSet(Derivations(s.tokens, s.length).values)
  <2>1. c - 1 \in DOMAIN d.values
    BY <1>11, <1>12, <1>15
  <2>2. d.values[c - 1] \in ToSet(d.values)
    BY <2>1 DEF ToSet
  <2> QED BY <1>8, <1>10, <1>18, <2>2
<1>21. u.text \o Tok("EndOfFile") = pulled
  <2>1. c \in 1..Len(pulled) /\ 1 \in 1..Len(pulled) /\ c \in 1..c
    BY <1>3, <1>6
  <2>2. SubSeq(pulled, 1, c) = SubSeq(pulled, 1, c - 1) \o <<pulled[c]>>
    BY <1>6, <2>1, SubSeqRecursiveSecond
  <2>3. SubSeq(pulled, 1, c) = pulled
    BY <1>3, <1>6, SubSeqFull
  <2> QED BY <1>6, <1>18, <2>2, <2>3 DEF Tok
<1>22. [text |-> u.text \o Tok("EndOfFile"), tree |-> u.tree] \in
         {[text |-> v.text \o Tok("EndOfFile"), tree |-> v.tree] :
            v \in {x \in UNION ToSet(Derivations(s.tokens, s.length).values) : x.nesting <= MaxDepth}}
  BY <1>19, <1>20
<1>23. [text |-> u.text \o Tok("EndOfFile"), tree |-> u.tree] \in Documents
  BY <1>22 DEF Documents
<1> QED BY <1>18, <1>21, <1>23

(* A document the parser accepts, whatever the tokens and however long and *)
(* deep, is one the grammar derives, and what is read back from the        *)
(* storage tables is its tree, when the integers fit in 48 bits.           *)
THEOREM AcceptedDerived ==
  ASSUME IntegersFit
  PROVE  Spec => []AcceptedIsDerived
<1>1. TypeOK /\ IndicesResolve /\ TextsLie /\ HeightsBounded => AcceptedIsDerived
  BY DocumentDerived DEF AcceptedIsDerived
<1> QED
  BY <1>1, StructureSafe, IndicesSafe, TextsLieSafe, DocumentsBounded, PTL

-----------------------------------------------------------------------------
(***************************************************************************)
(* What the grammar derives the parser accepts: a text of the grammar,     *)
(* read from the left, says at every place of the parser what comes next.  *)
(***************************************************************************)

(* The tokens that derive a value by themselves.                           *)
ReadScalar(t) ==
  \/ t.type \in {"Null", "Boolean", "Integer"}
  \/ t.type = "Double" /\ t.value \notin OutOfRange
  \/ t.type = "String" /\ Decoded(t.value) # Malformed

(* The text and the nesting of x, from those of its parts.                 *)
Alone(x, v) == x.text = v.text /\ x.nesting = v.nesting
Empty(x, open, close) == x.text = Tok(open) \o Tok(close) /\ x.nesting = 0
Framed(x, open, l, close) ==
  x.text = Tok(open) \o l.text \o Tok(close) /\ x.nesting = l.nesting + 1
Paired(x, k, v) == x.text = <<k>> \o Tok("Colon") \o v.text /\ x.nesting = v.nesting
Chained(x, v, l) ==
  /\ x.text = v.text \o Tok("Comma") \o l.text
  /\ x.nesting = MaxOf(v.nesting, l.nesting)

(* What a scalar is made of.                                               *)
LEMMA ScalarShape ==
  ASSUME NEW tokens, tokens \subseteq Tokens, NEW x \in Scalars(tokens)
  PROVE  \E t \in tokens : x.text = <<t>> /\ x.nesting = 0 /\ ReadScalar(t)
<1>1. CASE x \in {[text |-> <<t>>, tree |-> Leaf("Null", 0), nesting |-> 0] :
                    t \in {u \in tokens : u.type = "Null"}}
  BY <1>1 DEF ReadScalar
<1>2. CASE x \in {[text |-> <<t>>, tree |-> Leaf(t.type, t.value), nesting |-> 0] :
                    t \in {u \in tokens : \/ u.type \in {"Boolean", "Integer"}
                                          \/ u.type = "Double" /\ u.value \notin OutOfRange}}
  BY <1>2 DEF ReadScalar
<1>3. CASE x \in {[text |-> <<t>>, tree |-> Leaf("String", Decoded(t.value)), nesting |-> 0] :
                    t \in {u \in tokens : u.type = "String" /\ WellFormed(u)}}
  BY <1>3 DEF ReadScalar, WellFormed
<1> QED BY <1>1, <1>2, <1>3 DEF Scalars

(* What a container is made of.                                            *)
LEMMA ContainerShape ==
  ASSUME NEW tokens, NEW type, NEW open, NEW close, NEW lists, NEW n \in Nat, n > 1,
         NEW x \in Containers(tokens, type, open, close, lists, n)
  PROVE  \/ n = 2 /\ Empty(x, open, close)
         \/ n > 2 /\ \E l \in lists[n - 2] : Framed(x, open, l, close)
<1>1. [type |-> open] \in tokens
  BY DEF Containers
<1>2. CASE n = 2
  <2>1. x \in {[text |-> Tok(open) \o Tok(close), tree |-> Branch(type, <<>>), nesting |-> 0]}
    BY <1>1, <1>2 DEF Containers
  <2> QED BY <1>2, <2>1 DEF Empty
<1>3. CASE n # 2
  <2>1. PICK shorter : shorter = lists[n - 2]
    OBVIOUS
  <2>2. x \in {[text |-> Tok(open) \o l.text \o Tok(close),
                tree |-> Branch(type, l.tree), nesting |-> l.nesting + 1] : l \in shorter}
    BY <1>1, <1>3, <2>1 DEF Containers
  <2>3. PICK l \in shorter :
          x = [text |-> Tok(open) \o l.text \o Tok(close),
               tree |-> Branch(type, l.tree), nesting |-> l.nesting + 1]
    BY <2>2
  <2>4. Framed(x, open, l, close)
    BY <2>3 DEF Framed
  <2>5. n > 2 /\ \E y \in shorter : Framed(x, open, y, close)
    BY <1>3, <2>3, <2>4
  <2> QED BY <2>1, <2>5
<1> QED BY <1>2, <1>3

(* What a member is made of.                                               *)
LEMMA PairShape ==
  ASSUME NEW tokens, NEW values, NEW n \in Nat, NEW x \in Pairs(tokens, values, n)
  PROVE  /\ n > 2
         /\ \E k \in tokens, v \in values[n - 2] :
              k.type = "String" /\ Decoded(k.value) # Malformed /\ Paired(x, k, v)
<1>1. n > 2 /\ x \in {Pair(k, v) : k \in MemberHeads(tokens), v \in values[n - 2]}
  BY DEF Pairs
<1>2. PICK k \in MemberHeads(tokens), v \in values[n - 2] : x = Pair(k, v)
  BY <1>1
<1>3. k \in tokens /\ k.type = "String" /\ Decoded(k.value) # Malformed
  BY DEF MemberHeads, WellFormed
<1>4. Paired(x, k, v)
  BY <1>2 DEF Pair, Paired
<1> QED BY <1>1, <1>2, <1>3, <1>4

(* What a list is made of.                                                 *)
LEMMA ListShape ==
  ASSUME NEW items, NEW lists, NEW n \in Nat \ {0}, NEW x \in Lists(items, lists, n)
  PROVE  \/ \E v \in items[n] : Alone(x, v)
         \/ \E i \in 1..(n - 2) : \E v \in items[i], l \in lists[n - 1 - i] : Chained(x, v, l)
<1>1. CASE x \in Singles(items[n])
  <2>1. PICK v \in items[n] : x = [text |-> v.text, tree |-> <<v.tree>>, nesting |-> v.nesting]
    BY <1>1 DEF Singles
  <2>2. Alone(x, v)
    BY <2>1 DEF Alone
  <2> QED BY <2>1, <2>2
<1>2. CASE x \in UNION {Joins(items[i], lists[n - 1 - i]) : i \in 1..(n - 2)}
  <2>1. PICK i \in 1..(n - 2) : x \in Joins(items[i], lists[n - 1 - i])
    BY <1>2
  <2>2. PICK v \in items[i], l \in lists[n - 1 - i] : x = Joined(v, l)
    BY <2>1 DEF Joins
  <2>3. Chained(x, v, l)
    BY <2>2 DEF Joined, Chained
  <2> QED BY <2>2, <2>3
<1> QED BY <1>1, <1>2 DEF Lists

-----------------------------------------------------------------------------
(* The tokens a document is made of.                                      *)
Readable == {t \in Tokens : t.type # "Unknown"}

(* A derivation of n tokens, none of them the lexer's error.               *)
Sized(x, n) == x.text \in Seq(Readable) /\ Len(x.text) = n /\ x.nesting \in Nat

AllSized(X, n) == \A x \in X[n] : Sized(x, n)

SizedAt(d, n) ==
  AllSized(d.values, n) /\ AllSized(d.pairs, n) /\ AllSized(d.elements, n) /\ AllSized(d.members, n)

(* The lengths of texts put together.                                      *)
LEMMA ReadableConcat ==
  ASSUME NEW a \in Seq(Readable), NEW b \in Seq(Readable)
  PROVE  /\ a \o b \in Seq(Readable) /\ Len(a \o b) = Len(a) + Len(b)
         /\ Len(a) \in Nat /\ Len(b) \in Nat
BY ConcatProperties, LenProperties

(* A token without content, alone.                                         *)
LEMMA TokSized ==
  ASSUME NEW type \in {"LeftCurlyBracket", "RightCurlyBracket", "LeftSquareBracket",
                       "RightSquareBracket", "Comma", "Colon", "EndOfFile"}
  PROVE  Tok(type) \in Seq(Readable) /\ Len(Tok(type)) = 1 /\ Tok(type)[1].type = type
<1>1. [type |-> type] \in Readable
  BY DEF Readable, Tokens
<1> QED BY <1>1, ElementOfSeq DEF Tok

(* A scalar is one token.                                                  *)
LEMMA ScalarSized ==
  ASSUME NEW tokens, tokens \subseteq Tokens, NEW x \in Scalars(tokens)
  PROVE  Sized(x, 1)
<1>1. PICK t \in tokens : x.text = <<t>> /\ x.nesting = 0 /\ ReadScalar(t)
  BY ScalarShape
<1>2. t \in Readable
  BY <1>1 DEF Readable, ReadScalar
<1> QED BY <1>1, <1>2 DEF Sized

(* A container is two tokens longer than its list.                         *)
LEMMA ContainerSized ==
  ASSUME NEW tokens, NEW type, NEW kind \in Kinds, NEW lists, NEW n \in Nat, n > 1,
         n > 2 => AllSized(lists, n - 2),
         NEW x \in Containers(tokens, type, Bracket.open[kind], Bracket.close[kind], lists, n)
  PROVE  Sized(x, n)
<1>0. PICK open, close : open = Bracket.open[kind] /\ close = Bracket.close[kind]
  OBVIOUS
<1>1. /\ Tok(open) \in Seq(Readable) /\ Len(Tok(open)) = 1
      /\ Tok(close) \in Seq(Readable) /\ Len(Tok(close)) = 1
  <2>1. /\ open \in {"LeftCurlyBracket", "LeftSquareBracket"}
        /\ close \in {"RightCurlyBracket", "RightSquareBracket"}
    BY <1>0 DEF Kinds, Bracket
  <2> QED BY <2>1, TokSized
<1>2. CASE n = 2 /\ Empty(x, open, close)
  <2>1. Tok(open) \o Tok(close) \in Seq(Readable) /\ Len(Tok(open) \o Tok(close)) = 1 + 1
    BY <1>1, ReadableConcat
  <2> QED BY <1>2, <2>1 DEF Sized, Empty
<1>3. CASE n > 2 /\ \E l \in lists[n - 2] : Framed(x, open, l, close)
  <2>1. PICK l \in lists[n - 2] : Framed(x, open, l, close)
    BY <1>3
  <2>2. Sized(l, n - 2)
    BY <1>3, <2>1 DEF AllSized
  <2>3. PICK t : t = l.text
    OBVIOUS
  <2>4. t \in Seq(Readable) /\ Len(t) = n - 2 /\ l.nesting \in Nat
    BY <2>2, <2>3 DEF Sized
  <2>5. Tok(open) \o t \in Seq(Readable) /\ Len(Tok(open) \o t) = 1 + (n - 2)
    BY <1>1, <2>4, ReadableConcat
  <2>6. /\ (Tok(open) \o t) \o Tok(close) \in Seq(Readable)
        /\ Len((Tok(open) \o t) \o Tok(close)) = 1 + (n - 2) + 1
    BY <1>1, <2>5, ReadableConcat
  <2>7. x.text = (Tok(open) \o t) \o Tok(close) /\ x.nesting \in Nat
    BY <2>1, <2>3, <2>4 DEF Framed
  <2>8. 1 + (n - 2) + 1 = n
    OBVIOUS
  <2> QED BY <2>6, <2>7, <2>8 DEF Sized
<1> QED BY <1>0, <1>2, <1>3, ContainerShape

(* A member is two tokens longer than its value.                           *)
LEMMA PairSized ==
  ASSUME NEW tokens, tokens \subseteq Tokens, NEW values, NEW n \in Nat,
         n > 2 => AllSized(values, n - 2), NEW x \in Pairs(tokens, values, n)
  PROVE  Sized(x, n)
<1>1. n > 2 /\ \E k \in tokens, v \in values[n - 2] :
              k.type = "String" /\ Decoded(k.value) # Malformed /\ Paired(x, k, v)
  BY PairShape
<1>2. PICK k \in tokens, v \in values[n - 2] : k.type = "String" /\ Paired(x, k, v)
  BY <1>1
<1>3. Sized(v, n - 2)
  BY <1>1, <1>2 DEF AllSized
<1>4. PICK t : t = v.text
  OBVIOUS
<1>5. t \in Seq(Readable) /\ Len(t) = n - 2 /\ v.nesting \in Nat
  BY <1>3, <1>4 DEF Sized
<1>6. PICK q : q = <<k>>
  OBVIOUS
<1>7. q \in Seq(Readable) /\ Len(q) = 1
  BY <1>2, <1>6 DEF Readable
<1>8. q \o Tok("Colon") \in Seq(Readable) /\ Len(q \o Tok("Colon")) = 1 + 1
  BY <1>7, TokSized, ReadableConcat
<1>9. /\ (q \o Tok("Colon")) \o t \in Seq(Readable)
      /\ Len((q \o Tok("Colon")) \o t) = 1 + 1 + (n - 2)
  BY <1>5, <1>8, ReadableConcat
<1>10. x.text = (q \o Tok("Colon")) \o t /\ x.nesting \in Nat
  BY <1>2, <1>4, <1>5, <1>6 DEF Paired
<1>11. 1 + 1 + (n - 2) = n
  OBVIOUS
<1> QED BY <1>9, <1>10, <1>11 DEF Sized

(* A list is as long as its items and their commas.                        *)
LEMMA ListSized ==
  ASSUME NEW items, NEW lists, NEW n \in Nat \ {0}, \A i \in 1..n : AllSized(items, i),
         \A i \in 1..(n - 1) : AllSized(lists, i), NEW x \in Lists(items, lists, n)
  PROVE  Sized(x, n)
<1>1. CASE \E v \in items[n] : Alone(x, v)
  BY <1>1 DEF AllSized, Sized, Alone
<1>2. CASE \E i \in 1..(n - 2) : \E v \in items[i], l \in lists[n - 1 - i] : Chained(x, v, l)
  <2>1. PICK i \in 1..(n - 2) : \E v \in items[i], l \in lists[n - 1 - i] : Chained(x, v, l)
    BY <1>2
  <2>2. PICK v \in items[i], l \in lists[n - 1 - i] : Chained(x, v, l)
    BY <2>1
  <2>3. i \in 1..n /\ n - 1 - i \in 1..(n - 1) /\ i + 1 + (n - 1 - i) = n
    OBVIOUS
  <2>4. Sized(v, i) /\ Sized(l, n - 1 - i)
    BY <2>2, <2>3 DEF AllSized
  <2>5. PICK s, t : s = v.text /\ t = l.text
    OBVIOUS
  <2>6. /\ s \in Seq(Readable) /\ Len(s) = i /\ v.nesting \in Nat
        /\ t \in Seq(Readable) /\ Len(t) = n - 1 - i /\ l.nesting \in Nat
    BY <2>4, <2>5 DEF Sized
  <2>7. s \o Tok("Comma") \in Seq(Readable) /\ Len(s \o Tok("Comma")) = i + 1
    BY <2>6, TokSized, ReadableConcat
  <2>8. /\ (s \o Tok("Comma")) \o t \in Seq(Readable)
        /\ Len((s \o Tok("Comma")) \o t) = i + 1 + (n - 1 - i)
    BY <2>6, <2>7, ReadableConcat
  <2>9. x.text = (s \o Tok("Comma")) \o t /\ x.nesting \in Nat
    BY <2>2, <2>5, <2>6 DEF Chained, MaxOf
  <2> QED BY <2>3, <2>8, <2>9 DEF Sized
<1> QED BY <1>1, <1>2, ListShape

(* A value is a scalar, an array or an object.                             *)
LEMMA ValueShape ==
  ASSUME NEW tokens, NEW elements, NEW members, NEW n \in Nat \ {0},
         NEW x \in Values(tokens, elements, members, n)
  PROVE  \/ n = 1 /\ x \in Scalars(tokens)
         \/ n > 1 /\ \E kind \in Kinds :
              x \in Containers(tokens, kind, Bracket.open[kind], Bracket.close[kind],
                               IF kind = "Array" THEN elements ELSE members, n)
<1>1. CASE n = 1
  BY <1>1 DEF Values
<1>2. CASE n # 1
  <2>1. \/ x \in Containers(tokens, "Array", "LeftSquareBracket", "RightSquareBracket", elements, n)
        \/ x \in Containers(tokens, "Object", "LeftCurlyBracket", "RightCurlyBracket", members, n)
    BY <1>2 DEF Values
  <2>2. /\ Bracket.open["Array"] = "LeftSquareBracket" /\ Bracket.close["Array"] = "RightSquareBracket"
        /\ Bracket.open["Object"] = "LeftCurlyBracket" /\ Bracket.close["Object"] = "RightCurlyBracket"
        /\ "Array" \in Kinds /\ "Object" \in Kinds
    BY DEF Bracket, Kinds
  <2> QED BY <1>2, <2>1, <2>2
<1> QED BY <1>1, <1>2

(* One length more.                                                        *)
LEMMA SizedStep ==
  ASSUME NEW tokens, tokens \subseteq Tokens, NEW d, NEW n \in Nat \ {0},
         Derived(tokens, d, n), \A k \in 1..(n - 1) : SizedAt(d, k)
  PROVE  SizedAt(d, n)
<1>1. /\ d.values[n] = Values(tokens, d.elements, d.members, n)
      /\ d.pairs[n] = Pairs(tokens, d.values, n)
      /\ d.elements[n] = Lists(d.values, d.elements, n)
      /\ d.members[n] = Lists(d.pairs, d.members, n)
  BY DEF Derived
<1>2. \A k \in 1..(n - 1) : /\ AllSized(d.values, k) /\ AllSized(d.pairs, k)
                            /\ AllSized(d.elements, k) /\ AllSized(d.members, k)
  BY DEF SizedAt
<1>3. AllSized(d.values, n)
  <2> SUFFICES ASSUME NEW x \in Values(tokens, d.elements, d.members, n) PROVE Sized(x, n)
    BY <1>1 DEF AllSized
  <2>1. CASE n = 1 /\ x \in Scalars(tokens)
    BY <2>1, ScalarSized
  <2>2. ASSUME n > 1, NEW kind \in Kinds, NEW lists, lists = IF kind = "Array" THEN d.elements ELSE d.members,
               x \in Containers(tokens, kind, Bracket.open[kind], Bracket.close[kind], lists, n)
        PROVE  Sized(x, n)
    <3>1. n > 2 => AllSized(lists, n - 2)
      BY <1>2, <2>2
    <3> QED BY <2>2, <3>1, ContainerSized
  <2> QED BY <2>1, <2>2, ValueShape
<1>4. AllSized(d.pairs, n)
  <2>1. n > 2 => AllSized(d.values, n - 2)
    BY <1>2
  <2> QED BY <1>1, <2>1, PairSized DEF AllSized
<1>5. (\A i \in 1..n : AllSized(d.values, i)) /\ (\A i \in 1..n : AllSized(d.pairs, i))
  BY <1>2, <1>3, <1>4
<1>6. AllSized(d.elements, n) /\ AllSized(d.members, n)
  <2>1. \A x \in Lists(d.values, d.elements, n) : Sized(x, n)
    BY <1>2, <1>5, ListSized
  <2>2. \A x \in Lists(d.pairs, d.members, n) : Sized(x, n)
    BY <1>2, <1>5, ListSized
  <2> QED BY <1>1, <2>1, <2>2 DEF AllSized
<1> QED BY <1>3, <1>4, <1>6 DEF SizedAt

(* A derivation is as long as its place in the table says.                 *)
LEMMA DerivedSized ==
  ASSUME NEW tokens, tokens \subseteq Tokens, NEW d, NEW size \in Nat, Derived(tokens, d, size)
  PROVE  \A n \in 1..size : SizedAt(d, n)
<1> DEFINE S == {n \in 0..size : \A k \in 1..n : SizedAt(d, k)}
<1>1. 0 \in S
  OBVIOUS
<1>2. ASSUME NEW n \in 0..size, n \in S, n < size PROVE n + 1 \in S
  <2>1. Derived(tokens, d, n + 1)
    BY <1>2 DEF Derived
  <2>2. n + 1 \in Nat \ {0} /\ (n + 1) - 1 = n /\ \A k \in 1..((n + 1) - 1) : SizedAt(d, k)
    BY <1>2
  <2>3. SizedAt(d, n + 1)
    BY <2>1, <2>2, SizedStep
  <2> QED BY <1>2, <2>2, <2>3
<1>3. \A n \in 0..size : n \in S
  <2> HIDE DEF S
  <2> QED BY <1>1, <1>2, UpTo
<1> QED BY <1>3

(* A text of the grammar: w.text is read from w.tokens, and w.table has    *)
(* the derivations of up to w.size of them.                                *)
Grammar(w) ==
  /\ w.tokens \subseteq Tokens /\ w.size \in Nat
  /\ Derived(w.tokens, w.table, w.size)

(* The text s is at position lo of t.                                      *)
StandsAt(s, t, lo) == \A i \in 1..Len(s) : t[lo + i - 1] = s[i]

(* From lo to hi, w's text is one of X, nested at most b deep.             *)
Spells(x, w, lo, b) == StandsAt(x.text, w.text, lo) /\ x.nesting <= b
Spelled(X, w, lo, hi, b) ==
  /\ lo \in Nat /\ hi \in Nat /\ b \in Int /\ hi - lo + 1 \in 1..w.size
  /\ \E x \in X[hi - lo + 1] : Spells(x, w, lo, b)

(* A container of that kind, from its first place behind the bracket: its  *)
(* closing bracket is at h, and a list is before it, if anything is.       *)
Listed(kind, w, p, h, b) == Spelled(ListsDerived(kind, w.table), w, p, h - 1, b)

Inside(kind, w, p, h, b) ==
  h \in Nat /\ w.text[h].type = Bracket.close[kind] /\ (p = h \/ Listed(kind, w, p, h, b))

(* The same from the place behind an item.                                 *)
Follows(kind, w, p, h, b) ==
  /\ h \in Nat /\ w.text[h].type = Bracket.close[kind]
  /\ p = h \/ (w.text[p].type = "Comma" /\ Listed(kind, w, p + 1, h, b))

(* Where texts put together are.                                           *)
LEMMA StandConcat ==
  ASSUME NEW a \in Seq(Readable), NEW b \in Seq(Readable), NEW t, NEW lo \in Nat,
         StandsAt(a \o b, t, lo)
  PROVE  StandsAt(a, t, lo) /\ StandsAt(b, t, lo + Len(a))
<1>1. /\ Len(a) \in Nat /\ Len(b) \in Nat /\ Len(a \o b) = Len(a) + Len(b)
      /\ \A i \in 1..(Len(a) + Len(b)) : (a \o b)[i] = IF i <= Len(a) THEN a[i] ELSE b[i - Len(a)]
  BY ConcatProperties, LenProperties
<1> DEFINE n == Len(a)  m == Len(b)  c == a \o b
<1>2. /\ n \in Nat /\ m \in Nat /\ Len(c) = n + m
      /\ \A i \in 1..(n + m) : c[i] = IF i <= n THEN a[i] ELSE b[i - n]
      /\ \A i \in 1..Len(c) : t[lo + i - 1] = c[i]
  BY <1>1 DEF StandsAt
<1> HIDE DEF n, m, c
<1>3. \A i \in 1..n : t[lo + i - 1] = a[i]
  BY <1>2
<1>4. \A i \in 1..m : t[lo + n + i - 1] = b[i]
  <2> TAKE i \in 1..m
  <2>1. n + i \in 1..(n + m) /\ ~(n + i <= n) /\ (n + i) - n = i /\ lo + (n + i) - 1 = lo + n + i - 1
    BY <1>2
  <2>2. t[lo + (n + i) - 1] = c[n + i] /\ c[n + i] = b[(n + i) - n]
    BY <1>2, <2>1
  <2> QED BY <2>1, <2>2
<1> QED BY <1>3, <1>4 DEF StandsAt, n, m

(* The place of a token alone.                                             *)
LEMMA TokenStands ==
  ASSUME NEW s \in Seq(Readable), Len(s) = 1, NEW t, NEW lo \in Nat, StandsAt(s, t, lo)
  PROVE  t[lo] = s[1]
<1>1. 1 \in 1..Len(s) /\ lo + 1 - 1 = lo
  OBVIOUS
<1> QED BY <1>1 DEF StandsAt

(* What is derived between two places is a derivation of their distance.   *)
LEMMA SpelledFacts ==
  ASSUME NEW w, Grammar(w), NEW X, X \in {w.table.values, w.table.pairs, w.table.elements, w.table.members},
         NEW lo, NEW hi, NEW b, Spelled(X, w, lo, hi, b)
  PROVE  /\ lo \in Nat /\ hi \in Nat /\ b \in Nat /\ lo <= hi
         /\ \E n \in 1..w.size : /\ n = hi - lo + 1
                                 /\ \E x \in X[n] : Sized(x, n) /\ Spells(x, w, lo, b)
<1>1. PICK n : n = hi - lo + 1
  OBVIOUS
<1>2. lo \in Nat /\ hi \in Nat /\ b \in Int /\ n \in 1..w.size /\ w.size \in Nat
  BY <1>1 DEF Spelled, Grammar
<1>3. PICK x \in X[n] : Spells(x, w, lo, b)
  BY <1>1 DEF Spelled
<1>4. SizedAt(w.table, n)
  <2>1. w.tokens \subseteq Tokens /\ w.size \in Nat /\ Derived(w.tokens, w.table, w.size)
    BY DEF Grammar
  <2> QED BY <1>2, <2>1, DerivedSized
<1>5. Sized(x, n)
  BY <1>3, <1>4 DEF SizedAt, AllSized
<1>6. b \in Nat
  BY <1>2, <1>3, <1>5 DEF Sized, Spells
<1> QED BY <1>1, <1>2, <1>3, <1>5, <1>6

(* A member begins with its key and its colon.                             *)
LEMMA PairBegins ==
  ASSUME NEW w, Grammar(w), NEW lo, NEW hi, NEW b, Spelled(w.table.pairs, w, lo, hi, b)
  PROVE  /\ w.text[lo].type = "String" /\ Decoded(w.text[lo].value) # Malformed
         /\ w.text[lo + 1].type = "Colon"
         /\ Spelled(w.table.values, w, lo + 2, hi, b)
<1>1. /\ lo \in Nat /\ hi \in Nat /\ b \in Nat
      /\ \E n \in 1..w.size : /\ n = hi - lo + 1
                              /\ \E x \in w.table.pairs[n] : Sized(x, n) /\ Spells(x, w, lo, b)
  BY SpelledFacts
<1>2. PICK n \in 1..w.size : /\ n = hi - lo + 1
                             /\ \E x \in w.table.pairs[n] : Sized(x, n) /\ Spells(x, w, lo, b)
  BY <1>1
<1>3. PICK x \in w.table.pairs[n] : Sized(x, n) /\ Spells(x, w, lo, b)
  BY <1>2
<1>4. w.tokens \subseteq Tokens /\ w.size \in Nat /\ Derived(w.tokens, w.table, w.size)
  BY DEF Grammar
<1>5. x \in Pairs(w.tokens, w.table.values, n) /\ n \in Nat
  BY <1>3, <1>4 DEF Derived
<1>6. n > 2 /\ \E k \in w.tokens, v \in w.table.values[n - 2] :
              k.type = "String" /\ Decoded(k.value) # Malformed /\ Paired(x, k, v)
  BY <1>5, PairShape
<1>7. PICK k \in w.tokens, v \in w.table.values[n - 2] :
              k.type = "String" /\ Decoded(k.value) # Malformed /\ Paired(x, k, v)
  BY <1>6
<1>8. Sized(v, n - 2)
  <2>1. n - 2 \in 1..w.size
    BY <1>4, <1>6
  <2>2. SizedAt(w.table, n - 2)
    BY <1>4, <2>1, DerivedSized
  <2> QED BY <1>7, <2>2 DEF SizedAt, AllSized
<1>9. PICK q, t : q = <<k>> /\ t = v.text
  OBVIOUS
<1>10. /\ q \in Seq(Readable) /\ Len(q) = 1 /\ q[1] = k
       /\ t \in Seq(Readable) /\ v.nesting \in Nat
  <2>1. k \in Readable
    BY <1>4, <1>7 DEF Readable
  <2> QED BY <1>8, <1>9, <2>1 DEF Sized
<1>11. PICK r : r = q \o Tok("Colon")
  OBVIOUS
<1>12. r \in Seq(Readable) /\ Len(r) = 1 + 1
  BY <1>10, <1>11, TokSized, ReadableConcat
<1>13. StandsAt(r \o t, w.text, lo) /\ v.nesting <= b
  BY <1>3, <1>7, <1>9, <1>11 DEF Spells, Paired
<1>14. StandsAt(r, w.text, lo) /\ StandsAt(t, w.text, lo + 2)
  <2>1. lo + (1 + 1) = lo + 2
    BY <1>1
  <2>2. StandsAt(r, w.text, lo) /\ StandsAt(t, w.text, lo + (1 + 1))
    BY <1>1, <1>10, <1>12, <1>13, StandConcat
  <2> QED BY <2>1, <2>2
<1>15. StandsAt(q, w.text, lo) /\ StandsAt(Tok("Colon"), w.text, lo + 1)
  BY <1>1, <1>10, <1>11, <1>14, TokSized, StandConcat
<1>16. w.text[lo] = k /\ w.text[lo + 1].type = "Colon"
  <2>1. w.text[lo] = q[1]
    BY <1>1, <1>10, <1>15, TokenStands
  <2>2. w.text[lo + 1] = Tok("Colon")[1]
    BY <1>1, <1>15, TokSized, TokenStands
  <2> QED BY <1>10, <2>1, <2>2, TokSized
<1>17. Spelled(w.table.values, w, lo + 2, hi, b)
  <2>1. hi - (lo + 2) + 1 = n - 2 /\ n - 2 \in 1..w.size
    BY <1>1, <1>2, <1>4, <1>6
  <2>2. Spells(v, w, lo + 2, b)
    BY <1>9, <1>13, <1>14 DEF Spells
  <2> QED BY <1>1, <1>7, <2>1, <2>2 DEF Spelled
<1> QED BY <1>7, <1>16, <1>17

(* A list begins with an item; its end, or a comma and a list, follows.    *)
LEMMA ListBegins ==
  ASSUME NEW w, Grammar(w), NEW kind \in Kinds, NEW lo, NEW hi, NEW b,
         Spelled(ListsDerived(kind, w.table), w, lo, hi, b)
  PROVE  \E m \in Nat : /\ Spelled(ItemsDerived(kind, w.table), w, lo, m, b)
                        /\ \/ m = hi
                           \/ /\ w.text[m + 1].type = "Comma"
                              /\ Spelled(ListsDerived(kind, w.table), w, m + 2, hi, b)
<1>0. PICK lists, items : lists = ListsDerived(kind, w.table) /\ items = ItemsDerived(kind, w.table)
  OBVIOUS
<1>1. /\ lists \in {w.table.elements, w.table.members} /\ items \in {w.table.values, w.table.pairs}
      /\ kind = "Array" => lists = w.table.elements /\ items = w.table.values
      /\ kind = "Object" => lists = w.table.members /\ items = w.table.pairs
  BY <1>0 DEF ListsDerived, ItemsDerived, Kinds
<1>2. /\ lo \in Nat /\ hi \in Nat /\ b \in Nat
      /\ \E n \in 1..w.size : /\ n = hi - lo + 1
                              /\ \E x \in lists[n] : Sized(x, n) /\ Spells(x, w, lo, b)
  BY <1>0, <1>1, SpelledFacts
<1>3. PICK n \in 1..w.size : /\ n = hi - lo + 1
                             /\ \E x \in lists[n] : Sized(x, n) /\ Spells(x, w, lo, b)
  BY <1>2
<1>4. PICK x \in lists[n] : Sized(x, n) /\ Spells(x, w, lo, b)
  BY <1>3
<1>5. w.tokens \subseteq Tokens /\ w.size \in Nat /\ Derived(w.tokens, w.table, w.size)
  BY DEF Grammar
<1>6. lists[n] = Lists(items, lists, n) /\ n \in Nat \ {0}
  BY <1>1, <1>5 DEF Derived, Kinds
<1>7. CASE \E v \in items[n] : Alone(x, v)
  <2>1. PICK v \in items[n] : Alone(x, v)
    BY <1>7
  <2>2. Spells(v, w, lo, b)
    BY <1>4, <2>1 DEF Spells, Alone
  <2>3. Spelled(items, w, lo, hi, b)
    BY <1>2, <1>3, <2>1, <2>2 DEF Spelled
  <2> QED BY <1>0, <1>2, <2>3
<1>8. CASE \E i \in 1..(n - 2) : \E v \in items[i], l \in lists[n - 1 - i] : Chained(x, v, l)
  <2>1. PICK i \in 1..(n - 2) : \E v \in items[i], l \in lists[n - 1 - i] : Chained(x, v, l)
    BY <1>8
  <2>2. PICK j : j = n - 1 - i
    OBVIOUS
  <2>3. PICK v \in items[i], l \in lists[j] : Chained(x, v, l)
    BY <2>1, <2>2
  <2>4. i \in 1..w.size /\ j \in 1..w.size /\ i \in Nat
    BY <1>5, <2>2
  <2>5. Sized(v, i) /\ Sized(l, j)
    <3>1. SizedAt(w.table, i) /\ SizedAt(w.table, j)
      BY <1>5, <2>4, DerivedSized
    <3> QED BY <1>1, <2>3, <3>1 DEF SizedAt, AllSized
  <2>6. PICK s, t : s = v.text /\ t = l.text
    OBVIOUS
  <2>7. /\ s \in Seq(Readable) /\ Len(s) = i /\ v.nesting \in Nat
        /\ t \in Seq(Readable) /\ Len(t) = j /\ l.nesting \in Nat
    BY <2>5, <2>6 DEF Sized
  <2>8. PICK r : r = s \o Tok("Comma")
    OBVIOUS
  <2>9. r \in Seq(Readable) /\ Len(r) = i + 1
    BY <2>7, <2>8, TokSized, ReadableConcat
  <2>10. StandsAt(r \o t, w.text, lo) /\ v.nesting <= b /\ l.nesting <= b
    <3>1. /\ StandsAt(x.text, w.text, lo) /\ x.nesting <= b
          /\ x.text = r \o t /\ x.nesting = MaxOf(v.nesting, l.nesting)
      BY <1>4, <2>3, <2>6, <2>8 DEF Spells, Chained
    <3> QED BY <1>2, <2>7, <3>1 DEF MaxOf
  <2>11. StandsAt(r, w.text, lo) /\ StandsAt(t, w.text, lo + (i + 1))
    BY <1>2, <2>7, <2>9, <2>10, StandConcat
  <2>12. StandsAt(s, w.text, lo) /\ StandsAt(Tok("Comma"), w.text, lo + i)
    BY <1>2, <2>7, <2>8, <2>11, TokSized, StandConcat
  <2>13. w.text[lo + i].type = "Comma"
    <3>1. w.text[lo + i] = Tok("Comma")[1]
      BY <1>2, <2>4, <2>12, TokSized, TokenStands
    <3> QED BY <3>1, TokSized
  <2>14. PICK m : m = lo + i - 1
    OBVIOUS
  <2>15. /\ m \in Nat /\ m - lo + 1 = i /\ m + 1 = lo + i /\ m + 2 = lo + (i + 1)
         /\ hi - (m + 2) + 1 = j /\ m + 2 \in Nat
    BY <1>2, <1>3, <2>2, <2>4, <2>14
  <2>16. Spelled(items, w, lo, m, b)
    <3>1. Spells(v, w, lo, b)
      BY <2>6, <2>10, <2>12 DEF Spells
    <3> QED BY <1>2, <2>3, <2>4, <2>15, <3>1 DEF Spelled
  <2>17. Spelled(lists, w, m + 2, hi, b)
    <3>1. Spells(l, w, m + 2, b)
      BY <2>6, <2>10, <2>11, <2>15 DEF Spells
    <3> QED BY <1>2, <2>3, <2>4, <2>15, <3>1 DEF Spelled
  <2> QED BY <1>0, <2>13, <2>15, <2>16, <2>17
<1> QED BY <1>4, <1>6, <1>7, <1>8, ListShape

(* A value is a scalar, or begins with a bracket.                          *)
LEMMA ValueBegins ==
  ASSUME NEW w, Grammar(w), NEW lo, NEW hi, NEW b, Spelled(w.table.values, w, lo, hi, b)
  PROVE  \/ lo = hi /\ ReadScalar(w.text[lo])
         \/ \E kind \in Kinds : /\ w.text[lo].type = Bracket.open[kind]
                                /\ Inside(kind, w, lo + 1, hi, b - 1)
<1>1. /\ lo \in Nat /\ hi \in Nat /\ b \in Nat
      /\ \E n \in 1..w.size : /\ n = hi - lo + 1
                              /\ \E x \in w.table.values[n] : Sized(x, n) /\ Spells(x, w, lo, b)
  BY SpelledFacts
<1>2. PICK n \in 1..w.size : /\ n = hi - lo + 1
                             /\ \E x \in w.table.values[n] : Sized(x, n) /\ Spells(x, w, lo, b)
  BY <1>1
<1>3. PICK x \in w.table.values[n] : Sized(x, n) /\ Spells(x, w, lo, b)
  BY <1>2
<1>4. w.tokens \subseteq Tokens /\ w.size \in Nat /\ Derived(w.tokens, w.table, w.size)
  BY DEF Grammar
<1>5. x \in Values(w.tokens, w.table.elements, w.table.members, n) /\ n \in Nat \ {0}
  BY <1>3, <1>4 DEF Derived
<1>6. CASE n = 1 /\ x \in Scalars(w.tokens)
  <2>1. PICK t \in w.tokens : x.text = <<t>> /\ x.nesting = 0 /\ ReadScalar(t)
    BY <1>4, <1>6, ScalarShape
  <2>2. PICK q : q = <<t>>
    OBVIOUS
  <2>3. q \in Seq(Readable) /\ Len(q) = 1 /\ q[1] = t
    <3>1. t \in Readable
      BY <1>4, <2>1 DEF Readable, ReadScalar
    <3> QED BY <2>2, <3>1
  <2>4. StandsAt(q, w.text, lo)
    BY <1>3, <2>1, <2>2 DEF Spells
  <2>5. w.text[lo] = t
    BY <1>1, <2>3, <2>4, TokenStands
  <2> QED BY <1>1, <1>2, <1>6, <2>1, <2>5
<1>7. ASSUME n > 1, NEW kind \in Kinds, NEW lists,
             lists = IF kind = "Array" THEN w.table.elements ELSE w.table.members,
             x \in Containers(w.tokens, kind, Bracket.open[kind], Bracket.close[kind], lists, n)
      PROVE  /\ w.text[lo].type = Bracket.open[kind]
             /\ Inside(kind, w, lo + 1, hi, b - 1)
  <2>1. PICK open, close : open = Bracket.open[kind] /\ close = Bracket.close[kind]
    OBVIOUS
  <2>2. /\ Tok(open) \in Seq(Readable) /\ Len(Tok(open)) = 1 /\ Tok(open)[1].type = open
        /\ Tok(close) \in Seq(Readable) /\ Len(Tok(close)) = 1 /\ Tok(close)[1].type = close
    <3>1. /\ open \in {"LeftCurlyBracket", "LeftSquareBracket"}
          /\ close \in {"RightCurlyBracket", "RightSquareBracket"}
      BY <2>1 DEF Kinds, Bracket
    <3> QED BY <3>1, TokSized
  <2>3. lists = ListsDerived(kind, w.table) /\ lists \in {w.table.elements, w.table.members}
    BY <1>7 DEF ListsDerived
  <2>4. CASE n = 2 /\ Empty(x, open, close)
    <3>1. StandsAt(Tok(open) \o Tok(close), w.text, lo)
      BY <1>3, <2>4 DEF Spells, Empty
    <3>2. StandsAt(Tok(open), w.text, lo) /\ StandsAt(Tok(close), w.text, lo + 1)
      BY <1>1, <2>2, <3>1, StandConcat
    <3>3. w.text[lo] = Tok(open)[1] /\ w.text[lo + 1] = Tok(close)[1]
      BY <1>1, <2>2, <3>2, TokenStands
    <3>4. hi = lo + 1
      BY <1>1, <1>2, <2>4
    <3> QED BY <1>1, <2>1, <2>2, <3>3, <3>4 DEF Inside
  <2>5. CASE n > 2 /\ \E l \in lists[n - 2] : Framed(x, open, l, close)
    <3>1. PICK j : j = n - 2
      OBVIOUS
    <3>2. PICK l \in lists[j] : Framed(x, open, l, close)
      BY <2>5, <3>1
    <3>3. j \in 1..w.size /\ j \in Nat
      BY <1>4, <2>5, <3>1
    <3>4. Sized(l, j)
      <4>1. SizedAt(w.table, j)
        BY <1>4, <3>3, DerivedSized
      <4> QED BY <2>3, <3>2, <4>1 DEF SizedAt, AllSized
    <3>5. PICK t : t = l.text
      OBVIOUS
    <3>6. t \in Seq(Readable) /\ Len(t) = j /\ l.nesting \in Nat
      BY <3>4, <3>5 DEF Sized
    <3>7. PICK r : r = Tok(open) \o t
      OBVIOUS
    <3>8. r \in Seq(Readable) /\ Len(r) = 1 + j
      BY <2>2, <3>6, <3>7, ReadableConcat
    <3>9. StandsAt(r \o Tok(close), w.text, lo) /\ l.nesting + 1 <= b
      BY <1>3, <3>2, <3>5, <3>7 DEF Spells, Framed
    <3>10. StandsAt(r, w.text, lo) /\ StandsAt(Tok(close), w.text, lo + (1 + j))
      BY <1>1, <2>2, <3>8, <3>9, StandConcat
    <3>11. StandsAt(Tok(open), w.text, lo) /\ StandsAt(t, w.text, lo + 1)
      BY <1>1, <2>2, <3>6, <3>7, <3>10, StandConcat
    <3>12. lo + (1 + j) = hi /\ (hi - 1) - (lo + 1) + 1 = j /\ hi - 1 \in Nat /\ lo + 1 \in Nat
           /\ l.nesting <= b - 1 /\ b - 1 \in Int
      BY <1>1, <1>2, <1>5, <2>5, <3>1, <3>6, <3>9
    <3>13. w.text[lo] = Tok(open)[1] /\ w.text[hi] = Tok(close)[1]
      <4>1. StandsAt(Tok(close), w.text, hi)
        BY <3>10, <3>12
      <4> QED BY <1>1, <2>2, <3>11, <4>1, TokenStands
    <3>14. Spelled(lists, w, lo + 1, hi - 1, b - 1)
      <4>1. Spells(l, w, lo + 1, b - 1)
        BY <3>5, <3>11, <3>12 DEF Spells
      <4> QED BY <3>2, <3>3, <3>12, <4>1 DEF Spelled
    <3> QED BY <1>1, <2>1, <2>2, <2>3, <3>13, <3>14 DEF Inside, Listed
  <2>6. n \in Nat
    BY <1>5
  <2> QED BY <1>7, <2>1, <2>4, <2>5, <2>6, ContainerShape
<1>8. \/ n = 1 /\ x \in Scalars(w.tokens)
      \/ n > 1 /\ \E kind \in Kinds :
           x \in Containers(w.tokens, kind, Bracket.open[kind], Bracket.close[kind],
                            IF kind = "Array" THEN w.table.elements ELSE w.table.members, n)
  BY <1>5, ValueShape
<1> QED BY <1>6, <1>7, <1>8

(* What the first token of a value says of it.                             *)
LEMMA ValueHere ==
  ASSUME NEW w, Grammar(w), NEW lo, NEW hi, NEW b, Spelled(w.table.values, w, lo, hi, b)
  PROVE  /\ w.text[lo].type \in ValueTokens /\ lo \in Nat /\ hi \in Nat /\ b \in Nat
         /\ w.text[lo].type \in {"Null", "Boolean", "Integer", "Double", "String"} =>
              lo = hi /\ ReadScalar(w.text[lo])
         /\ \A kind \in Kinds : w.text[lo].type = Bracket.open[kind] =>
              Inside(kind, w, lo + 1, hi, b - 1)
<1>1. lo \in Nat /\ hi \in Nat /\ b \in Nat
  BY SpelledFacts
<1>2. CASE lo = hi /\ ReadScalar(w.text[lo])
  <2>1. w.text[lo].type \in {"Null", "Boolean", "Integer", "Double", "String"}
    BY <1>2 DEF ReadScalar
  <2> QED BY <1>1, <1>2, <2>1 DEF ValueTokens, Bracket, Kinds
<1>3. ASSUME NEW kind \in Kinds, w.text[lo].type = Bracket.open[kind],
             Inside(kind, w, lo + 1, hi, b - 1)
      PROVE  /\ w.text[lo].type \in ValueTokens
             /\ w.text[lo].type \notin {"Null", "Boolean", "Integer", "Double", "String"}
             /\ \A k \in Kinds : w.text[lo].type = Bracket.open[k] =>
                  Inside(k, w, lo + 1, hi, b - 1)
  <2>1. \A k \in Kinds : w.text[lo].type = Bracket.open[k] => k = kind
    BY <1>3 DEF Bracket, Kinds
  <2>2. w.text[lo].type \in {"LeftSquareBracket", "LeftCurlyBracket"}
    BY <1>3 DEF Bracket, Kinds
  <2> QED BY <1>3, <2>1, <2>2 DEF ValueTokens
<1> QED BY <1>1, <1>2, <1>3, ValueBegins

(* From p a value lies, and behind it what may follow an item.             *)
ItemAhead(kind, w, p, h, b) ==
  \E m \in Nat : Spelled(w.table.values, w, p, m, b) /\ Follows(kind, w, m + 1, h, b)

(* What the first tokens of a list say of it.                              *)
LEMMA ListHere ==
  ASSUME NEW w, Grammar(w), NEW kind \in Kinds, NEW p, NEW h \in Nat, NEW b,
         w.text[h].type = Bracket.close[kind], Listed(kind, w, p, h, b)
  PROVE  /\ p \in Nat /\ b \in Nat
         /\ w.text[p].type \notin {"RightSquareBracket", "RightCurlyBracket"}
         /\ kind = "Array" => ItemAhead(kind, w, p, h, b)
         /\ kind = "Object" =>
              /\ w.text[p].type = "String" /\ Decoded(w.text[p].value) # Malformed
              /\ w.text[p + 1].type = "Colon" /\ ItemAhead(kind, w, p + 2, h, b)
<1>1. PICK m \in Nat : /\ Spelled(ItemsDerived(kind, w.table), w, p, m, b)
                       /\ \/ m = h - 1
                          \/ /\ w.text[m + 1].type = "Comma"
                             /\ Spelled(ListsDerived(kind, w.table), w, m + 2, h - 1, b)
  BY ListBegins DEF Listed
<1>2. Follows(kind, w, m + 1, h, b)
  <2>1. m = h - 1 => m + 1 = h
    OBVIOUS
  <2>2. (m + 1) + 1 = m + 2
    OBVIOUS
  <2>3. w.text[m + 1].type = "Comma" /\ Listed(kind, w, m + 2, h, b) => Follows(kind, w, m + 1, h, b)
    BY <2>2 DEF Follows
  <2>4. m + 1 = h => Follows(kind, w, m + 1, h, b)
    BY DEF Follows
  <2> QED BY <1>1, <2>1, <2>3, <2>4 DEF Listed
<1>3. CASE kind = "Array"
  <2>1. Spelled(w.table.values, w, p, m, b)
    BY <1>1, <1>3 DEF ItemsDerived
  <2>2. p \in Nat /\ b \in Nat /\ w.text[p].type \in ValueTokens
    BY <2>1, ValueHere
  <2>3. ItemAhead(kind, w, p, h, b)
    BY <1>2, <2>1 DEF ItemAhead
  <2> QED BY <1>3, <2>2, <2>3 DEF ValueTokens
<1>4. CASE kind = "Object"
  <2>1. Spelled(w.table.pairs, w, p, m, b)
    BY <1>1, <1>4 DEF ItemsDerived
  <2>2. /\ w.text[p].type = "String" /\ Decoded(w.text[p].value) # Malformed
        /\ w.text[p + 1].type = "Colon" /\ Spelled(w.table.values, w, p + 2, m, b)
    BY <2>1, PairBegins
  <2>3. p \in Nat /\ b \in Nat
    BY <2>1, SpelledFacts
  <2>4. ItemAhead(kind, w, p + 2, h, b)
    BY <1>2, <2>2 DEF ItemAhead
  <2> QED BY <1>4, <2>2, <2>3, <2>4
<1> QED BY <1>3, <1>4 DEF Kinds

-----------------------------------------------------------------------------
(* A document of the grammar.                                              *)
Document(w) ==
  /\ w.text \in Seq(Readable) /\ w.text[Len(w.text)].type = "EndOfFile"
  /\ Grammar(w) /\ Spelled(w.table.values, w, 1, Len(w.text) - 1, MaxDepth)

(* What is behind an item, of the k-th open container or of none: p is the *)
(* place behind it, hs[k] that of the closing bracket.                     *)
After(w, frames, hs, k, p) ==
  IF k = 0 THEN p = Len(w.text) ELSE Follows(frames[k].kind, w, p, hs[k], MaxDepth - k)

(* Every open container is an item of the one it is in.                    *)
Enclosing(w, frames, hs) ==
  /\ hs \in Seq(Nat) /\ Len(hs) = Len(frames)
  /\ \A k \in 1..Len(frames) : After(w, frames, hs, k - 1, hs[k] + 1)

(* From p there is a value, or the list of the innermost container.        *)
ValueAhead(w, frames, hs, p) ==
  \E m \in Nat : /\ Spelled(w.table.values, w, p, m, MaxDepth - Len(frames))
                 /\ After(w, frames, hs, Len(frames), m + 1)

ListAhead(w, frames, hs, p) ==
  LET n == Len(frames)
  IN  /\ w.text[hs[n]].type = Bracket.close[frames[n].kind]
      /\ Listed(frames[n].kind, w, p, hs[n], MaxDepth - n)

(* What is ahead, c tokens read, at each place of the parser.              *)
Outlook(w, frames, hs, c, place) ==
  LET n == Len(frames)
  IN  /\ place \in {"parse", "value"} => ValueAhead(w, frames, hs, c)
      /\ place = "opened" => Inside(frames[n].kind, w, c, hs[n], MaxDepth - n)
      /\ place \in {"key", "comma"} => ListAhead(w, frames, hs, c)
      /\ place = "colon" => w.text[c].type = "Colon" /\ ValueAhead(w, frames, hs, c + 1)
      /\ place \in {"return", "added"} => After(w, frames, hs, n, c)
      /\ place \in {"empty", "closed"} => c = hs[n] + 1

Ahead(w, hs) == Enclosing(w, calls, hs) /\ Outlook(w, calls, hs, Len(pulled), pc)

(* While a document is read there is no error, and the rest is foreseen.   *)
Foreseen(w) == Begins(pulled, w.text) => ~has_error /\ \E hs \in Seq(Nat) : Ahead(w, hs)

(* The innermost of the open containers ends at h.                         *)
EndsAt(w, frames, hs, h) == Enclosing(w, frames, hs) /\ hs[Len(frames)] = h

(* One container more is open.                                             *)
LEMMA EnclosingPush ==
  ASSUME NEW w, NEW frames, frames \in Seq(Frames), NEW n, n = Len(frames),
         NEW hs, Enclosing(w, frames, hs), NEW f, f \in Frames,
         NEW h, h \in Nat, NEW p, p = h + 1, After(w, frames, hs, n, p), NEW g, g = Append(frames, f)
  PROVE  /\ n \in Nat /\ Len(g) = n + 1 /\ g[n + 1] = f
         /\ \E gs \in Seq(Nat) : EndsAt(w, g, gs, h)
<1>1. PICK e : e = Append(hs, h)
  OBVIOUS
<1>2. hs \in Seq(Nat) /\ Len(hs) = n /\ \A k \in 1..n : After(w, frames, hs, k - 1, hs[k] + 1)
  BY <1>1 DEF Enclosing
<1>3. /\ n \in Nat /\ Len(g) = n + 1 /\ g[n + 1] = f /\ \A i \in 1..n : g[i] = frames[i]
      /\ e \in Seq(Nat) /\ Len(e) = n + 1 /\ e[n + 1] = h /\ \A i \in 1..n : e[i] = hs[i]
  BY <1>1, <1>2, AppendFacts
<1>4. \A k \in 0..n : \A x : After(w, g, e, k, x) <=> After(w, frames, hs, k, x)
  <2> TAKE k \in 0..n
  <2>1. k = 0 \/ k \in 1..n
    BY <1>3
  <2> QED BY <1>3, <2>1 DEF After
<1>5. \A k \in 1..(n + 1) : After(w, g, e, k - 1, e[k] + 1)
  <2> TAKE k \in 1..(n + 1)
  <2>1. CASE k = n + 1
    <3>1. k - 1 = n /\ n \in 0..n
      BY <1>3, <2>1
    <3> QED BY <1>1, <1>3, <1>4, <2>1, <3>1
  <2>2. CASE k # n + 1
    <3>1. k \in 1..n /\ k - 1 \in 0..n
      BY <1>3, <2>2
    <3> QED BY <1>2, <1>3, <1>4, <3>1
  <2> QED BY <2>1, <2>2
<1>6. EndsAt(w, g, e, h) /\ e \in Seq(Nat)
  BY <1>1, <1>3, <1>5 DEF Enclosing, EndsAt
<1> QED BY <1>1, <1>3, <1>6

(* The innermost container is closed.                                      *)
LEMMA EnclosingPop ==
  ASSUME NEW w, NEW frames \in Seq(Frames), frames # <<>>, NEW hs, Enclosing(w, frames, hs)
  PROVE  /\ Front(hs) \in Seq(Nat) /\ Enclosing(w, Front(frames), Front(hs))
         /\ After(w, Front(frames), Front(hs), Len(Front(frames)), hs[Len(frames)] + 1)
<1>1. PICK n, g, e : n = Len(frames) /\ g = Front(frames) /\ e = Front(hs)
  OBVIOUS
<1>2. hs \in Seq(Nat) /\ Len(hs) = n /\ \A k \in 1..n : After(w, frames, hs, k - 1, hs[k] + 1)
  BY <1>1 DEF Enclosing
<1>3. n \in Nat \ {0} /\ Len(g) = n - 1 /\ \A i \in 1..(n - 1) : g[i] = frames[i]
  BY <1>1, LastFront
<1>4. e \in Seq(Nat) /\ Len(e) = n - 1 /\ \A i \in 1..(n - 1) : e[i] = hs[i]
  <2>1. hs # <<>>
    BY <1>2, <1>3, EmptySeq
  <2> QED BY <1>1, <1>2, <2>1, LastFront
<1>5. \A k \in 0..(n - 1) : \A p : After(w, g, e, k, p) <=> After(w, frames, hs, k, p)
  <2> TAKE k \in 0..(n - 1)
  <2>1. k = 0 \/ k \in 1..(n - 1)
    BY <1>3
  <2> QED BY <1>3, <1>4, <2>1 DEF After
<1>6. \A k \in 1..(n - 1) : After(w, g, e, k - 1, e[k] + 1)
  <2> TAKE k \in 1..(n - 1)
  <2>1. k \in 1..n /\ k - 1 \in 0..(n - 1)
    BY <1>3
  <2> QED BY <1>2, <1>4, <1>5, <2>1
<1>7. After(w, g, e, n - 1, hs[n] + 1)
  <2>1. n \in 1..n /\ n - 1 \in 0..(n - 1)
    BY <1>3
  <2> QED BY <1>2, <1>5, <2>1
<1> QED BY <1>1, <1>3, <1>4, <1>6, <1>7 DEF Enclosing

(* Only the kinds of the containers matter.                                *)
LEMMA SameKinds ==
  ASSUME NEW w, NEW frames, NEW hs, NEW more, Len(frames) \in Nat, Len(more) = Len(frames),
         \A k \in 1..Len(frames) : more[k].kind = frames[k].kind
  PROVE  /\ Enclosing(w, frames, hs) => Enclosing(w, more, hs)
         /\ \A p : ValueAhead(w, frames, hs, p) => ValueAhead(w, more, hs, p)
<1>1. PICK n : n = Len(frames)
  OBVIOUS
<1>2. \A k \in 0..n : \A p : After(w, more, hs, k, p) <=> After(w, frames, hs, k, p)
  <2> TAKE k \in 0..n
  <2>1. k = 0 \/ k \in 1..n
    BY <1>1
  <2> QED BY <1>1, <2>1 DEF After
<1>3. n \in Nat /\ n \in 0..n /\ Len(more) = n /\ \A k \in 1..n : k - 1 \in 0..n
  BY <1>1
<1>4. Enclosing(w, frames, hs) => Enclosing(w, more, hs)
  BY <1>1, <1>2, <1>3 DEF Enclosing
<1>5. \A p : ValueAhead(w, frames, hs, p) => ValueAhead(w, more, hs, p)
  BY <1>1, <1>2, <1>3 DEF ValueAhead
<1> QED BY <1>4, <1>5

(* A text that goes on as w's began as w's.                                *)
LEMMA BeginsBefore ==
  ASSUME TypeOK, TypeOK', NEW w, pulled' = pulled \/ \E t : pulled' = Append(pulled, t),
         Begins(pulled', w.text)
  PROVE  Begins(pulled, w.text)
<1>1. CASE pulled' = pulled
  BY <1>1
<1>2. CASE \E t : pulled' = Append(pulled, t)
  <2>1. PICK t : pulled' = Append(pulled, t)
    BY <1>2
  <2>2. /\ Len(pulled) \in Nat /\ Len(pulled') = Len(pulled) + 1
        /\ \A i \in 1..Len(pulled) : pulled'[i] = pulled[i]
    BY <2>1, LenProperties, AppendProperties DEF TypeOK
  <2>3. /\ Len(pulled') <= Len(w.text) /\ \A i \in 1..Len(pulled') : w.text[i] = pulled'[i]
    BY DEF Begins
  <2>4. Len(pulled) <= Len(w.text) \/ Len(w.text) \notin Int
    BY <2>2, <2>3
  <2> QED BY <2>2, <2>3, <2>4 DEF Begins
<1> QED BY <1>1, <1>2

(* The current token is the document's, at the place reached.              *)
LEMMA CurrentHere ==
  ASSUME TypeOK, NEW w, Begins(pulled, w.text)
  PROVE  /\ Len(pulled) \in Nat \ {0} /\ Current = w.text[Len(pulled)] /\ Current \in Tokens
<1>1. Len(pulled) \in Nat \ {0} /\ Last(pulled) = pulled[Len(pulled)] /\ Last(pulled) \in Tokens
  BY LastFront DEF TypeOK
<1>2. Len(pulled) \in 1..Len(pulled)
  BY <1>1
<1> QED BY <1>1, <1>2 DEF Begins, Current

(* Reading on in a document meets no error.                                *)
LEMMA AdvanceHere ==
  ASSUME TypeOK, TypeOK', StructureInv, ~has_error, NEW w, Document(w), Begins(pulled', w.text), Advance
  PROVE  ~has_error' /\ Len(pulled') = Len(pulled) + 1
<1>1. PICK t \in NextTokens : Pull(t)
  BY DEF Advance
<1>2. Len(pulled) \in Nat /\ Len(pulled') = Len(pulled) + 1 /\ pulled'[Len(pulled) + 1] = t
  BY <1>1, LenProperties, AppendProperties DEF TypeOK, Pull
<1>3. Len(pulled') <= Len(w.text) /\ w.text[Len(pulled) + 1] = t
  <2>1. Len(pulled) + 1 \in 1..Len(pulled')
    BY <1>2
  <2> QED BY <1>2, <2>1 DEF Begins
<1>4. t \in Readable
  <2>1. w.text \in Seq(Readable) /\ Len(w.text) \in Nat
    BY LenProperties DEF Document
  <2>2. Len(pulled) + 1 \in 1..Len(w.text)
    BY <1>2, <1>3, <2>1
  <2> QED BY <1>3, <2>1, <2>2, ElementOfSeq
<1>5. t.type # "Unknown"
  BY <1>4 DEF Readable
<1>6. lexer_status = "None" /\ status = "None"
  BY DEF StructureInv, PendingErrorIsLexers, has_error
<1>7. status' = "None"
  BY <1>1, <1>5, <1>6 DEF Pull
<1> QED BY <1>2, <1>7 DEF has_error

(* The start of the parse.                                                 *)
LEMMA ForeseenInit ==
  ASSUME TypeOK, Init, NEW w, Document(w)
  PROVE  Foreseen(w)
<1> SUFFICES ASSUME Begins(pulled, w.text) PROVE ~has_error /\ \E hs \in Seq(Nat) : Ahead(w, hs)
  BY DEF Foreseen
<1>1. Len(pulled) = 1 /\ calls = <<>> /\ pc = "parse" /\ Len(calls) = 0
  BY EmptySeq DEF Init
<1>2. Grammar(w) /\ Spelled(w.table.values, w, 1, Len(w.text) - 1, MaxDepth)
  BY DEF Document
<1>3. /\ w.text[1].type \in ValueTokens /\ Len(w.text) - 1 \in Nat
  BY <1>2, ValueHere
<1>4. ~has_error
  <2>1. Current = w.text[1]
    BY <1>1, CurrentHere
  <2>2. PICK t : pulled = <<t>> /\ lexer_status = IF t.type = "Unknown" THEN t.error ELSE "None"
    BY DEF Init
  <2>3. Current = t
    BY <2>2, <1>1 DEF Current, Last
  <2>4. t.type # "Unknown"
    BY <1>3, <2>1, <2>3 DEF ValueTokens
  <2> QED BY <2>2, <2>4 DEF Init, has_error
<1>5. Ahead(w, <<>>)
  <2>1. <<>> \in Seq(Nat) /\ Len(<<>>) = 0
    BY EmptySeq
  <2>2. Enclosing(w, calls, <<>>)
    BY <1>1, <2>1 DEF Enclosing
  <2>3. After(w, calls, <<>>, 0, Len(w.text) - 1 + 1)
    <3>1. w.text \in Seq(Readable) /\ Len(w.text) \in Nat
      BY LenProperties DEF Document
    <3> QED BY <3>1 DEF After
  <2>4. MaxDepth - Len(calls) = MaxDepth
    BY <1>1, BoundsAssumption
  <2>5. ValueAhead(w, calls, <<>>, Len(pulled))
    BY <1>1, <1>2, <1>3, <2>3, <2>4 DEF ValueAhead
  <2> QED BY <1>1, <2>2, <2>5 DEF Ahead, Outlook
<1> QED BY <1>4, <1>5, EmptySeq

(* What is assumed of a step within a document.                            *)
Within(w) ==
  /\ TypeOK /\ StructureInv /\ ~has_error /\ Document(w)
  /\ Begins(pulled, w.text)

(* A scalar.                                                               *)
LEMMA ForeseenScalar ==
  ASSUME NEW w, Within(w), TypeOK', Begins(pulled', w.text), NEW hs \in Seq(Nat), Ahead(w, hs),
         BuildNull \/ BuildBoolean \/ BuildInteger \/ BuildDouble \/ BuildString
  PROVE  ~has_error' /\ Ahead(w, hs)'
<1>1. /\ Enclosing(w, calls, hs) /\ ValueAhead(w, calls, hs, Len(pulled))
      /\ UNCHANGED calls
  BY DEF Ahead, Outlook, BuildNull, BuildBoolean, BuildInteger, BuildDouble, BuildString
<1>2. PICK m \in Nat : /\ Spelled(w.table.values, w, Len(pulled), m, MaxDepth - Len(calls))
                       /\ After(w, calls, hs, Len(calls), m + 1)
  BY <1>1 DEF ValueAhead
<1>3. /\ TypeOK /\ Current = w.text[Len(pulled)] /\ Len(pulled) \in Nat \ {0} /\ Grammar(w)
      /\ StructureInv /\ ~has_error /\ Document(w)
  BY CurrentHere DEF Within, Document
<1>4. Len(pulled) = m /\ ReadScalar(Current)
  <2>1. Current.type \in {"Null", "Boolean", "Integer", "Double", "String"}
    BY DEF BuildNull, BuildBoolean, BuildInteger, BuildDouble, BuildString, Is
  <2> QED BY <1>2, <1>3, <2>1, ValueHere
<1>5. Advance /\ pc' = "return"
  BY <1>4 DEF BuildNull, BuildBoolean, BuildInteger, BuildDouble, BuildString, Is, ReadScalar, Return
<1>6. ~has_error' /\ Len(pulled') = m + 1
  BY <1>3, <1>4, <1>5, AdvanceHere
<1>7. Outlook(w, calls', hs, Len(pulled'), pc')
  BY <1>1, <1>2, <1>5, <1>6 DEF Outlook
<1> QED BY <1>1, <1>6, <1>7 DEF Ahead

(* A container is opened.                                                  *)
LEMMA ForeseenOpen ==
  ASSUME NEW w, Within(w), TypeOK', Begins(pulled', w.text), NEW hs \in Seq(Nat), Ahead(w, hs),
         OpenArray \/ OpenObject
  PROVE  ~has_error' /\ \E gs \in Seq(Nat) : Ahead(w, gs)'
<1>1. /\ Enclosing(w, calls, hs) /\ ValueAhead(w, calls, hs, Len(pulled))
      /\ Advance /\ pc' = "opened"
  BY DEF Ahead, Outlook, OpenArray, OpenObject, Open
<1>2. PICK kind \in Kinds, f \in Frames :
        calls' = Append(calls, f) /\ f.kind = kind /\ Current.type = Bracket.open[kind]
  <2>1. Len(array_stack) \in Nat /\ Len(object_stack) \in Nat
    BY LenProperties DEF Within, TypeOK
  <2>2. CASE OpenArray
    <3>1. /\ calls' = Append(calls, [kind |-> "Array", start |-> Len(array_stack), key |-> NoKey])
          /\ Current.type = Bracket.open["Array"]
      BY <2>2 DEF OpenArray, Open, Is, Bracket
    <3>2. [kind |-> "Array", start |-> Len(array_stack), key |-> NoKey] \in Frames
      BY <2>1 DEF Frames
    <3> QED BY <3>1, <3>2 DEF Kinds
  <2>3. CASE OpenObject
    <3>1. /\ calls' = Append(calls, [kind |-> "Object", start |-> Len(object_stack), key |-> NoKey])
          /\ Current.type = Bracket.open["Object"]
      BY <2>3 DEF OpenObject, Open, Is, Bracket
    <3>2. [kind |-> "Object", start |-> Len(object_stack), key |-> NoKey] \in Frames
      BY <2>1 DEF Frames
    <3> QED BY <3>1, <3>2 DEF Kinds
  <2> QED BY <2>2, <2>3
<1>3. PICK m \in Nat : /\ Spelled(w.table.values, w, Len(pulled), m, MaxDepth - Len(calls))
                       /\ After(w, calls, hs, Len(calls), m + 1)
  BY <1>1 DEF ValueAhead
<1>4. /\ TypeOK /\ Current = w.text[Len(pulled)] /\ Len(pulled) \in Nat \ {0} /\ Grammar(w)
      /\ StructureInv /\ ~has_error /\ Document(w)
  BY CurrentHere DEF Within, Document
<1>5. Inside(kind, w, Len(pulled) + 1, m, MaxDepth - Len(calls) - 1)
  BY <1>2, <1>3, <1>4, ValueHere
<1>6. ~has_error' /\ Len(pulled') = Len(pulled) + 1
  BY <1>1, <1>4, AdvanceHere
<1>7. calls \in Seq(Frames)
  BY <1>4 DEF TypeOK
<1>8. /\ Len(calls) \in Nat /\ Len(calls') = Len(calls) + 1 /\ calls'[Len(calls) + 1] = f
      /\ \E gs \in Seq(Nat) : EndsAt(w, calls', gs, m)
  <2>1. PICK n, p, g : n = Len(calls) /\ p = m + 1 /\ g = calls'
    OBVIOUS
  <2>2. /\ calls \in Seq(Frames) /\ Enclosing(w, calls, hs) /\ f \in Frames /\ m \in Nat
        /\ After(w, calls, hs, n, p) /\ g = Append(calls, f)
    BY <1>1, <1>2, <1>3, <1>7, <2>1
  <2>3. n = Len(calls) /\ p = m + 1
    BY <2>1
  <2>4. n \in Nat /\ Len(g) = n + 1 /\ g[n + 1] = f
    BY <2>2, <2>3, EnclosingPush
  <2>5. \E gs \in Seq(Nat) : EndsAt(w, g, gs, m)
    BY <2>2, <2>3, EnclosingPush
  <2> QED BY <2>1, <2>4, <2>5
<1>9. PICK gs \in Seq(Nat) : Enclosing(w, calls', gs) /\ gs[Len(calls')] = m
  BY <1>8 DEF EndsAt
<1>10. MaxDepth - Len(calls') = MaxDepth - Len(calls) - 1
  BY <1>8, BoundsAssumption
<1>11. Inside(calls'[Len(calls')].kind, w, Len(pulled'), gs[Len(calls')], MaxDepth - Len(calls'))
  BY <1>2, <1>5, <1>6, <1>8, <1>9, <1>10
<1>12. Outlook(w, calls', gs, Len(pulled'), pc')
  BY <1>1, <1>11 DEF Outlook
<1>13. Ahead(w, gs)'
  BY <1>9, <1>12 DEF Ahead
<1> QED BY <1>6, <1>9, <1>13

(* What is known of the innermost container.                               *)
LEMMA TopHere ==
  ASSUME NEW w, Within(w), calls # <<>>, NEW hs \in Seq(Nat), Ahead(w, hs)
  PROVE  /\ TypeOK /\ StructureInv /\ ~has_error /\ Document(w) /\ Grammar(w)
         /\ Current = w.text[Len(pulled)] /\ Len(pulled) \in Nat \ {0}
         /\ Len(calls) \in Nat \ {0} /\ Top = calls[Len(calls)] /\ Top.kind \in Kinds
         /\ hs[Len(calls)] \in Nat /\ Len(calls) = Len(hs)
         /\ Closes <=> Current.type = Bracket.close[Top.kind]
<1>1. TypeOK /\ StructureInv /\ ~has_error /\ Document(w) /\ Grammar(w) /\ Begins(pulled, w.text)
  BY DEF Within, Document
<1>2. Len(calls) \in Nat \ {0} /\ Top = calls[Len(calls)] /\ Top \in Frames
  BY <1>1, TopFrame
<1>3. Len(calls) = Len(hs)
  BY DEF Ahead, Enclosing
<1>4. hs[Len(calls)] \in Nat
  BY <1>2, <1>3, ElementOfSeq
<1>5. Top.kind \in Kinds
  BY <1>2 DEF Frames, Kinds
<1>6. Closes <=> Current.type = Bracket.close[Top.kind]
  BY <1>5 DEF Closes, InArray, InObject, Is, Bracket, Kinds
<1> QED BY <1>1, <1>2, <1>3, <1>4, <1>5, <1>6, CurrentHere

(* The bracket that closes a container is read.                            *)
LEMMA ForeseenBracket ==
  ASSUME NEW w, Within(w), TypeOK', Begins(pulled', w.text), NEW hs \in Seq(Nat), Ahead(w, hs),
         ReadClosing
  PROVE  ~has_error' /\ Ahead(w, hs)'
<1>1. /\ Advance /\ UNCHANGED calls /\ pc' \in {"empty", "closed"} /\ Closes
      /\ pc \in {"opened", "added"}
  BY DEF ReadClosing
<1>2. calls # <<>>
  BY <1>1 DEF Within, StructureInv, CallsFitPlace
<1>3. /\ TypeOK /\ StructureInv /\ ~has_error /\ Document(w) /\ Grammar(w)
      /\ Current = w.text[Len(pulled)] /\ Len(pulled) \in Nat \ {0}
      /\ Len(calls) \in Nat \ {0} /\ Top = calls[Len(calls)] /\ Top.kind \in Kinds
      /\ hs[Len(calls)] \in Nat /\ Len(calls) = Len(hs)
      /\ Closes <=> Current.type = Bracket.close[Top.kind]
  BY <1>2, TopHere
<1>4. Current.type \in {"RightSquareBracket", "RightCurlyBracket"}
  BY <1>1 DEF Closes, Is
<1>5. Len(pulled) = hs[Len(calls)]
  <2>1. CASE pc = "opened"
    <3>1. Inside(Top.kind, w, Len(pulled), hs[Len(calls)], MaxDepth - Len(calls))
      BY <1>3, <2>1 DEF Ahead, Outlook
    <3> QED BY <1>3, <1>4, <3>1, ListHere DEF Inside
  <2>2. CASE pc = "added"
    <3>1. After(w, calls, hs, Len(calls), Len(pulled))
      BY <2>2 DEF Ahead, Outlook
    <3>2. Follows(Top.kind, w, Len(pulled), hs[Len(calls)], MaxDepth - Len(calls))
      BY <1>3, <3>1 DEF After
    <3> QED BY <1>3, <1>4, <3>2 DEF Follows
  <2> QED BY <1>1, <2>1, <2>2
<1>6. ~has_error' /\ Len(pulled') = Len(pulled) + 1
  BY <1>1, <1>3, AdvanceHere
<1>7. Outlook(w, calls, hs, Len(pulled'), pc')
  BY <1>1, <1>5, <1>6 DEF Outlook
<1> QED BY <1>1, <1>6, <1>7 DEF Ahead

(* A container is closed.                                                  *)
LEMMA ForeseenClose ==
  ASSUME NEW w, Within(w), NEW hs \in Seq(Nat), Ahead(w, hs),
         EmptyArray \/ EmptyObject \/ CloseArray \/ CloseObject
  PROVE  ~has_error' /\ \E gs \in Seq(Nat) : Ahead(w, gs)'
<1>1. /\ UNCHANGED <<pulled, status>> /\ calls' = Front(calls) /\ pc' = "return" /\ calls # <<>>
      /\ pc \in {"empty", "closed"}
  BY DEF EmptyArray, EmptyObject, CloseArray, CloseObject, SealArray, SealObject, Return,
         InArray, InObject
<1>2. TypeOK /\ ~has_error /\ calls \in Seq(Frames)
  BY DEF Within, TypeOK
<1>3. Len(pulled) = hs[Len(calls)] + 1
  BY <1>1 DEF Ahead, Outlook
<1>4. /\ Front(hs) \in Seq(Nat) /\ Enclosing(w, calls', Front(hs))
      /\ After(w, calls', Front(hs), Len(calls'), Len(pulled))
  <2>1. Enclosing(w, calls, hs)
    BY DEF Ahead
  <2> QED BY <1>1, <1>2, <1>3, <2>1, EnclosingPop
<1>5. Outlook(w, calls', Front(hs), Len(pulled), pc')
  BY <1>1, <1>4 DEF Outlook
<1>6. Ahead(w, Front(hs))'
  BY <1>1, <1>4, <1>5 DEF Ahead
<1> QED BY <1>1, <1>2, <1>4, <1>6 DEF has_error

(* The list of the innermost container and its first tokens.               *)
LEMMA ItemHere ==
  ASSUME NEW w, Within(w), calls # <<>>, NEW hs \in Seq(Nat), Ahead(w, hs),
         ListAhead(w, calls, hs, Len(pulled))
  PROVE  /\ ~Closes /\ Len(calls) <= MaxDepth
         /\ InArray => ValueAhead(w, calls, hs, Len(pulled))
         /\ InObject => /\ Is("String") /\ Decoded(Current.value) # Malformed
                        /\ w.text[Len(pulled) + 1].type = "Colon"
                        /\ ValueAhead(w, calls, hs, Len(pulled) + 2)
<1>1. /\ TypeOK /\ StructureInv /\ ~has_error /\ Document(w) /\ Grammar(w)
      /\ Current = w.text[Len(pulled)] /\ Len(pulled) \in Nat \ {0}
      /\ Len(calls) \in Nat \ {0} /\ Top = calls[Len(calls)] /\ Top.kind \in Kinds
      /\ hs[Len(calls)] \in Nat /\ Len(calls) = Len(hs)
      /\ Closes <=> Current.type = Bracket.close[Top.kind]
  BY TopHere
<1>2. PICK kind, h, b, c : kind = Top.kind /\ h = hs[Len(calls)] /\ b = MaxDepth - Len(calls) /\ c = Len(pulled)
  OBVIOUS
<1>3. /\ w.text[h].type = Bracket.close[kind] /\ Listed(kind, w, c, h, b)
      /\ kind \in Kinds /\ h \in Nat
  BY <1>1, <1>2 DEF ListAhead
<1>4. /\ c \in Nat /\ b \in Nat
      /\ w.text[c].type \notin {"RightSquareBracket", "RightCurlyBracket"}
      /\ kind = "Array" => ItemAhead(kind, w, c, h, b)
      /\ kind = "Object" =>
           /\ w.text[c].type = "String" /\ Decoded(w.text[c].value) # Malformed
           /\ w.text[c + 1].type = "Colon" /\ ItemAhead(kind, w, c + 2, h, b)
  BY <1>1, <1>3, ListHere
<1>5. ~Closes
  BY <1>1, <1>2, <1>4 DEF Closes, Is
<1>6. Len(calls) <= MaxDepth
  BY <1>1, <1>2, <1>4, BoundsAssumption
<1>7. \A p : ItemAhead(kind, w, p, h, b) => ValueAhead(w, calls, hs, p)
  <2> SUFFICES ASSUME NEW p, ItemAhead(kind, w, p, h, b) PROVE ValueAhead(w, calls, hs, p)
    OBVIOUS
  <2>1. PICK m \in Nat : Spelled(w.table.values, w, p, m, b) /\ Follows(kind, w, m + 1, h, b)
    BY DEF ItemAhead
  <2>2. After(w, calls, hs, Len(calls), m + 1)
    BY <1>1, <1>2, <2>1 DEF After
  <2> QED BY <1>2, <2>1, <2>2 DEF ValueAhead
<1> QED BY <1>1, <1>2, <1>4, <1>5, <1>6, <1>7 DEF InArray, InObject, Is

(* The loop of a container that is not empty is entered, and gone on with. *)
LEMMA ForeseenLoop ==
  ASSUME NEW w, Within(w), TypeOK', Begins(pulled', w.text), NEW hs \in Seq(Nat), Ahead(w, hs),
         EnterLoop \/ AfterComma
  PROVE  ~has_error' /\ Ahead(w, hs)'
<1>1. pc \in {"opened", "comma"} /\ UNCHANGED calls
  BY DEF EnterLoop, EnterLoopWithLimit, AfterComma
<1>2. calls # <<>>
  BY <1>1 DEF Within, StructureInv, CallsFitPlace
<1>3. /\ TypeOK /\ StructureInv /\ ~has_error /\ Document(w) /\ Grammar(w)
      /\ Current = w.text[Len(pulled)] /\ Len(pulled) \in Nat \ {0}
      /\ Len(calls) \in Nat \ {0} /\ Top = calls[Len(calls)] /\ Top.kind \in Kinds
      /\ hs[Len(calls)] \in Nat /\ Len(calls) = Len(hs)
      /\ Closes <=> Current.type = Bracket.close[Top.kind]
  BY <1>2, TopHere
<1>4. ListAhead(w, calls, hs, Len(pulled))
  <2>1. CASE pc = "opened"
    <3>1. Inside(Top.kind, w, Len(pulled), hs[Len(calls)], MaxDepth - Len(calls))
      BY <1>3, <2>1 DEF Ahead, Outlook
    <3>2. ~Closes
      BY <2>1 DEF EnterLoop, EnterLoopWithLimit, AfterComma
    <3> QED BY <1>3, <3>1, <3>2 DEF Inside, ListAhead
  <2>2. CASE pc = "comma"
    BY <2>2 DEF Ahead, Outlook
  <2> QED BY <1>1, <2>1, <2>2
<1>5. /\ ~Closes /\ Len(calls) <= MaxDepth
      /\ InArray => ValueAhead(w, calls, hs, Len(pulled))
  BY <1>2, <1>4, ItemHere
<1>6. UNCHANGED <<pulled, status>> /\ pc' = IF InArray THEN "value" ELSE "key"
  <2>1. CASE EnterLoop
    <3>1. depth = Len(calls) - 1
      BY <1>3, <2>1 DEF EnterLoop, EnterLoopWithLimit, StructureInv, DepthCountsCalls,
                        Unwinding, Uncounted
    <3>2. ~(depth + 1 > MaxDepth)
      BY <1>3, <1>5, <3>1, BoundsAssumption
    <3> QED BY <2>1, <3>2 DEF EnterLoop, EnterLoopWithLimit
  <2>2. CASE AfterComma
    BY <1>5, <2>2 DEF AfterComma
  <2> QED BY <2>1, <2>2
<1>7. Outlook(w, calls, hs, Len(pulled), pc')
  BY <1>4, <1>5, <1>6 DEF Outlook
<1> QED BY <1>1, <1>3, <1>6, <1>7 DEF Ahead, has_error

(* A key is read.                                                          *)
LEMMA ForeseenKey ==
  ASSUME NEW w, Within(w), TypeOK', Begins(pulled', w.text), NEW hs \in Seq(Nat), Ahead(w, hs),
         ReadKey
  PROVE  ~has_error' /\ Ahead(w, hs)'
<1>1. /\ pc = "key" /\ pc' = "colon" /\ Advance
      /\ \E key : calls' = [calls EXCEPT ![Len(calls)].key = key]
  BY DEF ReadKey
<1>2. PICK key : calls' = [calls EXCEPT ![Len(calls)].key = key]
  BY <1>1
<1>3. calls # <<>> /\ InObject
  BY <1>1 DEF Within, StructureInv, CallsFitPlace
<1>4. /\ TypeOK /\ StructureInv /\ ~has_error /\ Document(w) /\ Grammar(w)
      /\ Current = w.text[Len(pulled)] /\ Len(pulled) \in Nat \ {0}
      /\ Len(calls) \in Nat \ {0} /\ Top = calls[Len(calls)] /\ Top.kind \in Kinds
      /\ hs[Len(calls)] \in Nat /\ Len(calls) = Len(hs)
      /\ Closes <=> Current.type = Bracket.close[Top.kind]
  BY <1>3, TopHere
<1>5. ListAhead(w, calls, hs, Len(pulled))
  BY <1>1 DEF Ahead, Outlook
<1>6. /\ w.text[Len(pulled) + 1].type = "Colon"
      /\ ValueAhead(w, calls, hs, Len(pulled) + 2)
  BY <1>3, <1>5, ItemHere
<1>7. ~has_error' /\ Len(pulled') = Len(pulled) + 1
  BY <1>1, <1>4, AdvanceHere
<1>8. Len(calls') = Len(calls) /\ \A k \in 1..Len(calls) : calls'[k].kind = calls[k].kind
  <2>1. calls \in Seq(Frames)
    BY <1>4 DEF TypeOK
  <2>2. DOMAIN calls = 1..Len(calls) /\ \A k \in 1..Len(calls) : calls[k] \in Frames
    BY <2>1, ElementOfSeq, LenProperties
  <2>3. calls' \in Seq(Frames) /\ DOMAIN calls' = DOMAIN calls
    BY <1>2 DEF TypeOK
  <2>4. Len(calls') = Len(calls)
    BY <2>1, <2>3, LenProperties
  <2>5. \A k \in 1..Len(calls) : calls'[k].kind = calls[k].kind
    BY <1>2, <2>2 DEF Frames
  <2> QED BY <2>4, <2>5
<1>9. /\ Enclosing(w, calls', hs) /\ ValueAhead(w, calls', hs, Len(pulled) + 2)
  BY <1>4, <1>6, <1>8, SameKinds DEF Ahead
<1>10. Len(pulled') + 1 = Len(pulled) + 2
  BY <1>4, <1>7
<1>11. Outlook(w, calls', hs, Len(pulled'), pc')
  BY <1>1, <1>6, <1>7, <1>9, <1>10 DEF Outlook
<1> QED BY <1>7, <1>9, <1>11 DEF Ahead

(* The colon of a member.                                                  *)
LEMMA ForeseenColon ==
  ASSUME NEW w, Within(w), TypeOK', Begins(pulled', w.text), NEW hs \in Seq(Nat), Ahead(w, hs),
         ReadColon
  PROVE  ~has_error' /\ Ahead(w, hs)'
<1>1. pc = "colon" /\ UNCHANGED calls
  BY DEF ReadColon
<1>2. /\ TypeOK /\ StructureInv /\ ~has_error /\ Document(w)
      /\ Current = w.text[Len(pulled)] /\ Len(pulled) \in Nat \ {0}
  BY CurrentHere DEF Within
<1>3. w.text[Len(pulled)].type = "Colon" /\ ValueAhead(w, calls, hs, Len(pulled) + 1)
  BY <1>1 DEF Ahead, Outlook
<1>4. Advance /\ pc' = "value"
  BY <1>2, <1>3 DEF ReadColon, Is
<1>5. ~has_error' /\ Len(pulled') = Len(pulled) + 1
  BY <1>2, <1>4, AdvanceHere
<1>6. Outlook(w, calls, hs, Len(pulled'), pc')
  BY <1>3, <1>4, <1>5 DEF Outlook
<1> QED BY <1>1, <1>5, <1>6 DEF Ahead

(* The comma between two items.                                            *)
LEMMA ForeseenComma ==
  ASSUME NEW w, Within(w), TypeOK', Begins(pulled', w.text), NEW hs \in Seq(Nat), Ahead(w, hs),
         ReadComma
  PROVE  ~has_error' /\ Ahead(w, hs)'
<1>1. pc = "added" /\ UNCHANGED calls /\ Advance /\ pc' = "comma" /\ Is("Comma")
  BY DEF ReadComma
<1>2. calls # <<>>
  BY <1>1 DEF Within, StructureInv, CallsFitPlace
<1>3. /\ TypeOK /\ StructureInv /\ ~has_error /\ Document(w) /\ Grammar(w)
      /\ Current = w.text[Len(pulled)] /\ Len(pulled) \in Nat \ {0}
      /\ Len(calls) \in Nat \ {0} /\ Top = calls[Len(calls)] /\ Top.kind \in Kinds
      /\ hs[Len(calls)] \in Nat /\ Len(calls) = Len(hs)
      /\ Closes <=> Current.type = Bracket.close[Top.kind]
  BY <1>2, TopHere
<1>4. Follows(Top.kind, w, Len(pulled), hs[Len(calls)], MaxDepth - Len(calls))
  <2>1. After(w, calls, hs, Len(calls), Len(pulled))
    BY <1>1 DEF Ahead, Outlook
  <2> QED BY <1>3, <2>1 DEF After
<1>5. Len(pulled) # hs[Len(calls)]
  BY <1>1, <1>3, <1>4 DEF Follows, Is, Bracket, Kinds
<1>6. ~has_error' /\ Len(pulled') = Len(pulled) + 1
  BY <1>1, <1>3, AdvanceHere
<1>7. ListAhead(w, calls, hs, Len(pulled'))
  BY <1>3, <1>4, <1>5, <1>6 DEF Follows, ListAhead
<1>8. Outlook(w, calls, hs, Len(pulled'), pc')
  BY <1>1, <1>7 DEF Outlook
<1> QED BY <1>1, <1>6, <1>8 DEF Ahead

(* No token of a document is refused.                                      *)
LEMMA NothingRefused ==
  ASSUME NEW w, Within(w), TypeOK', Begins(pulled', w.text), NEW hs \in Seq(Nat), Ahead(w, hs)
  PROVE  ~RejectStart /\ ~RejectValue /\ ~RejectKey /\ ~MissingComma /\ ~Unwind
<1>1. /\ TypeOK /\ StructureInv /\ ~has_error /\ Document(w) /\ Grammar(w)
      /\ Current = w.text[Len(pulled)] /\ Len(pulled) \in Nat \ {0}
  BY CurrentHere DEF Within, Document
<1>2. pc \in {"parse", "value"} => Current.type \in ValueTokens
  <2> SUFFICES ASSUME pc \in {"parse", "value"} PROVE Current.type \in ValueTokens
    OBVIOUS
  <2>1. PICK m \in Nat : Spelled(w.table.values, w, Len(pulled), m, MaxDepth - Len(calls))
    BY DEF Ahead, Outlook, ValueAhead
  <2> QED BY <1>1, <2>1, ValueHere
<1>3. ~RejectStart /\ ~RejectValue
  BY <1>1, <1>2 DEF RejectStart, RejectValue, Is, ValueTokens
<1>4. ~RejectKey
  <2> SUFFICES ASSUME RejectKey PROVE FALSE
    OBVIOUS
  <2>1. pc = "key"
    BY DEF RejectKey
  <2>2. calls # <<>> /\ InObject
    BY <1>1, <2>1 DEF StructureInv, CallsFitPlace
  <2>3. ListAhead(w, calls, hs, Len(pulled))
    BY <2>1 DEF Ahead, Outlook
  <2>4. Is("String") /\ Decoded(Current.value) # Malformed
    BY <2>2, <2>3, ItemHere
  <2> QED BY <2>4 DEF RejectKey
<1>5. ~MissingComma
  <2> SUFFICES ASSUME MissingComma PROVE FALSE
    OBVIOUS
  <2>1. pc = "added"
    BY DEF MissingComma
  <2>2. calls # <<>>
    BY <1>1, <2>1 DEF StructureInv, CallsFitPlace
  <2>3. /\ Current = w.text[Len(pulled)] /\ Len(calls) \in Nat \ {0} /\ Top = calls[Len(calls)]
        /\ Closes <=> Current.type = Bracket.close[Top.kind]
    BY <2>2, TopHere
  <2>4. Follows(Top.kind, w, Len(pulled), hs[Len(calls)], MaxDepth - Len(calls))
    <3>1. After(w, calls, hs, Len(calls), Len(pulled))
      BY <2>1 DEF Ahead, Outlook
    <3> QED BY <2>3, <3>1 DEF After
  <2> QED BY <2>3, <2>4 DEF MissingComma, Follows, Is
<1>6. ~Unwind
  BY <1>1 DEF Unwind
<1> QED BY <1>3, <1>4, <1>5, <1>6

(* Steps that read nothing.                                                *)
LEMMA ForeseenQuiet ==
  ASSUME NEW w, Within(w), TypeOK', NEW hs \in Seq(Nat), Ahead(w, hs),
         BuildRoot \/ AddElement \/ AddMember \/ SetRoot \/ Done \/ UNCHANGED vars
  PROVE  ~has_error' /\ Ahead(w, hs)'
<1>1. /\ TypeOK /\ StructureInv /\ ~has_error /\ Document(w)
      /\ Current = w.text[Len(pulled)] /\ Len(pulled) \in Nat \ {0}
  BY CurrentHere DEF Within
<1>2. CASE BuildRoot
  BY <1>1, <1>2 DEF BuildRoot, Ahead, Outlook, has_error
<1>3. CASE AddElement \/ AddMember
  BY <1>1, <1>3 DEF AddElement, AddMember, Ahead, Outlook, has_error
<1>4. CASE SetRoot
  <2>1. /\ pc = "return" /\ pc' = "done" /\ calls = <<>> /\ UNCHANGED <<pulled, calls>>
        /\ status' = IF Is("EndOfFile") THEN status ELSE "InvalidValue"
    BY <1>4 DEF SetRoot
  <2>2. Len(calls) = 0
    BY <2>1, EmptySeq
  <2>3. Len(pulled) = Len(w.text)
    BY <2>1, <2>2 DEF Ahead, Outlook, After
  <2>4. ~has_error'
    BY <1>1, <2>1, <2>3 DEF Document, Is, has_error
  <2>5. Outlook(w, calls', hs, Len(pulled'), pc')
    BY <2>1 DEF Outlook
  <2> QED BY <2>1, <2>4, <2>5 DEF Ahead
<1>5. CASE Done \/ UNCHANGED vars
  BY <1>1, <1>5 DEF Done, vars, Ahead, has_error
<1> QED BY <1>2, <1>3, <1>4, <1>5

(* Reading and returning keep what has been read.                          *)
LEMMA TextGrows ==
  ASSUME [Next]_vars
  PROVE  pulled' = pulled \/ \E t : pulled' = Append(pulled, t)
<1>1. Advance => \E t : pulled' = Append(pulled, t)
  BY DEF Advance, Pull
<1> USE DEF Keep, Fail
<1>2. CASE RejectStart \/ BuildRoot \/ RejectValue \/ RejectKey \/ Unwind \/ SetRoot \/ AddElement
           \/ AddMember \/ AfterComma \/ MissingComma \/ EnterLoop \/ Done \/ UNCHANGED vars
           \/ EmptyArray \/ EmptyObject \/ CloseArray \/ CloseObject
  BY <1>2 DEF RejectStart, BuildRoot, RejectValue, RejectKey, Unwind, SetRoot, AddElement,
              AddMember, AfterComma, MissingComma, EnterLoop, EnterLoopWithLimit, Done, vars,
              EmptyArray, EmptyObject, CloseArray, CloseObject
<1>3. CASE BuildNull \/ BuildBoolean \/ BuildInteger \/ BuildDouble \/ BuildString
           \/ OpenArray \/ OpenObject \/ ReadClosing \/ ReadKey \/ ReadColon \/ ReadComma
  BY <1>1, <1>3 DEF BuildNull, BuildBoolean, BuildInteger, BuildDouble, BuildString,
                    OpenArray, OpenObject, Open, ReadClosing, ReadKey, ReadColon, ReadComma
<1> QED BY <1>2, <1>3 DEF Next

(* A document that has begun is read on to its end.                        *)
LEMMA ForeseenStep ==
  ASSUME TypeOK, TypeOK', StructureInv, [Next]_vars, NEW w, Document(w), Foreseen(w)
  PROVE  Foreseen(w)'
<1> SUFFICES ASSUME Begins(pulled', w.text) PROVE ~has_error' /\ \E gs \in Seq(Nat) : Ahead(w, gs)'
  BY DEF Foreseen
<1>1. Begins(pulled, w.text)
  BY TextGrows, BeginsBefore
<1>2. Within(w)
  BY <1>1 DEF Within, Foreseen
<1>3. PICK hs \in Seq(Nat) : Ahead(w, hs)
  BY <1>1 DEF Foreseen
<1>4. ~RejectStart /\ ~RejectValue /\ ~RejectKey /\ ~MissingComma /\ ~Unwind
  BY <1>2, <1>3, NothingRefused
<1>5. CASE OpenArray \/ OpenObject
  BY <1>2, <1>3, <1>5, ForeseenOpen
<1>6. CASE EmptyArray \/ EmptyObject \/ CloseArray \/ CloseObject
  BY <1>2, <1>3, <1>6, ForeseenClose
<1>7. CASE BuildNull \/ BuildBoolean \/ BuildInteger \/ BuildDouble \/ BuildString
  BY <1>2, <1>3, <1>7, ForeseenScalar
<1>8. CASE EnterLoop \/ AfterComma
  BY <1>2, <1>3, <1>8, ForeseenLoop
<1>9. CASE ReadKey
  BY <1>2, <1>3, <1>9, ForeseenKey
<1>10. CASE ReadColon
  BY <1>2, <1>3, <1>10, ForeseenColon
<1>11. CASE ReadComma
  BY <1>2, <1>3, <1>11, ForeseenComma
<1>12. CASE BuildRoot \/ AddElement \/ AddMember \/ SetRoot \/ Done \/ UNCHANGED vars
  BY <1>2, <1>3, <1>12, ForeseenQuiet
<1>13. CASE ReadClosing
  BY <1>2, <1>3, <1>13, ForeseenBracket
<1> QED
  BY <1>4, <1>5, <1>6, <1>7, <1>8, <1>9, <1>10, <1>11, <1>12, <1>13 DEF Next

(* No document of the grammar meets an error, at any moment.               *)
DocumentsForeseen == \A w : Document(w) => Foreseen(w)

(* It holds of the parser: no step refuses what a document goes on with.   *)
LEMMA DocumentsForeseenSafe == Spec => []DocumentsForeseen
<1>1. TypeOK /\ Init => DocumentsForeseen
  BY ForeseenInit DEF DocumentsForeseen
<1>2. TypeOK /\ TypeOK' /\ StructureInv /\ [Next]_vars /\ DocumentsForeseen => DocumentsForeseen'
  <2> SUFFICES ASSUME TypeOK, TypeOK', StructureInv, [Next]_vars, DocumentsForeseen,
                      NEW w, Document(w)
               PROVE  Foreseen(w)'
    BY DEF DocumentsForeseen
  <2>1. Foreseen(w)
    BY DEF DocumentsForeseen
  <2> QED BY <2>1, ForeseenStep
<1> QED
  BY <1>1, <1>2, StructureSafe, PTL DEF Spec

(* The documents of the samples are documents of the grammar.              *)
LEMMA SampleDocument ==
  ASSUME NEW e \in Documents
  PROVE  \E w : Document(w) /\ w.text = e.text
<1>1. PICK s \in Samples : e \in {[text |-> v.text \o Tok("EndOfFile"), tree |-> v.tree] :
            v \in {u \in UNION ToSet(Derivations(s.tokens, s.length).values) :
                     u.nesting <= MaxDepth}}
  BY DEF Documents
<1>2. PICK tokens, size, d : tokens = s.tokens /\ size = s.length /\ d = Derivations(tokens, size)
  OBVIOUS
<1>3. tokens \subseteq Tokens /\ size \in Nat \ {0}
  BY <1>2, SamplesAssumption, SourceAssumption, BoundsAssumption
<1>4. PICK v \in UNION ToSet(d.values) :
        v.nesting <= MaxDepth /\ e.text = v.text \o Tok("EndOfFile")
  BY <1>1, <1>2
<1>5. Derived(tokens, d, size) /\ DOMAIN d.values = 1..size
  BY <1>2, <1>3, DerivationsDerived
<1>6. PICK n \in 1..size : v \in d.values[n]
  BY <1>4, <1>5 DEF ToSet
<1>7. Sized(v, n)
  <2>1. SizedAt(d, n)
    BY <1>3, <1>5, DerivedSized
  <2> QED BY <1>6, <2>1 DEF SizedAt, AllSized
<1>8. PICK q, t : q = v.text /\ t = e.text
  OBVIOUS
<1>9. q \in Seq(Readable) /\ Len(q) = n /\ t = q \o Tok("EndOfFile")
  BY <1>4, <1>7, <1>8 DEF Sized
<1>10. Tok("EndOfFile") \in Seq(Readable) /\ Len(Tok("EndOfFile")) = 1 /\ Tok("EndOfFile")[1].type = "EndOfFile"
  BY TokSized
<1>11. /\ t \in Seq(Readable) /\ Len(t) = n + 1
       /\ \A i \in 1..(n + 1) : t[i] = IF i <= n THEN q[i] ELSE Tok("EndOfFile")[i - n]
  <2>1. PICK z : z = Tok("EndOfFile")
    OBVIOUS
  <2>2. q \in Seq(Readable) /\ Len(q) = n /\ z \in Seq(Readable) /\ Len(z) = 1 /\ t = q \o z
    BY <1>9, <1>10, <2>1
  <2>3. /\ q \o z \in Seq(Readable) /\ Len(q \o z) = Len(q) + Len(z)
        /\ \A i \in 1..(Len(q) + Len(z)) : (q \o z)[i] = IF i <= Len(q) THEN q[i] ELSE z[i - Len(q)]
    BY <2>2, ConcatProperties
  <2> QED BY <2>1, <2>2, <2>3
<1>12. /\ t[n + 1].type = "EndOfFile" /\ \A i \in 1..n : t[i] = q[i]
  <2>1. n + 1 \in 1..(n + 1) /\ ~(n + 1 <= n) /\ (n + 1) - n = 1
    OBVIOUS
  <2>2. t[n + 1] = Tok("EndOfFile")[(n + 1) - n]
    BY <1>11, <2>1
  <2> QED BY <1>10, <1>11, <2>1, <2>2
<1> DEFINE w == [text |-> t, tokens |-> tokens, size |-> size, table |-> d]
<1>13. w.text = t /\ w.tokens = tokens /\ w.size = size /\ w.table = d
  OBVIOUS
<1> HIDE DEF w
<1>14. Grammar(w)
  BY <1>3, <1>5, <1>13 DEF Grammar
<1>15. Spelled(w.table.values, w, 1, Len(w.text) - 1, MaxDepth)
  <2>1. Spells(v, w, 1, MaxDepth)
    <3>1. \A i \in 1..n : 1 + i - 1 = i
      OBVIOUS
    <3> QED BY <1>4, <1>8, <1>9, <1>12, <1>13, <3>1 DEF Spells, StandsAt
  <2>2. Len(w.text) - 1 = n /\ n - 1 + 1 = n /\ n \in Nat
    BY <1>11, <1>13
  <2> QED BY <1>6, <1>13, <2>1, <2>2, BoundsAssumption DEF Spelled
<1>16. Document(w)
  BY <1>11, <1>12, <1>13, <1>14, <1>15 DEF Document
<1> QED BY <1>8, <1>13, <1>16

(* What the parser rejects is no beginning of a document of the grammar.   *)
LEMMA RejectedNoDocument ==
  ASSUME TypeOK, DocumentsForeseen, has_error
  PROVE  pulled \notin DocumentPrefixes
<1> SUFFICES ASSUME pulled \in DocumentPrefixes PROVE FALSE
  OBVIOUS
<1>1. PICK e \in Documents : pulled \in Prefixes(e.text)
  BY DEF DocumentPrefixes
<1>2. PICK w : Document(w) /\ w.text = e.text
  BY SampleDocument
<1>3. PICK l \in 0..Len(w.text) : pulled = SubSeq(w.text, 1, l)
  BY <1>1, <1>2 DEF Prefixes
<1>4. w.text \in Seq(Readable) /\ Len(w.text) \in Nat
  BY <1>2, LenProperties DEF Document
<1>5. Len(pulled) = l /\ \A i \in 1..l : pulled[i] = w.text[i]
  <2>1. CutBack(w.text, l) = pulled
    BY <1>3 DEF CutBack
  <2> QED BY <1>4, <2>1, CutBackFacts
<1>6. Begins(pulled, w.text)
  BY <1>4, <1>5 DEF Begins
<1> QED BY <1>2, <1>6 DEF DocumentsForeseen, Foreseen

(* The tokens read up to a rejection begin no document: the parser never   *)
(* refuses a document of the grammar of at most kMaxDepth levels, nor      *)
(* stops within one, whatever its tokens and however long it is.           *)
THEOREM RejectedUnderivable == Spec => []RejectedIsUnderivable
<1>1. TypeOK /\ DocumentsForeseen => RejectedIsUnderivable
  BY RejectedNoDocument DEF RejectedIsUnderivable
<1> QED BY <1>1, StructureSafe, DocumentsForeseenSafe, PTL

-----------------------------------------------------------------------------
(***************************************************************************)
(* What dump() writes is, but for layout, what the parser has read.        *)
(***************************************************************************)

(* What a token adds to a text without layout.                             *)
Kept(q, a) == IF a.type \in Layout THEN q ELSE Append(q, a)

(* The recursion of Unlaid is well defined.                                *)
LEMMA UnlaidIs ==
  ASSUME NEW t, NEW m \in Nat, m = Len(t)
  PROVE  \E f : /\ Unlaid(t) = f[m] /\ f[0] = <<>>
                /\ \A n \in 1..m : f[n] = Kept(f[n - 1], t[n])
<1> DEFINE Good(g, k) == g[0] = <<>> /\ \A n \in 1..k : g[n] = Kept(g[n - 1], t[n])
           S == {k \in 0..m : \E g : Good(g, k)}
<1>1. 0 \in S
  <2> DEFINE g == [n \in 0..0 |-> <<>>]
  <2>1. Good(g, 0)
    OBVIOUS
  <2> HIDE DEF g, Good
  <2> QED BY <2>1
<1>2. ASSUME NEW k \in 0..m, k \in S, k < m PROVE k + 1 \in S
  <2>1. PICK g : Good(g, k)
    BY <1>2
  <2> DEFINE h == [n \in 0..(k + 1) |-> IF n <= k THEN g[n] ELSE Kept(g[n - 1], t[n])]
  <2>2. Good(h, k + 1)
    <3>1. h[0] = <<>>
      BY <2>1
    <3>2. ASSUME NEW n \in 1..(k + 1) PROVE h[n] = Kept(h[n - 1], t[n])
      <4>1. h[n - 1] = g[n - 1]
        OBVIOUS
      <4>2. CASE n <= k
        BY <2>1, <4>1, <4>2
      <4>3. CASE ~(n <= k)
        <5>1. h[n] = Kept(g[n - 1], t[n])
          BY <4>3
        <5> HIDE DEF h
        <5> QED BY <4>1, <5>1
      <4> QED BY <4>2, <4>3
    <3> HIDE DEF h
    <3> QED BY <3>1, <3>2
  <2> HIDE DEF h, Good
  <2> QED BY <1>2, <2>2
<1>3. m \in S
  <2> HIDE DEF S
  <2> QED BY <1>1, <1>2, UpTo
<1>4. PICK g : Good(g, m)
  BY <1>3
<1> DEFINE f == [n \in 0..m |-> g[n]]
           Turn(x, n) == IF n = 0 THEN <<>>
                         ELSE IF t[n].type \in Layout THEN x[n - 1]
                         ELSE Append(x[n - 1], t[n])
<1>5. f = [n \in 0..m |-> Turn(f, n)]
  <2>1. ASSUME NEW n \in 0..m PROVE f[n] = Turn(f, n)
    <3>1. n # 0 => f[n - 1] = g[n - 1]
      OBVIOUS
    <3>2. f[n] = g[n]
      OBVIOUS
    <3>3. n # 0 => g[n] = Kept(g[n - 1], t[n])
      BY <1>4
    <3>4. g[0] = <<>>
      BY <1>4
    <3> HIDE DEF f
    <3> QED BY <3>1, <3>2, <3>3, <3>4 DEF Kept
  <2> HIDE DEF Turn
  <2> QED BY <2>1
<1>6. \E x : x = [n \in 0..m |-> Turn(x, n)]
  <2> HIDE DEF f, Turn
  <2> QED BY <1>5
<1> DEFINE c == CHOOSE x : x = [n \in 0..m |-> Turn(x, n)]
<1>7. Unlaid(t) = c[m]
  BY DEF Unlaid
<1>8. c = [n \in 0..m |-> Turn(c, n)]
  <2> HIDE DEF Turn
  <2> QED BY <1>6
<1> HIDE DEF c
<1>9. c[0] = <<>>
  BY <1>8
<1>10. ASSUME NEW n \in 1..m PROVE c[n] = Kept(c[n - 1], t[n])
  <2>1. n \in 0..m /\ n # 0
    OBVIOUS
  <2>2. c[n] = Turn(c, n)
    <3> HIDE DEF Turn
    <3> QED BY <1>8, <2>1
  <2> QED BY <2>1, <2>2 DEF Kept
<1> QED BY <1>7, <1>9, <1>10

(* One token more.                                                         *)
LEMMA UnlaidAppend ==
  ASSUME NEW S, NEW t \in Seq(S), NEW a \in S
  PROVE  Unlaid(Append(t, a)) = Kept(Unlaid(t), a)
<1> DEFINE m == Len(t)
           u == Append(t, a)
<1>1. m \in Nat /\ Len(u) = m + 1 /\ u[m + 1] = a /\ \A n \in 1..m : u[n] = t[n]
  BY AppendProperties, LenProperties
<1> HIDE DEF m, u
<1>2. PICK f : Unlaid(t) = f[m] /\ f[0] = <<>> /\ \A n \in 1..m : f[n] = Kept(f[n - 1], t[n])
  BY <1>1, UnlaidIs DEF m
<1>3. PICK g : /\ Unlaid(u) = g[m + 1] /\ g[0] = <<>>
               /\ \A n \in 1..(m + 1) : g[n] = Kept(g[n - 1], u[n])
  <2>1. m + 1 \in Nat /\ m + 1 = Len(u)
    BY <1>1
  <2> QED BY <2>1, UnlaidIs
<1>4. g[m] = f[m]
  <2> DEFINE Same == {n \in 0..m : g[n] = f[n]}
  <2>1. 0 \in Same
    BY <1>1, <1>2, <1>3
  <2>2. ASSUME NEW n \in 0..m, n \in Same, n < m PROVE n + 1 \in Same
    <3>1. n + 1 \in 1..m /\ n + 1 \in 1..(m + 1) /\ (n + 1) - 1 = n /\ n + 1 \in 0..m
      BY <1>1, <2>2
    <3>2. g[n + 1] = Kept(g[n], u[n + 1]) /\ f[n + 1] = Kept(f[n], t[n + 1]) /\ u[n + 1] = t[n + 1]
      BY <1>1, <1>2, <1>3, <3>1
    <3>3. g[n + 1] = f[n + 1]
      BY <2>2, <3>2
    <3> QED BY <3>1, <3>3
  <2>3. m \in 0..m
    BY <1>1
  <2> HIDE DEF Same
  <2>4. m \in Same
    BY <1>1, <2>1, <2>2, <2>3, UpTo
  <2> QED BY <2>4 DEF Same
<1>5. g[m + 1] = Kept(g[m], a)
  <2>1. m + 1 \in 1..(m + 1) /\ (m + 1) - 1 = m
    BY <1>1
  <2> QED BY <1>1, <1>3, <2>1
<1> QED BY <1>2, <1>3, <1>4, <1>5 DEF u

(* Nothing.                                                                *)
LEMMA UnlaidEmpty == Unlaid(<<>>) = <<>>
<1>1. Len(<<>>) = 0 /\ 0 \in Nat
  BY EmptySeq
<1> QED BY <1>1, UnlaidIs

(* The text t is, but for layout, what is read of the first p tokens.      *)
Copied(t, p, w) ==
  /\ t \in Seq(OutTokens) /\ p \in 0..Len(w.text)
  /\ Unlaid(t) = [i \in 1..p |-> Respelt(w.text[i])]

(* The next token is written.                                              *)
LEMMA TokenCopied ==
  ASSUME NEW w, Len(w.text) \in Nat, NEW t, NEW p, Copied(t, p, w), p < Len(w.text),
         NEW a \in OutTokens, a.type \notin Layout, a = Respelt(w.text[p + 1])
  PROVE  Copied(t \o <<a>>, p + 1, w)
<1>1. t \in Seq(OutTokens) /\ p \in Nat /\ p + 1 \in 0..Len(w.text)
  BY DEF Copied
<1>2. t \o <<a>> = Append(t, a) /\ Append(t, a) \in Seq(OutTokens)
  BY <1>1, AppendIsConcat, AppendProperties
<1> DEFINE R == {Respelt(w.text[i]) : i \in 1..(p + 1)}
           r == [i \in 1..p |-> Respelt(w.text[i])]
           s == [i \in 1..(p + 1) |-> Respelt(w.text[i])]
<1>3. r \in Seq(R) /\ Len(r) = p /\ s \in Seq(R) /\ Len(s) = p + 1
  <2>1. \A i \in 1..p : i \in 1..(p + 1)
    BY <1>1
  <2>2. r \in [1..p -> R] /\ s \in [1..(p + 1) -> R]
    BY <2>1
  <2> HIDE DEF r, s, R
  <2> QED BY <1>1, <2>2
<1>4. Append(r, a) = s
  <2>1. p + 1 \in 1..(p + 1)
    BY <1>1
  <2>2. a \in R /\ s[p + 1] = a
    BY <2>1
  <2>3. \A i \in 1..p : r[i] = s[i]
    BY <1>1
  <2> HIDE DEF r, s, R
  <2>4. /\ Append(r, a) \in Seq(R) /\ Len(Append(r, a)) = p + 1 /\ Append(r, a)[p + 1] = a
        /\ \A i \in 1..p : Append(r, a)[i] = r[i]
    BY <1>3, <2>2, AppendProperties
  <2>5. \A i \in 1..(p + 1) : i \in 1..p \/ i = p + 1
    BY <1>1
  <2>6. \A i \in 1..(p + 1) : Append(r, a)[i] = s[i]
    BY <2>2, <2>3, <2>4, <2>5
  <2> QED BY <1>3, <2>4, <2>6, SeqEqual
<1>5. Unlaid(Append(t, a)) = Append(Unlaid(t), a)
  BY <1>1, UnlaidAppend DEF Kept
<1>6. Unlaid(t) = r
  BY DEF Copied
<1> QED BY <1>1, <1>2, <1>4, <1>5, <1>6 DEF Copied

(* Layout is written.                                                      *)
LEMMA LayoutCopied ==
  ASSUME NEW w, NEW t, NEW p, Copied(t, p, w), NEW a \in OutTokens, a.type \in Layout
  PROVE  Copied(t \o <<a>>, p, w)
<1>1. t \in Seq(OutTokens)
  BY DEF Copied
<1>2. t \o <<a>> = Append(t, a) /\ Append(t, a) \in Seq(OutTokens)
  BY <1>1, AppendIsConcat, AppendProperties
<1>3. Unlaid(Append(t, a)) = Unlaid(t)
  BY <1>1, UnlaidAppend DEF Kept
<1> QED BY <1>2, <1>3 DEF Copied

-----------------------------------------------------------------------------
(* A token without content is written as it is read.                       *)
LEMMA PlainRespelt ==
  ASSUME NEW t \in Tokens
  PROVE  t.type \in {"LeftCurlyBracket", "RightCurlyBracket", "LeftSquareBracket",
                     "RightSquareBracket", "Comma", "Colon", "Null", "EndOfFile"}
           => Respelt(t) = Token(t.type)
BY PlainToken DEF Respelt, Token

(* A string is written decoded.                                            *)
LEMMA StringRespelt ==
  ASSUME NEW t \in Tokens, t.type = "String"
  PROVE  Respelt(t) = [type |-> "String", value |-> Decoded(t.value)]
<1>1. t = [type |-> "String", value |-> t.value]
  BY DEF Tokens
<1>2. Respelt(t) = [t EXCEPT !.value = Decoded(@)]
  BY DEF Respelt
<1> QED BY <1>1, <1>2

(* What is written of a scalar is its token, respelt.                      *)
LEMMA ScalarCopied ==
  ASSUME NEW t \in Tokens, NEW v, NEW w, w.strings = strings, Denotes(t, v, w)
  PROVE  Scalar(v) = Respelt(t) /\ ~IsContainer(v)
<1>1. CASE t.type = "Null" /\ v = Value("Null", 0)
  BY <1>1, PlainRespelt DEF Scalar, Value, IsContainer
<1>2. CASE t.type = "Boolean" /\ v = Value("Boolean", IF t.value THEN 1 ELSE 0)
  <2>1. t.value \in BOOLEAN /\ t = [type |-> "Boolean", value |-> t.value]
    BY <1>2 DEF Tokens
  <2>2. v.type = "Boolean" /\ (v.payload # 0) = t.value
    BY <1>2, <2>1 DEF Value
  <2>3. Scalar(v) = [type |-> "Boolean", value |-> v.payload # 0]
    BY <2>2 DEF Scalar
  <2>4. Respelt(t) = t
    BY <1>2 DEF Respelt
  <2>5. Scalar(v) = Respelt(t)
    BY <2>1, <2>2, <2>3, <2>4
  <2> QED BY <2>2, <2>5 DEF IsContainer
<1>3. CASE t.type = "Integer" /\ v = Value("Integer", Truncate48(t.value))
  <2>1. t = [type |-> "Integer", value |-> t.value]
    BY <1>3 DEF Tokens
  <2>2. Respelt(t) = [t EXCEPT !.value = Truncate48(@)]
    BY <1>3 DEF Respelt
  <2>3. Respelt(t) = [type |-> "Integer", value |-> Truncate48(t.value)]
    BY <2>1, <2>2
  <2>4. v.type = "Integer" /\ v.payload = Truncate48(t.value)
    BY <1>3 DEF Value
  <2> QED BY <2>3, <2>4 DEF Scalar, IsContainer
<1>4. CASE t.type = "Double" /\ t.value \notin OutOfRange /\ v = Value("Double", t.value)
  <2>1. Respelt(t) = DoubleText(t.value)
    <3>1. t = [type |-> "Double", value |-> t.value]
      BY <1>4 DEF Tokens
    <3>2. CASE t.value \in WholeDoubles
      <4>1. Respelt(t) = [t EXCEPT !.type = "Integer"]
        BY <1>4, <3>2 DEF Respelt
      <4> QED BY <3>1, <3>2, <4>1 DEF DoubleText
    <3>3. CASE t.value \notin WholeDoubles
      <4>1. Respelt(t) = t
        BY <1>4, <3>3 DEF Respelt
      <4> QED BY <3>1, <3>3, <4>1 DEF DoubleText
    <3> QED BY <3>2, <3>3
  <2>2. v.type = "Double" /\ v.payload = t.value
    BY <1>4 DEF Value
  <2>3. Scalar(v) = DoubleText(v.payload)
    BY <2>2 DEF Scalar
  <2> QED BY <2>1, <2>2, <2>3 DEF IsContainer
<1>5. CASE /\ t.type = "String" /\ Decoded(t.value) # Malformed
           /\ v.type = "String" /\ v.payload + 1 \in 1..Len(w.strings)
           /\ w.strings[v.payload + 1] = Decoded(t.value)
  <2>1. Scalar(v) = [type |-> "String", value |-> strings[v.payload + 1]]
    BY <1>5 DEF Scalar
  <2> QED BY <1>5, <2>1, StringRespelt DEF IsContainer
<1> QED BY <1>1, <1>2, <1>3, <1>4, <1>5 DEF Denotes

(* What is written of a key is its token, respelt.                         *)
LEMMA KeyCopied ==
  ASSUME NEW t \in Tokens, NEW key, NEW w, w.strings = strings, Names(t, key, w)
  PROVE  [type |-> "String", value |-> resolveKey(key)] = Respelt(t)
<1>1. t.type = "String" /\ resolveKey(key) = Decoded(t.value)
  BY DEF Names, resolveKey
<1> QED BY <1>1, StringRespelt

(* Where the innermost container's text is to go on after what the record  *)
(* e has written: behind its bracket, or behind its last item.             *)
Reached(e, w) ==
  IF e.next = 1 THEN MarksOf(e.value, w)[1] ELSE MarksOf(e.value, w)[e.next] - 1

(* How much of the text is written, with the records q.                    *)
Place(q, w) == IF q = <<>> THEN Len(w.text) - 1 ELSE Reached(q[Len(q)], w)

(* Each record's container ends where the record around it has got to.     *)
Nests(q, w) ==
  \A k \in 1..Len(q) :
    /\ q[k].next \in 1..(Len(Items(q[k].value)) + 1)
    /\ EndOf(MarksOf(q[k].value, w)) = IF k = 1 THEN Len(w.text) - 1 ELSE Reached(q[k - 1], w)

(* The tables lie in the text, which is the document's.                    *)
Source(w) ==
  /\ w \in Worlds /\ w.text = pulled /\ w.strings = strings
  /\ TablesLie(arrays, objects, w)

(* The text of a stored container.                                         *)
LEMMA ContainerMarks ==
  ASSUME TypeOK, IndicesResolve, NEW w, Source(w), NEW v \in NonScalars, Resolves(v)
  PROVE  /\ SealedIn(v.type, Items(v), MarksOf(v, w), w)
         /\ Len(w.text) \in Nat /\ \A i \in 1..Len(w.text) : w.text[i] \in Tokens
         /\ Len(Items(v)) \in Nat /\ Len(MarksOf(v, w)) = Len(Items(v)) + 1
         /\ \A j \in 1..(Len(Items(v)) + 1) : MarksOf(v, w)[j] \in 1..Len(w.text)
<1>1. SealedIn(v.type, Items(v), MarksOf(v, w), w)
  <2> DEFINE p == v.payload + 1
  <2>1. /\ DOMAIN arrays = 1..Len(arrays) /\ DOMAIN objects = 1..Len(objects)
        /\ Len(arrays) \in Nat /\ Len(objects) \in Nat
    BY LenProperties DEF TypeOK
  <2>2. /\ v.type = "Array" => p \in 1..Len(arrays)
        /\ v.type = "Object" => p \in 1..Len(objects)
        /\ v.type \in {"Array", "Object"}
    BY <2>1 DEF Resolves, NonScalars
  <2> HIDE DEF p
  <2>3. /\ v.type = "Array" => Items(v) = arrays[p] /\ MarksOf(v, w) = w.arrays[p]
        /\ v.type = "Object" => Items(v) = objects[p] /\ MarksOf(v, w) = w.objects[p]
    BY DEF Items, MarksOf, p
  <2> QED BY <2>2, <2>3 DEF TablesLie, Source
<1>2. Len(w.text) \in Nat /\ \A i \in 1..Len(w.text) : w.text[i] \in Tokens
  <2>1. w.text \in Seq(Tokens) /\ Len(w.text) \in Nat
    BY WorldLens DEF Source, Worlds
  <2> QED BY <2>1, ElementOfSeq
<1>3. Len(Items(v)) \in Nat
  BY ItemFacts
<1> QED BY <1>1, <1>2, <1>3 DEF SealedIn, Marked

(* A bracket is written as it is read.                                     *)
LEMMA BracketCopied ==
  ASSUME NEW v \in NonScalars, NEW t \in Tokens
  PROVE  /\ t.type = Bracket.open[v.type] => Opening(v) = Respelt(t)
         /\ t.type = Bracket.close[v.type] => Closing(v) = Respelt(t)
<1>1. v.type \in {"Array", "Object"}
  BY DEF NonScalars
<1>2. /\ v.type = "Array" => /\ Bracket.open[v.type] = "LeftSquareBracket"
                             /\ Bracket.close[v.type] = "RightSquareBracket"
      /\ v.type = "Object" => /\ Bracket.open[v.type] = "LeftCurlyBracket"
                              /\ Bracket.close[v.type] = "RightCurlyBracket"
  BY DEF Bracket, Kinds
<1>3. /\ v.type = "Array" => /\ Opening(v) = Token("LeftSquareBracket")
                             /\ Closing(v) = Token("RightSquareBracket")
      /\ v.type = "Object" => /\ Opening(v) = Token("LeftCurlyBracket")
                              /\ Closing(v) = Token("RightCurlyBracket")
  BY DEF Opening, Closing
<1> QED BY <1>1, <1>2, <1>3, PlainRespelt

(* A new record nests in those there are.                                  *)
LEMMA NestsAppend ==
  ASSUME NEW q, Entered(q), NEW w, Nests(q, w), NEW v \in NonScalars, Items(v) # <<>>,
         Len(Items(v)) \in Nat, EndOf(MarksOf(v, w)) = Place(q, w)
  PROVE  LET r == Append(q, [value |-> v, next |-> 1])
         IN  Nests(r, w) /\ Place(r, w) = MarksOf(v, w)[1]
<1> DEFINE e == [value |-> v, next |-> 1]
           n == Len(q)
           r == Append(q, e)
<1>1. e \in VisitRecords /\ e.value = v /\ e.next = 1
  BY DEF VisitRecords
<1> HIDE DEF e
<1>2. /\ n \in Nat /\ r \in Seq(VisitRecords) /\ Len(r) = n + 1 /\ r[n + 1] = e
      /\ \A k \in 1..n : r[k] = q[k]
  BY <1>1, AppendProperties, LenProperties DEF Entered
<1>3. r # <<>> /\ Place(r, w) = MarksOf(v, w)[1]
  <2>1. r # <<>>
    BY <1>2, EmptySeq
  <2>2. Reached(e, w) = MarksOf(v, w)[1]
    BY <1>1 DEF Reached
  <2> HIDE DEF r
  <2>3. Place(r, w) = MarksOf(v, w)[1]
    BY <1>2, <2>1, <2>2 DEF Place
  <2> QED BY <2>1, <2>3
<1>4. ASSUME NEW k \in 1..Len(r)
      PROVE  /\ r[k].next \in 1..(Len(Items(r[k].value)) + 1)
             /\ EndOf(MarksOf(r[k].value, w)) = IF k = 1 THEN Len(w.text) - 1 ELSE Reached(r[k - 1], w)
  <2>1. CASE k \in 1..n
    <3>1. r[k] = q[k] /\ (k # 1 => k - 1 \in 1..n)
      BY <1>2, <2>1
    <3>2. k # 1 => r[k - 1] = q[k - 1]
      BY <1>2, <3>1
    <3> HIDE DEF r
    <3> QED BY <2>1, <3>1, <3>2 DEF Nests
  <2>2. CASE k = n + 1
    <3>1. r[k] = e /\ 1 \in 1..(Len(Items(v)) + 1)
      BY <1>2, <2>2
    <3>2. k # 1 => n \in 1..n /\ k - 1 = n /\ q # <<>>
      BY <1>2, <2>2, EmptySeq
    <3>3. k # 1 => r[k - 1] = q[n]
      BY <1>2, <3>2
    <3>4. k = 1 => n = 0 /\ q = <<>>
      BY <1>2, <2>2, EmptySeq DEF Entered
    <3> HIDE DEF r
    <3>5. Place(q, w) = IF k = 1 THEN Len(w.text) - 1 ELSE Reached(r[k - 1], w)
      BY <3>2, <3>3, <3>4 DEF Place
    <3> QED BY <1>1, <3>1, <3>5
  <2> QED BY <1>2, <2>1, <2>2
<1>5. Nests(r, w)
  <2> HIDE DEF r
  <2> QED BY <1>4 DEF Nests
<1> QED BY <1>3, <1>5 DEF e

(* What a visit writes is the text of its value, or its bracket.           *)
LEMMA VisitCopies ==
  ASSUME TypeOK, IndicesResolve, NEW w, Source(w),
         NEW v \in JsonValues, Resolves(v), NEW lo, NEW hi, Spans(v, lo, hi, w),
         NEW text, Copied(text, lo - 1, w),
         NEW stack, Entered(stack), Nests(stack, w), Place(stack, w) = hi,
         NEW width, Visit(text, v, stack, width)
  PROVE  Nests(visits', w) /\ Copied(out', Place(visits', w), w)
<1>1. /\ Len(w.text) \in Nat /\ w \in Worlds /\ w.strings = strings /\ TablesLie(arrays, objects, w)
      /\ \A i \in 1..Len(w.text) : w.text[i] \in Tokens
  <2>1. w.text \in Seq(Tokens) /\ Len(w.text) \in Nat
    BY WorldLens DEF Source, Worlds
  <2> QED BY <2>1, ElementOfSeq DEF Source
<1>2. lo \in 1..Len(w.text) /\ hi \in lo..Len(w.text) /\ (lo - 1) + 1 = lo /\ lo - 1 < Len(w.text)
  BY <1>1 DEF Spans
<1>3. CASE ~IsContainer(v)
  <2>1. out' = text \o <<Scalar(v)>> /\ visits' = stack
    BY <1>3 DEF Visit
  <2>2. lo = hi /\ Denotes(w.text[lo], v, w)
    BY <1>3 DEF Spans, IsContainer
  <2>3. Scalar(v) = Respelt(w.text[lo])
    BY <1>1, <1>2, <2>2, ScalarCopied
  <2>4. Scalar(v) \in OutTokens /\ Scalar(v).type \notin Layout
    BY <1>3, ScalarWritten DEF Plain
  <2>5. Copied(text \o <<Scalar(v)>>, lo, w)
    BY <1>1, <1>2, <2>3, <2>4, TokenCopied
  <2> QED BY <2>1, <2>2, <2>5
<1>4. CASE IsContainer(v)
  <2> DEFINE o == Opening(v)
             c == Closing(v)
             marks == MarksOf(v, w)
  <2>1. v \in NonScalars /\ v.type \in {"Array", "Object"}
    BY <1>4, ContainerValues DEF IsContainer
  <2>2. /\ SealedIn(v.type, Items(v), marks, w) /\ marks[1] = lo /\ EndOf(marks) = hi
        /\ Len(Items(v)) \in Nat /\ Len(marks) = Len(Items(v)) + 1
    BY <1>1, <2>1, ContainerSpan, ContainerMarks
  <2>3. /\ w.text[lo].type = Bracket.open[v.type] /\ w.text[hi].type = Bracket.close[v.type]
    BY <2>2 DEF SealedIn, Marked
  <2>4. o = Respelt(w.text[lo]) /\ c = Respelt(w.text[hi])
    BY <1>1, <1>2, <2>1, <2>3, BracketCopied
  <2>5. o \in OutTokens /\ o.type \notin Layout /\ c \in OutTokens /\ c.type \notin Layout
    BY TokensWritten
  <2> HIDE DEF o, c
  <2>6. Copied(text \o <<o>>, lo, w)
    BY <1>1, <1>2, <2>4, <2>5, TokenCopied
  <2>7. CASE Items(v) = <<>>
    <3>1. out' = text \o <<o, c>> /\ visits' = stack
      BY <1>4, <2>7 DEF Visit, o, c
    <3>2. text \o <<o, c>> = (text \o <<o>>) \o <<c>>
      <4>1. text \in Seq(OutTokens) /\ text \o <<o>> \in Seq(OutTokens)
        BY <2>6 DEF Copied
      <4>2. (text \o <<o>>) \o <<c>> = Append(text \o <<o>>, c)
        BY <2>5, <4>1, AppendIsConcat
      <4>3. text \o <<o>> = Append(text, o) /\ text \o <<o, c>> = Append(Append(text, o), c)
        BY <2>5, <4>1, TextAppends
      <4> QED BY <4>2, <4>3
    <3>3. hi = lo + 1
      <4>1. Len(Items(v)) = 0
        BY <2>1, <2>7, ItemFacts
      <4> QED BY <2>2, <4>1 DEF EndOf
    <3>4. lo < Len(w.text) /\ lo + 1 = hi
      BY <1>1, <1>2, <3>3
    <3> DEFINE u == text \o <<o>>
    <3>5. Copied(u, lo, w)
      BY <2>6
    <3> HIDE DEF u
    <3>6. Copied(u \o <<c>>, hi, w)
      BY <1>1, <2>4, <2>5, <3>4, <3>5, TokenCopied
    <3> QED BY <3>1, <3>2, <3>6 DEF u
  <2>8. CASE Items(v) # <<>>
    <3>1. out' = text \o <<o>> /\ visits' = Append(stack, [value |-> v, next |-> 1])
      BY <1>4, <2>8 DEF Visit, o, c
    <3>2. Nests(visits', w) /\ Place(visits', w) = lo
      BY <2>1, <2>2, <2>8, <3>1, NestsAppend
    <3> QED BY <2>6, <3>1, <3>2
  <2> QED BY <2>7, <2>8
<1> QED BY <1>3, <1>4

(* A line break is layout.                                                 *)
LEMMA LineCopied ==
  ASSUME NEW w, NEW t, NEW p, Copied(t, p, w), indent \in Int, NEW m \in Int
  PROVE  Copied(t \o Line(m), p, w)
<1>1. CASE indent >= 0
  <2> DEFINE a == Newline(m)
  <2>1. Line(m) = <<a>> /\ a \in OutTokens /\ a.type \in Layout
    BY <1>1, TokensWritten DEF Line, Layout
  <2> HIDE DEF a
  <2> QED BY <2>1, LayoutCopied
<1>2. CASE ~(indent >= 0)
  BY <1>2, ConcatEmptySeq DEF Line, Copied
<1> QED BY <1>1, <1>2

(* The key of a member, and its colon.                                     *)
LEMMA KeyTextCopied ==
  ASSUME TypeOK, NEW w, w.strings = strings, Len(w.text) \in Nat,
         \A i \in 1..Len(w.text) : w.text[i] \in Tokens,
         NEW t, NEW p, Copied(t, p, w), p + 2 <= Len(w.text), indent \in Int,
         NEW m \in Members, KeyResolves(m.key), Names(w.text[p + 1], m.key, w),
         w.text[p + 2].type = "Colon"
  PROVE  Copied(t \o KeyText(m), p + 2, w)
<1> DEFINE a == [type |-> "String", value |-> resolveKey(m.key)]
           c == Token("Colon")
           gap == IF indent >= 0 THEN <<Space>> ELSE <<>>
<1>1. /\ p \in Nat /\ p < Len(w.text) /\ p + 1 < Len(w.text) /\ (p + 1) + 1 = p + 2
      /\ p + 1 \in 1..Len(w.text) /\ p + 2 \in 1..Len(w.text) /\ t \in Seq(OutTokens)
  BY DEF Copied
<1>2. Plain(a) /\ Plain(c)
  BY KeyWritten, TokensWritten
<1>3. a = Respelt(w.text[p + 1])
  BY <1>1, KeyCopied
<1>4. c = Respelt(w.text[p + 2])
  BY <1>1, PlainRespelt
<1>5. KeyText(m) = <<a, c>> \o gap
  BY DEF KeyText
<1> HIDE DEF a, c
<1> DEFINE u == t \o <<a>>
<1>6. Copied(u, p + 1, w)
  BY <1>1, <1>2, <1>3, TokenCopied DEF Plain
<1>7. u \in Seq(OutTokens)
  BY <1>6 DEF Copied
<1> DEFINE x == u \o <<c>>
<1>8. Copied(x, p + 2, w)
  <2> HIDE DEF u
  <2>1. Copied(u \o <<c>>, (p + 1) + 1, w)
    <3>1. c = Respelt(w.text[(p + 1) + 1])
      BY <1>1, <1>4
    <3> DEFINE r == p + 1
    <3>2. c = Respelt(w.text[r + 1]) /\ r < Len(w.text) /\ Copied(u, r, w)
      BY <1>1, <1>6, <3>1
    <3> HIDE DEF r
    <3>3. Copied(u \o <<c>>, r + 1, w)
      BY <1>2, <3>2, TokenCopied DEF Plain
    <3> QED BY <3>3 DEF r
  <2> QED BY <1>1, <2>1
<1>9. t \o <<a, c>> = x
  <2>1. x = Append(u, c)
    BY <1>2, <1>7, AppendIsConcat DEF Plain
  <2>2. u = Append(t, a) /\ t \o <<a, c>> = Append(Append(t, a), c)
    BY <1>1, <1>2, TextAppends DEF Plain
  <2> QED BY <2>1, <2>2
<1>10. t \o KeyText(m) = x \o gap
  <2>1. <<a, c>> \in Seq(OutTokens) /\ gap \in Seq(OutTokens)
    BY <1>2, TokensWritten DEF Plain
  <2>2. (t \o <<a, c>>) \o gap = t \o (<<a, c>> \o gap)
    BY <1>1, <2>1, ConcatAssociative
  <2> QED BY <1>5, <1>9, <2>2
<1> HIDE DEF x
<1>11. Copied(x \o gap, p + 2, w)
  <2>1. CASE indent >= 0
    <3>1. Space \in OutTokens /\ Space.type \in Layout
      BY TokensWritten DEF Layout
    <3> QED BY <1>8, <2>1, <3>1, LayoutCopied
  <2>2. CASE ~(indent >= 0)
    BY <1>8, <2>2, ConcatEmptySeq DEF Copied
  <2> QED BY <2>1, <2>2
<1> QED BY <1>10, <1>11

(* The comma before an item, if it is not the first.                       *)
LEMMA CommaCopied ==
  ASSUME TypeOK, IndicesResolve, NEW w, Source(w), NEW e \in VisitRecords, Resolves(e.value),
         e.next <= Len(Items(e.value)), NEW t, Copied(t, Reached(e, w), w)
  PROVE  Copied(t \o CommaBefore(e.next), MarksOf(e.value, w)[e.next], w)
<1> DEFINE v == e.value
           i == e.next
           marks == MarksOf(v, w)
           a == Token("Comma")
<1>1. v \in NonScalars /\ i \in Nat \ {0}
  BY DEF VisitRecords
<1>2. /\ SealedIn(v.type, Items(v), marks, w) /\ Len(w.text) \in Nat
      /\ \A j \in 1..Len(w.text) : w.text[j] \in Tokens
      /\ Len(Items(v)) \in Nat
      /\ \A j \in 1..(Len(Items(v)) + 1) : marks[j] \in 1..Len(w.text)
  BY <1>1, ContainerMarks
<1>3. CASE i = 1
  <2>1. t \o <<>> = t
    BY ConcatEmptySeq DEF Copied
  <2> QED BY <1>3, <2>1 DEF CommaBefore, Reached
<1>4. CASE i # 1
  <2>1. i \in 2..Len(Items(v)) /\ i \in 1..(Len(Items(v)) + 1)
    BY <1>1, <1>2, <1>4
  <2>2. w.text[marks[i]].type = "Comma" /\ marks[i] \in 1..Len(w.text)
    BY <1>2, <2>1 DEF SealedIn, Marked
  <2> DEFINE p == marks[i] - 1
  <2>3. Copied(t, p, w)
    BY <1>4 DEF Reached
  <2>4. p + 1 = marks[i] /\ p < Len(w.text)
    BY <1>2, <2>2
  <2>5. a = Respelt(w.text[p + 1])
    BY <1>2, <2>2, <2>4, PlainRespelt
  <2>6. Plain(a)
    BY TokensWritten
  <2> HIDE DEF p, a
  <2>7. Copied(t \o <<a>>, p + 1, w)
    BY <1>2, <2>3, <2>4, <2>5, <2>6, TokenCopied DEF Plain
  <2> QED BY <1>4, <2>4, <2>7 DEF CommaBefore, a
<1> QED BY <1>3, <1>4

(* One more item is behind the innermost record.                           *)
LEMMA NestsAdvanced ==
  ASSUME NEW q, Entered(q), q # <<>>, NEW w, Nests(q, w),
         q[Len(q)].next <= Len(Items(q[Len(q)].value)), Len(Items(q[Len(q)].value)) \in Nat
  PROVE  /\ Nests(Advanced(q), w)
         /\ Place(Advanced(q), w) = MarksOf(q[Len(q)].value, w)[q[Len(q)].next + 1] - 1
<1> DEFINE n == Len(q)
           next == q[n].next
           e == [value |-> q[n].value, next |-> next + 1]
<1>1. q \in Seq(VisitRecords) /\ n \in Nat \ {0} /\ n \in 1..Len(q) /\ DOMAIN q = 1..Len(q)
  BY EmptySeq, LenProperties DEF Entered
<1>2. q[n] \in VisitRecords
  BY <1>1, ElementOfSeq
<1>3. next \in Nat \ {0} /\ q[n].value \in NonScalars /\ [q[n] EXCEPT !.next = @ + 1] = e
  BY <1>2 DEF VisitRecords
<1>4. e \in VisitRecords /\ e.value = q[n].value /\ e.next = next + 1
  BY <1>3 DEF VisitRecords
<1>5. Advanced(q) = [q EXCEPT ![n] = e]
  BY <1>3 DEF Advanced
<1>6. next + 1 \in 1..(Len(Items(q[n].value)) + 1) /\ next + 1 # 1
  BY <1>3
<1>7. Reached(e, w) = MarksOf(q[n].value, w)[next + 1] - 1
  BY <1>4, <1>6 DEF Reached
<1> HIDE DEF e
<1> DEFINE r == Advanced(q)
<1>8. /\ r \in Seq(VisitRecords) /\ Len(r) = n /\ n \in 1..n
      /\ \A k \in 1..n : r[k] = IF k = n THEN e ELSE q[k]
  BY <1>1, <1>4, <1>5, ExceptSeq
<1> HIDE DEF r, n, next
<1>9. Place(r, w) = Reached(e, w)
  <2>1. r # <<>> /\ r[n] = e
    BY <1>1, <1>8, EmptySeq
  <2> QED BY <1>8, <2>1 DEF Place
<1>10. ASSUME NEW k \in 1..Len(r)
       PROVE  /\ r[k].next \in 1..(Len(Items(r[k].value)) + 1)
              /\ EndOf(MarksOf(r[k].value, w)) = IF k = 1 THEN Len(w.text) - 1 ELSE Reached(r[k - 1], w)
  <2>1. k \in 1..n /\ r[k].value = q[k].value
    BY <1>4, <1>8
  <2>2. k # 1 => k - 1 \in 1..n /\ k - 1 # n
    BY <1>1, <2>1
  <2>3. k # 1 => r[k - 1] = q[k - 1]
    BY <1>8, <2>2
  <2>4. r[k].next = IF k = n THEN next + 1 ELSE q[k].next
    BY <1>4, <1>8, <2>1
  <2>5. k \in 1..Len(q)
    BY <2>1 DEF n
  <2> QED BY <1>6, <2>1, <2>3, <2>4, <2>5 DEF Nests
<1>11. Nests(r, w)
  BY <1>10 DEF Nests
<1> QED BY <1>7, <1>9, <1>11 DEF r, n, next

(* The dump has copied the source up to where its records are.             *)
Copying(w) ==
  /\ Source(w) /\ w.text[Len(w.text)].type = "EndOfFile"
  /\ Nests(visits, w) /\ Copied(out, Place(visits, w), w)

(* One turn of the loop copies the comma, the key and the item.            *)
LEMMA ItemCopies ==
  ASSUME TypeOK, IndicesResolve, indent \in Int, current_indent \in Int, Entered(visits),
         NEW w, Copying(w), SerializeItem
  PROVE  Nests(visits', w) /\ Copied(out', Place(visits', w), w)
<1> DEFINE v == Visited.value
           i == Visited.next
           n == Len(visits)
           item == Items(v)[i]
           comma == out \o CommaBefore(i)
           head == comma \o Line(current_indent)
           child == ItemValue(v, i)
           marks == MarksOf(v, w)
           lo == marks[i] + 1
           hi == marks[i + 1] - 1
<1>1. /\ visits # <<>> /\ i <= Len(Items(v))
      /\ v.type = "Array" => Visit(head, child, Advanced(visits), indent)
      /\ v.type # "Array" => Visit(head \o KeyText(item), child, Advanced(visits), indent)
  BY DEF SerializeItem, ItemValue, Advanced
<1>2. /\ n \in Nat \ {0} /\ Visited = visits[n] /\ Visited \in VisitRecords
      /\ n \in DOMAIN visits
  BY <1>1, LastRecord DEF Visited
<1>3. v \in NonScalars /\ v.type \in {"Array", "Object"} /\ i \in Nat \ {0} /\ Resolves(v)
  BY <1>2 DEF VisitRecords, Entered, NonScalars
<1>4. /\ Source(w) /\ Nests(visits, w) /\ w.strings = strings
      /\ Copied(out, Reached(Visited, w), w)
  BY <1>1, <1>2 DEF Copying, Place, Source
<1>5. /\ SealedIn(v.type, Items(v), marks, w) /\ Len(w.text) \in Nat
      /\ \A j \in 1..Len(w.text) : w.text[j] \in Tokens
      /\ Len(Items(v)) \in Nat
      /\ \A j \in 1..(Len(Items(v)) + 1) : marks[j] \in 1..Len(w.text)
  BY <1>3, <1>4, ContainerMarks
<1>6. Copied(comma, marks[i], w)
  BY <1>1, <1>2, <1>3, <1>4, CommaCopied
<1>7. Copied(head, marks[i], w)
  <2> HIDE DEF comma, marks, i
  <2> QED BY <1>6, LineCopied
<1>8. /\ Entered(Advanced(visits)) /\ Nests(Advanced(visits), w) /\ Place(Advanced(visits), w) = hi
  BY <1>1, <1>2, <1>4, <1>5, AdvancedFacts, NestsAdvanced
<1>9. i \in 1..Len(Items(v)) /\ i \in DOMAIN Items(v) /\ i \in 1..(Len(Items(v)) + 1)
  BY <1>1, <1>3, <1>5, ItemFacts
<1>10. marks[i] \in Nat
  BY <1>5, <1>9
<1>11. child \in JsonValues /\ Resolves(child)
  BY <1>3, <1>9, ItemFacts
<1>12. ItemSpans(v.type, item, lo, hi, w)
  BY <1>5, <1>9 DEF SealedIn, Marked
<1>13. CASE v.type = "Array"
  <2>1. child = item /\ Spans(item, lo, hi, w) /\ Visit(head, child, Advanced(visits), indent)
    BY <1>1, <1>12, <1>13 DEF ItemValue, ItemSpans
  <2>2. Copied(head, lo - 1, w)
    <3>1. lo - 1 = marks[i]
      BY <1>10
    <3> QED BY <1>7, <3>1
  <2> HIDE DEF v, i, n, item, head, child, lo, hi
  <2> QED BY <1>4, <1>8, <1>11, <2>1, <2>2, VisitCopies
<1>14. CASE v.type = "Object"
  <2>1. /\ child = item.value /\ lo \in 1..Len(w.text) /\ Spans(child, lo + 2, hi, w)
        /\ Names(w.text[lo], item.key, w) /\ w.text[lo + 1].type = "Colon"
        /\ Visit(head \o KeyText(item), child, Advanced(visits), indent)
    BY <1>1, <1>12, <1>14 DEF ItemValue, ItemSpans
  <2>2. item \in Members /\ KeyResolves(item.key)
    BY <1>3, <1>9, <1>14, ItemFacts
  <2> DEFINE p == marks[i]
  <2>3. p \in Nat /\ lo = p + 1 /\ lo + 1 = p + 2 /\ lo + 2 \in 1..Len(w.text)
    BY <1>10, <2>1 DEF Spans
  <2>4. p + 2 <= Len(w.text) /\ w.text[p + 2].type = "Colon" /\ (lo + 2) - 1 = p + 2
    <3> HIDE DEF item, child, head, lo, p
    <3> QED BY <1>5, <2>1, <2>3
  <2>5. Names(w.text[p + 1], item.key, w) /\ Copied(head, p, w)
    <3> HIDE DEF item, child, head
    <3> QED BY <1>7, <2>1, <2>3
  <2> HIDE DEF v, i, n, item, head, child, lo, hi, p
  <2>6. Copied(head \o KeyText(item), (lo + 2) - 1, w)
    BY <1>4, <1>5, <2>2, <2>4, <2>5, KeyTextCopied
  <2> DEFINE text == head \o KeyText(item)
             start == lo + 2
  <2>7. /\ Copied(text, start - 1, w) /\ Spans(child, start, hi, w)
        /\ Visit(text, child, Advanced(visits), indent)
    BY <2>1, <2>6
  <2> HIDE DEF text, start
  <2> QED BY <1>4, <1>8, <1>11, <2>7, VisitCopies
<1> QED BY <1>3, <1>13, <1>14

(* The closing bracket ends the container's text.                          *)
LEMMA CloseCopies ==
  ASSUME TypeOK, IndicesResolve, indent \in Int, current_indent \in Int, Entered(visits),
         NEW w, Copying(w), SerializeClose
  PROVE  Nests(visits', w) /\ Copied(out', Place(visits', w), w)
<1> DEFINE n == Len(visits)
           e == visits[n]
           v == e.value
           i == e.next
           m == current_indent - Step(indent)
           c == Closing(v)
           u == out \o Line(m)
           marks == MarksOf(v, w)
           size == Len(Items(v))
           q == Front(visits)
<1>1. /\ visits # <<>> /\ current_indent' = m /\ UNCHANGED indent /\ visits' = q
      /\ Visited.next > Len(Items(Visited.value))
      /\ out' = out \o Line(current_indent') \o <<Closing(Visited.value)>>
  BY DEF SerializeClose
<1>2. /\ n \in Nat \ {0} /\ Visited = e /\ e \in VisitRecords /\ n \in DOMAIN visits
  BY <1>1, LastRecord DEF Visited
<1>3. out' = u \o <<c>>
  <2>1. Line(current_indent') = Line(m)
    BY <1>1 DEF Line
  <2> QED BY <1>1, <1>2, <2>1
<1>4. v \in NonScalars /\ i \in Nat \ {0} /\ Resolves(v) /\ Items(v) # <<>>
  BY <1>2 DEF VisitRecords, Entered
<1>5. /\ Source(w) /\ Nests(visits, w) /\ Copied(out, Reached(e, w), w)
  BY <1>1, <1>2 DEF Copying, Place
<1>6. /\ SealedIn(v.type, Items(v), marks, w) /\ Len(w.text) \in Nat
      /\ \A j \in 1..Len(w.text) : w.text[j] \in Tokens
      /\ size \in Nat /\ Len(marks) = size + 1
      /\ \A j \in 1..(size + 1) : marks[j] \in 1..Len(w.text)
  BY <1>4, <1>5, ContainerMarks
<1>7. size # 0
  BY <1>4, ItemFacts
<1>8. n \in 1..n /\ i = size + 1 /\ EndOf(marks) = IF n = 1 THEN Len(w.text) - 1 ELSE Reached(visits[n - 1], w)
  <2>1. /\ n \in 1..n /\ i \in 1..(size + 1)
        /\ EndOf(marks) = IF n = 1 THEN Len(w.text) - 1 ELSE Reached(visits[n - 1], w)
    <3>1. visits[n].next \in 1..(Len(Items(visits[n].value)) + 1)
          /\ EndOf(MarksOf(visits[n].value, w))
               = IF n = 1 THEN Len(w.text) - 1 ELSE Reached(visits[n - 1], w)
      <4>1. n \in 1..n
        BY <1>2
      <4> QED BY <1>5, <4>1 DEF Nests
    <3> QED BY <1>2, <3>1
  <2>2. i > size
    BY <1>1, <1>2
  <2> QED BY <1>6, <2>1, <2>2
<1>9. EndOf(marks) = marks[i] /\ i # 1
  BY <1>6, <1>7, <1>8 DEF EndOf
<1>10. marks[i] \in 1..Len(w.text) /\ w.text[marks[i]].type = Bracket.close[v.type]
  BY <1>6, <1>9 DEF SealedIn
<1> DEFINE p == marks[i] - 1
<1>11. p + 1 = marks[i] /\ p < Len(w.text)
  BY <1>6, <1>10
<1>12. Copied(out, p, w)
  BY <1>5, <1>9 DEF Reached
<1>13. m \in Int
  BY DEF Step
<1>14. c = Respelt(w.text[p + 1])
  BY <1>4, <1>6, <1>10, <1>11, BracketCopied
<1>15. c \in OutTokens /\ c.type \notin Layout
  BY TokensWritten
<1>16. Copied(u, p, w)
  <2> HIDE DEF m, p
  <2> QED BY <1>12, <1>13, LineCopied
<1>17. Copied(u \o <<c>>, marks[i], w)
  <2> HIDE DEF u, c, p
  <2>1. Copied(u \o <<c>>, p + 1, w)
    BY <1>6, <1>11, <1>14, <1>15, <1>16, TokenCopied
  <2> QED BY <1>11, <2>1
<1>18. /\ q \in Seq(VisitRecords) /\ Len(q) = n - 1 /\ \A k \in 1..(n - 1) : q[k] = visits[k]
  BY <1>1, LastFront DEF Entered
<1>19. Nests(q, w)
  <2> HIDE DEF n, q
  <2>1. \A k \in 1..Len(q) : k \in 1..n /\ k \in 1..(n - 1) /\ (k # 1 => k - 1 \in 1..(n - 1))
    BY <1>2, <1>18
  <2> QED BY <1>5, <1>18, <2>1 DEF Nests, n
<1>20. Place(q, w) = marks[i]
  <2>1. CASE n = 1
    <3>1. Len(q) = 0
      BY <1>18, <2>1
    <3>2. q = <<>>
      BY <1>18, <3>1, EmptySeq
    <3> QED BY <1>8, <1>9, <2>1, <3>2 DEF Place
  <2>2. CASE n # 1
    <3>1. n - 1 \in 1..(n - 1) /\ Len(q) # 0
      BY <1>2, <1>18, <2>2
    <3>2. q # <<>> /\ q[Len(q)] = visits[n - 1]
      BY <1>18, <3>1, EmptySeq
    <3> QED BY <1>8, <1>9, <2>2, <3>2 DEF Place
  <2> QED BY <2>1, <2>2
<1> QED BY <1>1, <1>3, <1>17, <1>19, <1>20

(* What is written so far is the source up to some place.                  *)
CopyInv == dumping # "idle" => \E sa, so \in Seq(Seq(Nat)) : Copying(World(sa, so))

(* A dump begins with the root, which is the whole source.                 *)
LEMMA RootCopies ==
  ASSUME TypeOK, IndicesResolve, TextsLie, RootDelivered, Dump
  PROVE  \E sa, so \in Seq(Seq(Nat)) :
           LET w == World(sa, so)
           IN  /\ Source(w) /\ w.text[Len(w.text)].type = "EndOfFile"
               /\ Nests(visits', w) /\ Copied(out', Place(visits', w), w)
<1>1. pc = "done" /\ ~has_error /\ Visit(<<>>, root, <<>>, indent')
  BY DEF Dump
<1>2. PICK sa, so, ms \in Seq(Seq(Nat)) : Lies(sa, so, ms)
  BY <1>1 DEF TextsLie
<1>3. PICK w : w = World(sa, so)
  OBVIOUS
<1>4. /\ Source(w) /\ w.text[Len(w.text)].type = "EndOfFile"
      /\ Spans(root, 1, Len(w.text) - 1, w)
  <2>1. w \in Worlds /\ w.text = pulled /\ w.strings = strings
    BY <1>3 DEF World, Worlds, TypeOK
  <2>2. TablesLie(arrays, objects, w) /\ Progress(pc, ret, root, OpenNow, ms, w)
    BY <1>2, <1>3 DEF Lies
  <2> QED BY <1>1, <2>1, <2>2 DEF Progress, Source
<1>5. root \in JsonValues /\ Resolves(root)
  BY <1>1 DEF RootDelivered, IndicesResolve
<1> DEFINE none == <<>>
           hi == Len(w.text) - 1
<1>6. /\ none \in Seq(OutTokens) /\ none \in Seq(VisitRecords) /\ Len(none) = 0
      /\ DOMAIN none = {} /\ Unlaid(none) = <<>>
  BY EmptySeq, UnlaidEmpty
<1>7. Place(none, w) = hi
  BY DEF Place
<1>8. Copied(none, 1 - 1, w)
  <2>1. Len(w.text) \in Nat
    BY <1>4, WorldLens DEF Source
  <2>2. [j \in 1..(1 - 1) |-> Respelt(w.text[j])] = <<>>
    OBVIOUS
  <2>3. 1 - 1 \in 0..Len(w.text)
    BY <2>1
  <2> HIDE DEF none
  <2> QED BY <1>6, <2>2, <2>3 DEF Copied
<1>9. Visit(none, root, none, indent')
  BY <1>1
<1> HIDE DEF none, hi
<1>10. Entered(none) /\ Nests(none, w)
  BY <1>6 DEF Entered, Nests
<1> DEFINE width == indent'
<1>11. Visit(none, root, none, width) /\ Spans(root, 1, hi, w)
  BY <1>4, <1>9 DEF hi
<1> HIDE DEF width
<1>12. Nests(visits', w) /\ Copied(out', Place(visits', w), w)
  BY <1>4, <1>5, <1>7, <1>8, <1>10, <1>11, VisitCopies
<1> QED BY <1>3, <1>4, <1>12

(* Once dump() has returned there are no records.                          *)
DumpReturned == dumping = "returned" => visits = <<>>

(* The source stays as it is.                                              *)
LEMMA CopyStays ==
  ASSUME UNCHANGED vars, NEW sa, NEW so
  PROVE  LET w == World(sa, so)
         IN  Copying(w)' <=> /\ Source(w) /\ w.text[Len(w.text)].type = "EndOfFile"
                             /\ Nests(visits', w) /\ Copied(out', Place(visits', w), w)
BY DEF vars, storage, stacks, Copying, Source, Nests, Items, Copied, Place, World

(* The copy through a dump.                                                *)
LEMMA CopyStep ==
  ASSUME ParserInv, TextsLie, RootDelivered, VisitsInv, LayoutInv, CopyInv, [DumpNext]_all_vars
  PROVE  CopyInv'
<1>0. TypeOK /\ IndicesResolve
  BY DEF ParserInv
<1>1. CASE UNCHANGED vars /\ (Dump \/ SerializeItem \/ SerializeClose \/ DumpReturns)
  <2>1. SUFFICES \E sa, so \in Seq(Seq(Nat)) :
                   LET w == World(sa, so)
                   IN  /\ Source(w) /\ w.text[Len(w.text)].type = "EndOfFile"
                       /\ Nests(visits', w) /\ Copied(out', Place(visits', w), w)
    BY <1>1, CopyStays DEF CopyInv
  <2>2. CASE Dump
    BY <1>0, <2>2, RootCopies
  <2>3. ASSUME dumping # "idle"
        PROVE  /\ indent \in Int /\ current_indent \in Int /\ Entered(visits)
               /\ \E sa, so \in Seq(Seq(Nat)) : Copying(World(sa, so))
    <3>1. Entered(visits) /\ Len(visits) \in Nat
      BY <2>3, LenProperties DEF VisitsInv, Entered
    <3>2. indent \in Int /\ current_indent = Step(indent) * Len(visits)
      BY <2>3 DEF LayoutInv
    <3>3. Step(indent) \in Nat
      BY <3>2, IndentTurns, <3>1
    <3> QED BY <2>3, <3>1, <3>2, <3>3 DEF CopyInv
  <2>4. CASE SerializeItem
    <3>1. PICK sa, so \in Seq(Seq(Nat)) : Copying(World(sa, so))
      BY <2>3, <2>4 DEF SerializeItem
    <3>2. PICK w : w = World(sa, so)
      OBVIOUS
    <3>3. dumping # "idle"
      BY <2>4 DEF SerializeItem
    <3>4. Nests(visits', w) /\ Copied(out', Place(visits', w), w)
      BY <1>0, <2>3, <2>4, <3>1, <3>2, <3>3, ItemCopies
    <3> QED BY <3>1, <3>2, <3>4 DEF Copying
  <2>5. CASE SerializeClose
    <3>1. PICK sa, so \in Seq(Seq(Nat)) : Copying(World(sa, so))
      BY <2>3, <2>5 DEF SerializeClose
    <3>2. PICK w : w = World(sa, so)
      OBVIOUS
    <3>3. dumping # "idle"
      BY <2>5 DEF SerializeClose
    <3>4. Nests(visits', w) /\ Copied(out', Place(visits', w), w)
      BY <1>0, <2>3, <2>5, <3>1, <3>2, <3>3, CloseCopies
    <3> QED BY <3>1, <3>2, <3>4 DEF Copying
  <2>6. CASE DumpReturns
    <3>1. UNCHANGED <<visits, out>> /\ dumping # "idle"
      BY <2>6 DEF DumpReturns
    <3> QED BY <2>3, <3>1 DEF Copying
  <2> QED BY <1>1, <2>2, <2>4, <2>5, <2>6
<1>2. CASE UNCHANGED dump_vars /\ [Next]_vars
  <2>1. CASE dumping = "idle"
    BY <1>2, <2>1 DEF dump_vars, CopyInv
  <2>2. CASE dumping # "idle"
    <3>1. UNCHANGED vars /\ UNCHANGED dump_vars
      BY <1>2, <2>2, ParserStays DEF VisitsInv, DumpStates
    <3>2. UNCHANGED <<visits, out>>
      BY <3>1 DEF dump_vars
    <3>3. PICK sa, so \in Seq(Seq(Nat)) : Copying(World(sa, so))
      BY <2>2 DEF CopyInv
    <3>4. Copying(World(sa, so))'
      BY <3>1, <3>2, <3>3, CopyStays DEF Copying
    <3> QED BY <3>4 DEF CopyInv
  <2> QED BY <2>1, <2>2
<1> QED BY <1>1, <1>2 DEF DumpNext, all_vars

(* When dump() returns it has written, apart from layout, one token for    *)
(* each token of the source and in their order, whatever the document and  *)
(* the indentation: the same token, but for a string decoded, an integer   *)
(* cut to 48 bits, and a double spelt by std::to_chars, which makes a      *)
(* whole one an integer (`1.0` is written `1`).                            *)
THEOREM DumpFaithful == DumpSpec => []DumpRepeatsTokens
<1>1. TypeOK /\ DumpReturned /\ CopyInv => DumpRepeatsTokens
  <2> SUFFICES ASSUME TypeOK, DumpReturned, CopyInv, dumping = "returned"
               PROVE  Append(Written, EndOfFile) = [i \in DOMAIN pulled |-> Respelt(pulled[i])]
    BY DEF DumpRepeatsTokens
  <2> DEFINE c == Len(pulled)
             R == {Respelt(pulled[i]) : i \in 1..c}
             r == [i \in 1..(c - 1) |-> Respelt(pulled[i])]
             s == [i \in 1..c |-> Respelt(pulled[i])]
  <2>1. PICK sa, so \in Seq(Seq(Nat)) : Copying(World(sa, so))
    BY DEF CopyInv
  <2>2. /\ visits = <<>> /\ pulled[c].type = "EndOfFile"
        /\ Copied(out, c - 1, World(sa, so)) /\ World(sa, so).text = pulled
    BY <2>1 DEF DumpReturned, Copying, Place, World
  <2>3. Written = r
    BY <2>2 DEF Copied, Written
  <2>4. c \in Nat \ {0} /\ pulled \in Seq(Tokens) /\ DOMAIN pulled = 1..c /\ c \in 1..c
        /\ c - 1 \in Nat
    BY LenProperties, EmptySeq DEF TypeOK
  <2>5. pulled[c] \in Tokens
    BY <2>4, ElementOfSeq
  <2>6. Respelt(pulled[c]) = EndOfFile
    BY <2>2, <2>5, PlainRespelt DEF Token, EndOfFile
  <2>7. r \in Seq(R) /\ Len(r) = c - 1 /\ s \in Seq(R) /\ Len(s) = c
    <3>1. \A i \in 1..(c - 1) : i \in 1..c
      BY <2>4
    <3>2. r \in [1..(c - 1) -> R] /\ s \in [1..c -> R]
      BY <3>1
    <3> HIDE DEF r, s, R, c
    <3> QED BY <2>4, <3>2
  <2>8. EndOfFile \in R /\ s[c] = EndOfFile /\ \A i \in 1..(c - 1) : r[i] = s[i]
    <3>1. \A i \in 1..(c - 1) : i \in 1..c
      BY <2>4
    <3> HIDE DEF c
    <3> QED BY <2>4, <2>6, <3>1
  <2>9. Append(r, EndOfFile) = s
    <3> HIDE DEF r, s, R, c
    <3>1. /\ Append(r, EndOfFile) \in Seq(R) /\ Len(Append(r, EndOfFile)) = (c - 1) + 1
          /\ Append(r, EndOfFile)[(c - 1) + 1] = EndOfFile
          /\ \A i \in 1..(c - 1) : Append(r, EndOfFile)[i] = r[i]
      BY <2>7, <2>8, AppendProperties
    <3>2. (c - 1) + 1 = c /\ \A i \in 1..c : i \in 1..(c - 1) \/ i = c
      BY <2>4
    <3>3. \A i \in 1..c : Append(r, EndOfFile)[i] = s[i]
      BY <2>8, <3>1, <3>2
    <3> QED BY <2>7, <3>1, <3>2, <3>3, SeqEqual
  <2> QED BY <2>3, <2>4, <2>9
<1>2. DumpInit => DumpReturned /\ CopyInv
  BY DEF DumpInit, DumpReturned, CopyInv
<1>3. VisitsInv /\ DumpReturned /\ [DumpNext]_all_vars => DumpReturned'
  BY DEF DumpNext, all_vars, dump_vars, DumpReturned, Dump, SerializeItem, SerializeClose,
         DumpReturns
<1>4. ParserInv => TypeOK
  BY DEF ParserInv
<1>5. DumpSpec => [](ParserInv /\ TextsLie)
  BY ParserBeneath, ParserInvariant, TextsLieSafe, PTL
<1>6. ParserInv /\ TextsLie /\ RootDelivered /\ VisitsInv /\ LayoutInv /\ CopyInv
        /\ [DumpNext]_all_vars => CopyInv'
  BY CopyStep
<1> QED
  BY <1>1, <1>2, <1>3, <1>4, <1>5, <1>6, VisitsInvariant, LayoutInvariant, PTL DEF DumpSpec
=============================================================================
