--------------------------- MODULE DocumentProofs ---------------------------
(***************************************************************************)
(* Theorems about Document, for any texts, any total order on them and     *)
(* objects of any size.                                                    *)
(***************************************************************************)
EXTENDS Document, FiniteSetTheorems, WellFoundedInduction, TLAPS

-----------------------------------------------------------------------------
(* Positions 1..n.                                                         *)

(* Of some positions there is a lowest one.                                *)
LEMMA LowestMember ==
  ASSUME NEW n \in Nat, NEW S \in SUBSET (1..n), S # {}
  PROVE  \E i \in S : \A j \in S : i <= j
<1> DEFINE Less == OpToRel(<, Nat)
<1>1. S \subseteq Nat
  OBVIOUS
<1>2. IsWellFoundedOn(Less, Nat)
  BY NatLessThanWellFounded, Zenon
<1> HIDE DEF Less
<1>3. PICK i \in S : \A j \in S : ~(<<j, i>> \in Less)
  BY <1>1, <1>2, WFMin
<1>4. \A j \in S : ~(j < i)
  BY <1>1, <1>3, Zenon DEF OpToRel, Less
<1> QED
  BY <1>1, <1>3, <1>4

(* A set of positions that contains every position before one of its own   *)
(* is 1..c: where std::lower_bound stops.                                  *)
LEMMA InitialSegment ==
  ASSUME NEW n \in Nat, NEW S \in SUBSET (1..n),
         \A i \in S : \A k \in 1..i : k \in S
  PROVE  \E c \in 0..n : S = 1..c
<1> DEFINE Outside == (1..(n + 1)) \ S
<1>1. n + 1 \in Outside /\ Outside \in SUBSET (1..(n + 1)) /\ n + 1 \in Nat
  OBVIOUS
<1>2. PICK m \in Outside : \A j \in Outside : m <= j
  BY <1>1, LowestMember
<1>3. m \in 1..(n + 1) /\ m \notin S
  BY <1>1, <1>2
<1>4. \A i \in S : i < m
  BY <1>3
<1>5. \A i \in 1..(m - 1) : i \in S
  BY <1>2, <1>3
<1>6. m - 1 \in 0..n /\ \A i \in S : i \in 1..(m - 1)
  BY <1>3, <1>4
<1> QED
  BY <1>5, <1>6

-----------------------------------------------------------------------------
(* Permutations of 1..n.                                                   *)

(* A reordering reaches every position.                                    *)
LEMMA ReorderingOnto ==
  ASSUME NEW n \in Nat, NEW f \in Reorderings(n), NEW j \in 1..n
  PROVE  \E i \in 1..n : f[i] = j
<1>1. IsFiniteSet(1..n)
  BY FS_Interval
<1>2. f \in Injection(1..n, 1..n)
  BY DEF Reorderings, Injection, IsInjective
<1>3. f \in Surjection(1..n, 1..n)
  BY <1>1, <1>2, FS_Injection
<1> QED BY <1>3 DEF Surjection

(* One reordering after another is a reordering.                           *)
LEMMA ReorderingsCompose ==
  ASSUME NEW n \in Nat, NEW f \in Reorderings(n), NEW g \in Reorderings(n)
  PROVE  [i \in 1..n |-> f[g[i]]] \in Reorderings(n)
BY DEF Reorderings

(* The order of appending is one of the reorderings.                       *)
LEMMA ReorderingIdentity ==
  ASSUME NEW n \in Nat
  PROVE  [i \in 1..n |-> i] \in Reorderings(n)
BY DEF Reorderings

-----------------------------------------------------------------------------
(* The order of sort() and the comparison of the lookups.                  *)

(* Lengths are compared before characters: a total order.                  *)
LEMMA TextLessOrder ==
  ASSUME NEW t \in Text, NEW u \in Text
  PROVE  /\ ~TextLess(t, t)
         /\ t = u \/ TextLess(t, u) \/ TextLess(u, t)
         /\ TextLess(t, u) <=> \/ Length[t] < Length[u]
                               \/ Length[t] = Length[u] /\ <<t, u>> \in Before
         /\ \A v \in Text : TextLess(t, u) /\ TextLess(u, v) => TextLess(t, v)
<1>1. \A v \in Text : Length[v] \in Nat
  BY TextAssumption
<1>2. ~TextLess(t, t)
  BY <1>1, TextAssumption DEF TextLess
<1>3. t = u \/ TextLess(t, u) \/ TextLess(u, t)
  BY <1>1, TextAssumption DEF TextLess
<1>4. ASSUME NEW v \in Text, TextLess(t, u), TextLess(u, v) PROVE TextLess(t, v)
  BY <1>1, <1>4, TextAssumption DEF TextLess
<1> QED BY <1>2, <1>3, <1>4 DEF TextLess

(* A key made for a member of the text reads as that member's text, and    *)
(* its length is the text's.                                               *)
LEMMA StoredKeys ==
  ASSUME parsed \in Documents, NEW o \in DOMAIN parsed, NEW i \in DOMAIN parsed[o]
  PROVE  LET text == parsed[o][i].text
             key == MemberKey(o, i, text)
         IN  /\ text \in Text /\ parsed[o][i].value \in Value
             /\ key \in Key
             /\ KeyLength(key) = Length[text]
             /\ source => resolveKey(key) = text
<1> DEFINE text == parsed[o][i].text
<1> DEFINE M == [text : Text, value : Value, escaped : BOOLEAN]
<1>1. parsed \in Seq(Seq(M))
  BY DocumentAssumption
<1>2. parsed[o] \in Seq(M)
  <2> HIDE DEF M
  <2> QED BY <1>1
<1>3. parsed[o][i] \in M
  <2> HIDE DEF M
  <2> QED BY <1>2
<1>4. text \in Text /\ parsed[o][i].value \in Value /\ Length[text] \in Nat /\ SsoMax \in Nat
  BY <1>3, TextAssumption
<1>5. o \in Nat \ {0} /\ i \in Nat \ {0}
  <2> HIDE DEF M
  <2> QED BY <1>1, <1>2
<1>6. CASE Length[text] <= SsoMax
  BY <1>4, <1>6 DEF MemberKey, Key, KeyLength, resolveKey
<1>7. CASE ~(Length[text] <= SsoMax)
  <2> DEFINE key == [sso |-> FALSE, index |-> <<o, i>>, length |-> Length[text]]
  <2>1. MemberKey(o, i, text) = key
    BY <1>7 DEF MemberKey
  <2>2. key \in Key
    BY <1>4, <1>5 DEF Key
  <2>3. KeyLength(key) = Length[text]
    BY DEF KeyLength
  <2>4. source => resolveKey(key) = text
    BY DEF resolveKey, StringAt
  <2> QED BY <1>4, <2>1, <2>2, <2>3, <2>4
<1> QED BY <1>6, <1>7

(* The members of an object as it was parsed.                              *)
LEMMA StoredMembers ==
  ASSUME parsed \in Documents, NEW o \in DOMAIN parsed
  PROVE  LET n == Len(parsed[o])
             stored == StoredObject(parsed, o).members
         IN  /\ n \in Nat /\ DOMAIN parsed[o] = 1..n
             /\ stored \in [1..n -> [key : Key, value : Value]]
             /\ \A i \in 1..n : /\ stored[i].key = MemberKey(o, i, parsed[o][i].text)
                                /\ stored[i].value = parsed[o][i].value
<1> DEFINE M == [text : Text, value : Value, escaped : BOOLEAN]
<1> DEFINE n == Len(parsed[o])
<1>1. n \in Nat /\ DOMAIN parsed[o] = 1..n
  <2>1. parsed \in Seq(Seq(M))
    BY DocumentAssumption
  <2> HIDE DEF M
  <2> QED BY <2>1
<1>2. \A i \in 1..n : /\ MemberKey(o, i, parsed[o][i].text) \in Key
                      /\ parsed[o][i].value \in Value
  BY <1>1, StoredKeys
<1> QED BY <1>1, <1>2 DEF StoredObject

-----------------------------------------------------------------------------
(* Types are preserved because what members stand in an object never       *)
(* changes, only their order does.                                         *)

Arrangements(d, o) ==
  {[i \in 1..Len(d[o]) |-> StoredObject(d, o).members[f[i]]] : f \in Reorderings(Len(d[o]))}

Kept == \A o \in Objects : Members(o) \in Arrangements(parsed, o)

IInv == TypeOK /\ Kept /\ SortedInOrder

(* Member i of an object is the member f[i] of the text, and what the      *)
(* comparisons read of its key is its text and its length.                 *)
LEMMA MembersRead ==
  ASSUME TypeOK, Kept, NEW o \in Objects
  PROVE  LET n == Len(parsed[o])
         IN  /\ n \in Nat /\ DOMAIN parsed[o] = 1..n
             /\ DOMAIN Members(o) = 1..n /\ Len(Members(o)) = n
             /\ \E f \in Reorderings(n) : \A i \in 1..n :
                  /\ Members(o)[i].key \in Key /\ Members(o)[i].value \in Value
                  /\ parsed[o][f[i]].text \in Text
                  /\ KeyLength(Members(o)[i].key) = Length[parsed[o][f[i]].text]
                  /\ source => resolveKey(Members(o)[i].key) = parsed[o][f[i]].text
                  /\ Members(o)[i].value = parsed[o][f[i]].value
<1> DEFINE n == Len(parsed[o])
           stored == StoredObject(parsed, o).members
<1>1. parsed \in Documents /\ o \in DOMAIN parsed
  BY DEF TypeOK, Objects
<1>2. /\ n \in Nat /\ DOMAIN parsed[o] = 1..n
      /\ stored \in [1..n -> [key : Key, value : Value]]
      /\ \A i \in 1..n : /\ stored[i].key = MemberKey(o, i, parsed[o][i].text)
                         /\ stored[i].value = parsed[o][i].value
  BY <1>1, StoredMembers
<1>3. \A i \in 1..n : /\ parsed[o][i].text \in Text
                      /\ KeyLength(stored[i].key) = Length[parsed[o][i].text]
                      /\ source => resolveKey(stored[i].key) = parsed[o][i].text
  BY <1>1, <1>2, StoredKeys
<1>4. PICK f \in Reorderings(n) : Members(o) = [i \in 1..n |-> stored[f[i]]]
  BY DEF Kept, Arrangements
<1>5. f \in [1..n -> 1..n]
  BY <1>4 DEF Reorderings
<1> HIDE DEF n, stored
<1>6. DOMAIN Members(o) = 1..n
  BY <1>4
<1>7. Members(o) \in Seq([key : Key, value : Value])
  BY DEF TypeOK, Members
<1>8. Len(Members(o)) = n
  BY <1>2, <1>6, <1>7
<1>9. \A i \in 1..n :
        /\ Members(o)[i].key \in Key /\ Members(o)[i].value \in Value
        /\ parsed[o][f[i]].text \in Text
        /\ KeyLength(Members(o)[i].key) = Length[parsed[o][f[i]].text]
        /\ source => resolveKey(Members(o)[i].key) = parsed[o][f[i]].text
        /\ Members(o)[i].value = parsed[o][f[i]].value
  BY <1>2, <1>3, <1>4, <1>5
<1> QED BY <1>2, <1>6, <1>8, <1>9 DEF n

(* What the invariant keeps of the members is what the run states.         *)
LEMMA KeptMembers == TypeOK /\ Kept => MembersKept
<1> SUFFICES ASSUME TypeOK, Kept, source, NEW o \in Objects
             PROVE  /\ Len(Members(o)) = Len(parsed[o])
                    /\ \E f \in Reorderings(Len(parsed[o])) : \A i \in DOMAIN Members(o) :
                         /\ resolveKey(Members(o)[i].key) = parsed[o][f[i]].text
                         /\ Members(o)[i].value = parsed[o][f[i]].value
  BY DEF MembersKept
<1> QED BY MembersRead

-----------------------------------------------------------------------------
(* The invariant.                                                          *)

(* A document as the parser leaves it.                                     *)
LEMMA InitIInv == Init => IInv
<1> SUFFICES ASSUME Init PROVE IInv
  OBVIOUS
<1>1. parsed \in Documents /\ DOMAIN objects = DOMAIN parsed /\ source = TRUE /\ view = None
  BY DEF Init
<1> DEFINE M == [key : Key, value : Value]
           stored(o) == StoredObject(parsed, o).members
<1>2. ASSUME NEW o \in DOMAIN parsed
      PROVE  /\ Members(o) = stored(o) /\ objects[o].is_sorted = FALSE
             /\ Len(parsed[o]) \in Nat /\ stored(o) \in [1..Len(parsed[o]) -> M]
             /\ objects[o] \in [members : Seq(M), is_sorted : BOOLEAN]
  <2>1. objects[o] = [members |-> stored(o), is_sorted |-> FALSE]
    BY <1>2 DEF Init, StoredObject
  <2>2. Len(parsed[o]) \in Nat /\ stored(o) \in [1..Len(parsed[o]) -> M]
    BY <1>1, <1>2, StoredMembers
  <2> HIDE DEF stored, M
  <2>3. stored(o) \in Seq(M)
    BY <2>2
  <2> QED BY <2>1, <2>2, <2>3 DEF Members
<1>3. \A o \in Objects : /\ objects[o] \in [members : Seq(M), is_sorted : BOOLEAN]
                         /\ objects[o].is_sorted = FALSE
  <2> HIDE DEF stored, M
  <2> QED BY <1>1, <1>2 DEF Objects
<1>4. TypeOK
  BY <1>1, <1>3 DEF TypeOK
<1>5. Kept
  <2> SUFFICES ASSUME NEW o \in DOMAIN parsed
               PROVE  Members(o) \in Arrangements(parsed, o)
    BY <1>1 DEF Kept, Objects
  <2> DEFINE id == [j \in 1..Len(parsed[o]) |-> j]
  <2>1. id \in Reorderings(Len(parsed[o]))
    BY <1>2, ReorderingIdentity
  <2>2. Members(o) = stored(o)
    BY <1>2
  <2> HIDE DEF stored, M
  <2>3. Members(o) = [i \in 1..Len(parsed[o]) |-> stored(o)[id[i]]]
    BY <1>2, <2>2
  <2> QED BY <2>1, <2>3 DEF stored, Arrangements
<1>6. SortedInOrder
  BY <1>3 DEF SortedInOrder
<1> QED BY <1>4, <1>5, <1>6 DEF IInv

(* What Sort leaves of one object: the same members, reordered, or, if     *)
(* they have been sorted, in order.                                        *)
LEMMA SortStep ==
  ASSUME IInv, Sort, NEW o \in Objects
  PROVE  /\ source /\ DOMAIN objects' = DOMAIN objects
         /\ \/ objects'[o] = objects[o]
            \/ \E f \in Reorderings(Len(parsed[o])) :
                 /\ objects'[o].members = [i \in 1..Len(parsed[o]) |-> Members(o)[f[i]]]
                 /\ objects'[o] \in [members : Seq([key : Key, value : Value]), is_sorted : BOOLEAN]
                 /\ \A i, j \in 1..Len(parsed[o]) : i < j =>
                      ~TextLess(resolveKey(Members(o)[f[j]].key), resolveKey(Members(o)[f[i]].key))
<1> DEFINE n == Len(parsed[o])
           M == [key : Key, value : Value]
           Sortable == {k \in Objects : Sorts(k)}
<1>1. PICK order \in [Sortable -> UNION {SortedOrders(Members(k)) : k \in Sortable}] :
        /\ \A k \in DOMAIN order : order[k] \in SortedOrders(Members(k))
        /\ objects' = [k \in Objects |->
                         IF Sorts(k) THEN SortedObject(k, order[k]) ELSE objects[k]]
  BY DEF Sort
<1>2. source /\ DOMAIN objects' = DOMAIN objects
  BY <1>1 DEF Sort, Objects
<1>3. /\ n \in Nat /\ DOMAIN Members(o) = 1..n /\ Len(Members(o)) = n
      /\ \A i \in 1..n : Members(o)[i] \in M
  <2>1. n \in Nat /\ DOMAIN Members(o) = 1..n /\ Len(Members(o)) = n
    BY MembersRead DEF IInv
  <2>2. Members(o) \in Seq(M)
    BY DEF IInv, TypeOK, Members
  <2> HIDE DEF n, M
  <2> QED BY <2>1, <2>2
<1>4. CASE ~Sorts(o)
  BY <1>1, <1>2, <1>4
<1>5. CASE Sorts(o)
  <2> DEFINE f == order[o]
  <2>1. f \in SortedOrders(Members(o))
    BY <1>1, <1>5
  <2>2. /\ f \in Reorderings(n)
        /\ \A i, j \in 1..n : i < j =>
             ~TextLess(resolveKey(Members(o)[f[j]].key), resolveKey(Members(o)[f[i]].key))
    BY <2>1, <1>3 DEF SortedOrders
  <2>3. f \in [1..n -> 1..n]
    BY <2>2 DEF Reorderings
  <2>4. objects'[o] = [members |-> [i \in 1..n |-> Members(o)[f[i]]], is_sorted |-> TRUE]
    BY <1>1, <1>3, <1>5 DEF SortedObject, Reordered
  <2>5. [i \in 1..n |-> Members(o)[f[i]]] \in Seq(M)
    <3> HIDE DEF n, M, f
    <3> QED BY <1>3, <2>3
  <2>6. objects'[o] \in [members : Seq(M), is_sorted : BOOLEAN]
    <3> HIDE DEF n, M, f
    <3> QED BY <2>4, <2>5
  <2>7. objects'[o].members = [i \in 1..n |-> Members(o)[f[i]]]
    BY <2>4
  <2> HIDE DEF f
  <2> QED BY <1>2, <2>2, <2>6, <2>7
<1> QED BY <1>4, <1>5

(* sort() on one object.                                                   *)
LEMMA SortIInv == IInv /\ Sort => IInv'
<1> SUFFICES ASSUME IInv, Sort PROVE IInv'
  OBVIOUS
<1> DEFINE M == [key : Key, value : Value]
<1>1. UNCHANGED <<parsed, source, view>>
  BY DEF Sort
<1>2. DOMAIN objects' = DOMAIN objects /\ DOMAIN objects = DOMAIN parsed
  BY DEF Sort, Objects, IInv, TypeOK
<1>3. TypeOK'
  <2>1. \A o \in Objects : objects'[o] \in [members : Seq(M), is_sorted : BOOLEAN]
    BY SortStep DEF IInv, TypeOK
  <2> QED BY <1>1, <1>2, <2>1 DEF IInv, TypeOK, Objects
<1>4. Kept'
  <2> SUFFICES ASSUME NEW o \in Objects
               PROVE  objects'[o].members \in Arrangements(parsed, o)
    BY <1>1, <1>2 DEF Kept, Objects, Members
  <2> DEFINE n == Len(parsed[o])
             stored == StoredObject(parsed, o).members
  <2>1. PICK f \in Reorderings(n) : Members(o) = [i \in 1..n |-> stored[f[i]]]
    BY DEF IInv, Kept, Arrangements
  <2>2. CASE objects'[o] = objects[o]
    BY <2>2 DEF IInv, Kept, Members
  <2>3. ASSUME NEW g \in Reorderings(n),
               objects'[o].members = [i \in 1..n |-> Members(o)[g[i]]]
        PROVE  objects'[o].members \in Arrangements(parsed, o)
    <3> DEFINE h == [i \in 1..n |-> f[g[i]]]
    <3>1. n \in Nat
      BY MembersRead DEF IInv
    <3>2. h \in Reorderings(n)
      BY <3>1, ReorderingsCompose
    <3>3. g \in [1..n -> 1..n] /\ f \in [1..n -> 1..n]
      BY DEF Reorderings
    <3>4. objects'[o].members = [i \in 1..n |-> stored[h[i]]]
      <4> HIDE DEF n, stored
      <4> QED BY <2>1, <2>3, <3>3
    <3> HIDE DEF h
    <3> QED BY <3>2, <3>4 DEF Arrangements
  <2> QED BY <2>2, <2>3, SortStep
<1>5. SortedInOrder'
  <2> DEFINE InOrder(t, u) == \/ Length[t] < Length[u]
                              \/ Length[t] = Length[u] /\ (t = u \/ <<t, u>> \in Before)
  <2>1. \A key : resolveKey(key)' = resolveKey(key)
    BY <1>1 DEF resolveKey, StringAt
  <2> SUFFICES ASSUME NEW o \in Objects, objects'[o].is_sorted,
                      NEW i \in DOMAIN objects'[o].members, NEW j \in DOMAIN objects'[o].members,
                      i < j
               PROVE  InOrder(resolveKey(objects'[o].members[i].key),
                              resolveKey(objects'[o].members[j].key))
    BY <1>1, <1>2, <2>1 DEF SortedInOrder, Objects, Members
  <2> DEFINE n == Len(parsed[o])
  <2>2. source /\ n \in Nat /\ DOMAIN Members(o) = 1..n
    BY MembersRead, SortStep DEF IInv
  <2>3. CASE objects'[o] = objects[o]
    BY <2>2, <2>3 DEF IInv, SortedInOrder, Members
  <2>4. ASSUME NEW f \in Reorderings(n),
               objects'[o].members = [k \in 1..n |-> Members(o)[f[k]]],
               \A k, l \in 1..n : k < l =>
                 ~TextLess(resolveKey(Members(o)[f[l]].key), resolveKey(Members(o)[f[k]].key))
        PROVE  InOrder(resolveKey(objects'[o].members[i].key),
                       resolveKey(objects'[o].members[j].key))
    <3> DEFINE t == resolveKey(Members(o)[f[i]].key)
               u == resolveKey(Members(o)[f[j]].key)
    <3>1. i \in 1..n /\ j \in 1..n /\ f[i] \in 1..n /\ f[j] \in 1..n
      BY <2>4 DEF Reorderings
    <3>2. \A k \in 1..n : resolveKey(Members(o)[k].key) \in Text
      BY <2>2, MembersRead DEF IInv
    <3>3. t \in Text /\ u \in Text /\ ~TextLess(u, t)
      BY <2>4, <3>1, <3>2
    <3>4. t = u \/ TextLess(t, u)
      <4> HIDE DEF t, u
      <4> QED BY <3>3, TextLessOrder
    <3>5. InOrder(t, u)
      <4> HIDE DEF t, u
      <4> QED BY <3>4 DEF TextLess
    <3> QED BY <2>4, <3>1, <3>5
  <2> HIDE DEF n, InOrder
  <2>5. \/ objects'[o] = objects[o]
        \/ \E f \in Reorderings(n) :
             /\ objects'[o].members = [k \in 1..n |-> Members(o)[f[k]]]
             /\ \A k, l \in 1..n : k < l =>
                  ~TextLess(resolveKey(Members(o)[f[l]].key), resolveKey(Members(o)[f[k]].key))
    BY SortStep DEF n
  <2> QED BY <2>3, <2>4, <2>5
<1> QED BY <1>3, <1>4, <1>5 DEF IInv

(* The other operations change no object.                                  *)
LEMMA HoldIInv ==
  ASSUME IInv, NEW o \in Objects, NEW i \in DOMAIN Members(o), HoldMember(o, i)
  PROVE  IInv'
<1> DEFINE m == Members(o)[i]
           at == IF m.key.sso THEN <<o, i>> ELSE m.key.index
<1>1. /\ source /\ UNCHANGED <<parsed, objects, source>>
      /\ view' = [inline |-> m.key.sso, at |-> at, text |-> resolveKey(m.key), value |-> m.value,
                  is_sorted |-> objects[o].is_sorted]
  BY DEF HoldMember
<1>2. i \in Nat /\ m.key \in Key /\ m.value \in Value /\ resolveKey(m.key) \in Text
  BY <1>1, MembersRead DEF IInv
<1>3. o \in Nat
  <2> DEFINE S == Seq([text : Text, value : Value, escaped : BOOLEAN])
  <2>1. parsed \in Seq(S) /\ o \in DOMAIN parsed
    BY DocumentAssumption DEF IInv, TypeOK, Objects
  <2> HIDE DEF S
  <2> QED BY <2>1
<1>4. m.key.sso \in BOOLEAN /\ at \in Nat \X Nat
  <2> HIDE DEF m
  <2> QED BY <1>2, <1>3 DEF Key
<1>5. view' \in [inline : BOOLEAN, at : Nat \X Nat, text : Text, value : Value,
                is_sorted : BOOLEAN]
  <2>1. objects[o].is_sorted \in BOOLEAN
    BY DEF IInv, TypeOK, Objects
  <2> HIDE DEF m, at
  <2> QED BY <1>1, <1>2, <1>4, <2>1
<1>6. TypeOK'
  BY <1>1, <1>5 DEF IInv, TypeOK, Objects
<1>7. Kept' /\ SortedInOrder'
  <2>1. \A key : resolveKey(key)' = resolveKey(key)
    BY <1>1 DEF resolveKey, StringAt
  <2> QED BY <1>1, <2>1 DEF IInv, Kept, SortedInOrder, Objects, Members
<1> QED BY <1>6, <1>7 DEF IInv

(* No operation disturbs the invariant.                                    *)
LEMMA NextIInv == IInv /\ [Next]_vars => IInv'
<1> SUFFICES ASSUME IInv, [Next]_vars PROVE IInv'
  OBVIOUS
<1>1. CASE Sort
  BY <1>1, SortIInv
<1>2. ASSUME NEW o \in Objects, NEW i \in DOMAIN Members(o), HoldMember(o, i) PROVE IInv'
  BY <1>2, HoldIInv
<1>3. ASSUME UNCHANGED <<parsed, objects, source>>, view' \in {view, None} PROVE IInv'
  <2>1. \A key : resolveKey(key)' = resolveKey(key)
    BY <1>3 DEF resolveKey, StringAt
  <2>2. TypeOK'
    BY <1>3 DEF IInv, TypeOK, Objects
  <2> QED BY <1>3, <2>1, <2>2 DEF IInv, Kept, SortedInOrder, Objects, Members
<1>4. CASE ReleaseSource
  <2>1. TypeOK' /\ source' = FALSE
    BY <1>4 DEF ReleaseSource, IInv, TypeOK, Objects
  <2>2. Kept'
    BY <1>4 DEF ReleaseSource, IInv, Kept, Objects, Members
  <2> QED BY <2>1, <2>2 DEF IInv, SortedInOrder
<1> QED BY <1>1, <1>2, <1>3, <1>4 DEF Next, DropMember, vars

(* Types, Kept and SortedInOrder hold together in every state.             *)
THEOREM Invariance == Spec => []IInv
<1>1. Init => IInv
  BY InitIInv
<1>2. IInv /\ [Next]_vars => IInv'
  BY NextIInv
<1> QED BY <1>1, <1>2, PTL DEF Spec

(* Sorting, however often and with whatever ties, loses, repeats or mixes  *)
(* no member: key and value move together.                                 *)
THEOREM MembersSafe == Spec => []MembersKept
<1>1. IInv => MembersKept
  BY KeptMembers DEF IInv
<1> QED BY <1>1, Invariance, PTL

(* An object flagged as sorted is in the order its lookups assume.         *)
THEOREM OrderSafe == Spec => []SortedInOrder
<1>1. IInv => SortedInOrder
  BY DEF IInv
<1> QED BY <1>1, Invariance, PTL

-----------------------------------------------------------------------------
(* The lookups.                                                            *)

KeyText(o, i) == resolveKey(Members(o)[i].key)

(* What the searches see of an object: texts, in order if it is sorted,    *)
(* and two comparison functions that agree.                                *)
LEMMA KeysSeen ==
  ASSUME IInv, source, NEW o \in Objects
  PROVE  LET n == Len(Members(o))
         IN  /\ n \in Nat /\ DOMAIN Members(o) = 1..n
             /\ \A i \in 1..n : KeyText(o, i) \in Text /\ Members(o)[i].value \in Value
             /\ \A i \in 1..n : \A text \in Text :
                  KeyLess(Members(o)[i].key, text) <=> TextLess(KeyText(o, i), text)
             /\ objects[o].is_sorted => \A i, j \in 1..n : i < j =>
                  KeyText(o, i) = KeyText(o, j) \/ TextLess(KeyText(o, i), KeyText(o, j))
<1> DEFINE n == Len(Members(o))
<1>1. n = Len(parsed[o]) /\ n \in Nat /\ DOMAIN Members(o) = 1..n
  BY MembersRead DEF IInv
<1>2. \A i \in 1..n : /\ KeyText(o, i) \in Text /\ Members(o)[i].value \in Value
                      /\ KeyLength(Members(o)[i].key) = Length[KeyText(o, i)]
  BY <1>1, MembersRead DEF IInv, KeyText
<1>3. \A i \in 1..n : \A text \in Text :
        KeyLess(Members(o)[i].key, text) <=> TextLess(KeyText(o, i), text)
  <2> SUFFICES ASSUME NEW i \in 1..n, NEW text \in Text
               PROVE  KeyLess(Members(o)[i].key, text) <=> TextLess(KeyText(o, i), text)
    OBVIOUS
  <2> DEFINE key == Members(o)[i].key
  <2>1. KeyLength(key) = Length[resolveKey(key)]
    BY <1>2 DEF KeyText
  <2> HIDE DEF key
  <2>2. KeyLess(key, text) <=> TextLess(resolveKey(key), text)
    BY <2>1 DEF KeyLess, TextLess
  <2> QED BY <2>2 DEF key, KeyText
<1>4. ASSUME objects[o].is_sorted, NEW i \in 1..n, NEW j \in 1..n, i < j
      PROVE  KeyText(o, i) = KeyText(o, j) \/ TextLess(KeyText(o, i), KeyText(o, j))
  <2> DEFINE t == KeyText(o, i)
             u == KeyText(o, j)
  <2>1. Length[t] < Length[u] \/ (Length[t] = Length[u] /\ (t = u \/ <<t, u>> \in Before))
    BY <1>1, <1>4 DEF IInv, SortedInOrder, KeyText
  <2> HIDE DEF t, u
  <2>2. t = u \/ TextLess(t, u)
    BY <2>1 DEF TextLess
  <2> QED BY <2>2 DEF t, u
<1> QED BY <1>1, <1>2, <1>3, <1>4

(* A search ends at a member with the key, or past the end if there is     *)
(* none.                                                                   *)
LEMMA SearchExact ==
  ASSUME IInv, source, NEW o \in Objects, NEW text \in Text
  PROVE  LET n == Len(Members(o))
         IN  /\ Positions(o, text) # {}
             /\ Positions(o, text) = RootPositions(o, text)
             /\ \A p \in Positions(o, text) :
                  /\ p \in 1..(n + 1)
                  /\ p <= n => KeyText(o, p) = text
                  /\ p > n => \A i \in 1..n : KeyText(o, i) # text
<1> DEFINE n == Len(Members(o))
           t(i) == KeyText(o, i)
<1>1. /\ n \in Nat /\ DOMAIN Members(o) = 1..n
      /\ \A i \in 1..n : t(i) \in Text
      /\ \A i \in 1..n : KeyLess(Members(o)[i].key, text) <=> TextLess(t(i), text)
  BY KeysSeen
<1>2. CASE objects[o].is_sorted
  <2> DEFINE less == [i \in 1..n |-> KeyLess(Members(o)[i].key, text)]
             points == {p \in 1..(n + 1) : \A i \in 1..n : less[i] <=> i < p}
             S == {i \in 1..n : TextLess(t(i), text)}
  <2>1. \A i, j \in 1..n : i < j => t(i) = t(j) \/ TextLess(t(i), t(j))
    BY <1>2, KeysSeen
  <2>2. \A i \in 1..n : less[i] <=> TextLess(t(i), text)
    BY <1>1
  <2>3. points # {}
    <3>1. \A i \in S : \A k \in 1..i : k \in S
      <4> SUFFICES ASSUME NEW i \in 1..n, TextLess(t(i), text), NEW k \in 1..i
                   PROVE  k \in 1..n /\ TextLess(t(k), text)
        OBVIOUS
      <4>1. k \in 1..n /\ (k = i \/ k < i)
        BY <1>1
      <4>2. t(k) \in Text /\ t(i) \in Text
        BY <1>1, <4>1
      <4>3. t(k) = t(i) \/ TextLess(t(k), t(i))
        BY <2>1, <4>1
      <4> HIDE DEF t
      <4> QED BY <4>1, <4>2, <4>3, TextLessOrder
    <3>2. S \in SUBSET (1..n)
      OBVIOUS
    <3> HIDE DEF n, t
    <3>3. PICK c \in 0..n : S = 1..c
      <4> HIDE DEF S
      <4> QED BY <1>1, <3>1, <3>2, InitialSegment
    <3>4. c + 1 \in points
      <4>1. \A i \in 1..n : i \in S <=> i < c + 1
        <5> HIDE DEF S
        <5> QED BY <1>1, <3>3
      <4>2. \A i \in 1..n : less[i] <=> i \in S
        BY <2>2
      <4>3. c + 1 \in 1..(n + 1)
        BY <1>1
      <4> HIDE DEF less, S
      <4> QED BY <4>1, <4>2, <4>3
    <3> QED BY <3>4
  <2>4. /\ Positions(o, text) = {IF q <= n /\ t(q) = text THEN q ELSE n + 1 : q \in points}
        /\ RootPositions(o, text) = Positions(o, text)
    <3>1. less = [i \in DOMAIN Members(o) |-> KeyLess(Members(o)[i].key, text)]
      BY <1>1
    <3>2. less = [i \in DOMAIN Members(o) |-> TextLess(resolveKey(Members(o)[i].key), text)]
      <4>1. \A i \in DOMAIN Members(o) :
              KeyLess(Members(o)[i].key, text) = TextLess(resolveKey(Members(o)[i].key), text)
        BY <1>1 DEF KeyText, KeyLess, TextLess
      <4> QED BY <1>1, <4>1
    <3>3. LowerBounds(n, less) = points
      BY <2>3 DEF LowerBounds
    <3> HIDE DEF less, points
    <3> QED BY <1>2, <3>1, <3>2, <3>3 DEF Positions, RootPositions, KeyText
  <2>5. ASSUME NEW q \in points
        PROVE  LET p == IF q <= n /\ t(q) = text THEN q ELSE n + 1
               IN  /\ p \in 1..(n + 1)
                   /\ p <= n => t(p) = text
                   /\ p > n => \A i \in 1..n : t(i) # text
    <3>1. q \in 1..(n + 1) /\ \A i \in 1..n : TextLess(t(i), text) <=> i < q
      BY <2>2
    <3>2. ASSUME NEW i \in 1..n, t(i) = text PROVE q <= n /\ t(q) = text
      <4>1. ~TextLess(t(i), text)
        BY <3>2, TextLessOrder
      <4>2. q \in 1..n /\ q <= i
        BY <1>1, <3>1, <4>1
      <4>3. ~TextLess(t(q), text)
        BY <3>1, <4>2
      <4> QED BY <2>1, <3>2, <4>2, <4>3
    <3> HIDE DEF n, t
    <3> QED BY <1>1, <3>1, <3>2
  <2> HIDE DEF n, t, points
  <2> QED BY <2>3, <2>4, <2>5 DEF n, t
<1>3. CASE ~objects[o].is_sorted
  <2> DEFINE S == {i \in 1..n : \A k \in 1..i : t(k) # text}
             found == {p \in 1..(n + 1) : /\ \A i \in 1..n : i < p => t(i) # text
                                          /\ p <= n => t(p) = text}
  <2>1. Positions(o, text) = found /\ RootPositions(o, text) = found
    BY <1>1, <1>3 DEF Positions, RootPositions, FindKey, KeyText
  <2>2. found # {}
    <3> HIDE DEF n, t
    <3>1. S \in SUBSET (1..n) /\ \A i \in S : \A k \in 1..i : k \in S
      BY <1>1
    <3>2. PICK c \in 0..n : S = 1..c
      <4> HIDE DEF S
      <4> QED BY <1>1, <3>1, InitialSegment
    <3>3. \A i \in 1..n : i < c + 1 => t(i) # text
      <4>1. \A i \in 1..n : i < c + 1 => i \in S
        <5> HIDE DEF S
        <5> QED BY <1>1, <3>2
      <4> QED BY <4>1
    <3>4. c + 1 <= n => t(c + 1) = text
      <4> SUFFICES ASSUME c + 1 <= n, t(c + 1) # text PROVE FALSE
        OBVIOUS
      <4>1. c + 1 \in S
        BY <1>1, <3>3
      <4> HIDE DEF S
      <4> QED BY <1>1, <3>2, <4>1
    <3>5. c + 1 \in found
      BY <1>1, <3>3, <3>4
    <3> QED BY <3>5
  <2>3. \A p \in found : /\ p \in 1..(n + 1)
                         /\ p <= n => t(p) = text
                         /\ p > n => \A i \in 1..n : t(i) # text
    <3> HIDE DEF n, t
    <3> QED BY <1>1
  <2> HIDE DEF found
  <2> QED BY <2>1, <2>2, <2>3
<1> QED BY <1>2, <1>3

(* What the members of the text say a lookup may return.                   *)
Matches(o, text) == {i \in DOMAIN parsed[o] : parsed[o][i].text = text}

(* A lookup returns the value of a member with that key, or nothing.       *)
LEMMA LookupValues ==
  ASSUME IInv, source, NEW o \in Objects, NEW text \in Text
  PROVE  /\ At(o, text) # {}
         /\ Matches(o, text) = {} => At(o, text) = {Missing}
         /\ Matches(o, text) # {} =>
              \A r \in At(o, text) : \E i \in Matches(o, text) : r = parsed[o][i].value
         /\ RootAt(o, text) = At(o, text)
         /\ Contains(o, text) = {r # Missing : r \in At(o, text)}
<1> DEFINE n == Len(Members(o))
           P == Positions(o, text)
<1>1. PICK f \in Reorderings(n) : \A i \in 1..n :
        /\ KeyText(o, i) = parsed[o][f[i]].text
        /\ Members(o)[i].value = parsed[o][f[i]].value
        /\ Members(o)[i].value \in Value
  BY MembersRead DEF IInv, KeyText
<1>2. n \in Nat /\ DOMAIN parsed[o] = 1..n /\ n = Len(Members(o))
  BY MembersRead DEF IInv
<1>3. f \in [1..n -> 1..n]
  BY <1>1 DEF Reorderings
<1>4. /\ P # {} /\ P = RootPositions(o, text)
      /\ \A p \in P : /\ p \in 1..(n + 1)
                      /\ p <= n => KeyText(o, p) = text
                      /\ p > n => \A i \in 1..n : KeyText(o, i) # text
  BY SearchExact
<1>5. /\ At(o, text) = {ValueAt(o, p) : p \in P}
      /\ RootAt(o, text) = {ValueAt(o, p) : p \in P}
      /\ Contains(o, text) = {p <= n : p \in P}
  BY <1>4 DEF At, RootAt, Contains
<1>6. ASSUME NEW p \in P
      PROVE  /\ p <= n => /\ ValueAt(o, p) # Missing
                          /\ f[p] \in Matches(o, text) /\ ValueAt(o, p) = parsed[o][f[p]].value
             /\ ~(p <= n) => ValueAt(o, p) = Missing /\ Matches(o, text) = {}
  <2>1. CASE p <= n
    <3>1. p \in 1..n
      BY <1>2, <1>4, <2>1
    <3>2. ValueAt(o, p) = Members(o)[p].value
      BY <2>1 DEF ValueAt
    <3>3. f[p] \in DOMAIN parsed[o] /\ parsed[o][f[p]].text = text
      BY <1>1, <1>2, <1>3, <1>4, <3>1
    <3> QED BY <1>1, <2>1, <3>1, <3>2, <3>3, ValueAssumption DEF Matches
  <2>2. CASE ~(p <= n)
    <3>1. \A i \in 1..n : KeyText(o, i) # text
      BY <1>2, <1>4, <2>2
    <3>2. \A j \in 1..n : \E i \in 1..n : f[i] = j
      BY <1>1, <1>2, ReorderingOnto
    <3>3. Matches(o, text) = {}
      <4> SUFFICES ASSUME NEW j \in 1..n, parsed[o][j].text = text PROVE FALSE
        BY <1>2 DEF Matches
      <4>1. PICK i \in 1..n : f[i] = j
        BY <3>2
      <4> QED BY <1>1, <3>1, <4>1
    <3>4. ValueAt(o, p) = Missing
      BY <2>2 DEF ValueAt
    <3> QED BY <2>2, <3>3, <3>4
  <2> QED BY <2>1, <2>2
<1> HIDE DEF P, n
<1>7. \A p \in P : (p <= n) = (ValueAt(o, p) # Missing)
  BY <1>6
<1>8. Contains(o, text) = {r # Missing : r \in At(o, text)}
  BY <1>5, <1>7
<1>9. At(o, text) # {}
  BY <1>4, <1>5
<1>10. Matches(o, text) = {} => At(o, text) = {Missing}
  BY <1>5, <1>6, <1>9
<1>11. Matches(o, text) # {} =>
         \A r \in At(o, text) : \E i \in Matches(o, text) : r = parsed[o][i].value
  BY <1>5, <1>6
<1> QED BY <1>5, <1>8, <1>9, <1>10, <1>11

(* The same of the state before and the state after a step.                *)
OnlyMatches(o, text) ==
  /\ At(o, text) # {}
  /\ Matches(o, text) = {} => At(o, text) = {Missing}
  /\ Matches(o, text) # {} =>
       \A r \in At(o, text) : \E i \in Matches(o, text) : r = parsed[o][i].value

(* The same in this state, as a formula that can be primed.                *)
LEMMA LookupValuesHere == IInv /\ source => \A o \in Objects : \A text \in Text : OnlyMatches(o, text)
BY LookupValues DEF OnlyMatches

(* And in the next one.                                                    *)
LEMMA LookupValuesNext ==
  IInv' /\ source' => \A o \in Objects' : \A text \in Text : OnlyMatches(o, text)'
<1>1. (IInv /\ source => \A o \in Objects : \A text \in Text : OnlyMatches(o, text))'
  BY LookupValuesHere, PTL
<1> QED BY <1>1

(* Lookup is exact: before and after sort(), with the linear search and    *)
(* with the binary search, at(key) finds a member of the text with that    *)
(* key, and reports a missing key only if no member has it.                *)
THEOREM LookupSafe == Spec => []LookupExact
<1>1. IInv => LookupExact
  <2> SUFFICES ASSUME IInv, source, NEW o \in Objects, NEW text \in Text
               PROVE  LET values == {parsed[o][i].value : i \in Matches(o, text)}
                      IN  IF values = {} THEN At(o, text) = {Missing}
                          ELSE At(o, text) # {} /\ At(o, text) \subseteq values
    BY DEF LookupExact, Matches
  <2> QED BY LookupValues
<1> QED BY <1>1, Invariance, PTL

(* at(key), contains(key) and the root's operator[], which compare keys in *)
(* two ways, agree.                                                        *)
THEOREM AgreementSafe == Spec => []LookupsAgree
<1>1. IInv => LookupsAgree
  BY LookupValues DEF LookupsAgree
<1> QED BY <1>1, Invariance, PTL

(* sort() changes the result of no lookup whose key is there at most once. *)
THEOREM SortTransparent == Spec => SortKeepsLookups
<1>1. ASSUME IInv, [Next]_vars, NEW o \in Objects, NEW text \in Text, source',
             Cardinality(Matches(o, text)) < 2
      PROVE  At(o, text)' = At(o, text)
  <2>1. IInv' /\ source /\ parsed' = parsed /\ o \in Objects'
    <3>1. IInv'
      BY NextIInv, <1>1
    <3>2. parsed' = parsed /\ DOMAIN objects' = DOMAIN objects
      BY <1>1 DEF Next, Sort, HoldMember, DropMember, ReleaseSource, vars, Objects
    <3>3. source
      BY <1>1 DEF Next, Sort, HoldMember, DropMember, ReleaseSource, vars
    <3> QED BY <3>1, <3>2, <3>3 DEF Objects
  <2>2. Matches(o, text)' = Matches(o, text)
    BY <2>1 DEF Matches
  <2>3. /\ At(o, text)' # {}
        /\ Matches(o, text) = {} => At(o, text)' = {Missing}
        /\ Matches(o, text) # {} =>
             \A r \in At(o, text)' : \E i \in Matches(o, text) : r = parsed[o][i].value
    BY <1>1, <2>1, <2>2, LookupValuesNext DEF OnlyMatches
  <2>4. /\ At(o, text) # {}
        /\ Matches(o, text) = {} => At(o, text) = {Missing}
        /\ Matches(o, text) # {} =>
             \A r \in At(o, text) : \E i \in Matches(o, text) : r = parsed[o][i].value
    BY <1>1, <2>1, LookupValuesHere DEF OnlyMatches
  <2>5. CASE Matches(o, text) = {}
    BY <2>3, <2>4, <2>5
  <2>6. CASE Matches(o, text) # {}
    <3>1. PICK i : Matches(o, text) = {i}
      <4>1. DOMAIN parsed[o] = 1..Len(parsed[o]) /\ Len(parsed[o]) \in Nat
        BY <1>1, MembersRead DEF IInv
      <4>2. IsFiniteSet(1..Len(parsed[o]))
        BY <4>1, FS_Interval
      <4>3. Matches(o, text) \in SUBSET (1..Len(parsed[o]))
        BY <4>1 DEF Matches
      <4>4. IsFiniteSet(Matches(o, text)) /\ Cardinality(Matches(o, text)) \in Nat
        BY <4>2, <4>3, FS_Subset, FS_CardinalityType
      <4>5. Cardinality(Matches(o, text)) # 0
        BY <2>6, <4>4, FS_EmptySet
      <4>6. Cardinality(Matches(o, text)) = 1
        BY <1>1, <4>4, <4>5
      <4> QED BY <4>4, <4>6, FS_Singleton
    <3> QED BY <2>3, <2>4, <3>1
  <2> QED BY <2>5, <2>6
<1>2. IInv /\ [Next]_vars => [\A o \in Objects : \A text \in Text :
         source' /\ Cardinality({i \in DOMAIN parsed[o] : parsed[o][i].text = text}) < 2
         => At(o, text)' = At(o, text)]_vars
  BY <1>1 DEF Matches
<1> QED BY <1>2, Invariance, PTL DEF Spec, SortKeepsLookups

-----------------------------------------------------------------------------
(* Views.  What a MemberView's key reads while the text is there: a short  *)
(* key is the one in the member it points to, unless the object has been   *)
(* sorted since; a long one is an entry of strings_, which never changes.  *)

ViewInv ==
  source /\ view # None =>
    IF view.inline
    THEN LET o == view.at[1]
             key == Members(o)[view.at[2]].key
         IN  /\ o \in Objects
             /\ view.is_sorted => objects[o].is_sorted
             /\ objects[o].is_sorted = view.is_sorted => key.sso /\ key.text = view.text
    ELSE StringAt(view.at) = view.text

(* A view stays bound to the string it was taken from.                     *)
LEMMA ViewStep == IInv /\ ViewInv /\ [Next]_vars => ViewInv'
<1> SUFFICES ASSUME IInv, ViewInv, [Next]_vars, source', view' # None PROVE ViewInv'
  BY DEF ViewInv
<1>1. CASE Sort
  <2>1. source /\ UNCHANGED <<parsed, source, view>>
    BY <1>1 DEF Sort
  <2>2. CASE ~view.inline
    BY <2>1, <2>2 DEF ViewInv, StringAt
  <2>3. CASE view.inline
    <3> DEFINE o == view.at[1]
    <3>1. /\ o \in Objects
          /\ view.is_sorted => objects[o].is_sorted
          /\ objects[o].is_sorted = view.is_sorted =>
               Members(o)[view.at[2]].key.sso /\ Members(o)[view.at[2]].key.text = view.text
      BY <2>1, <2>3 DEF ViewInv
    <3>2. DOMAIN objects' = Objects /\ (objects'[o] = objects[o] \/ (~objects[o].is_sorted /\ objects'[o].is_sorted))
      <4>1. PICK order : objects' = [k \in Objects |-> IF Sorts(k) THEN SortedObject(k, order[k])
                                                       ELSE objects[k]]
        BY <1>1 DEF Sort
      <4>2. objects'[o] = IF Sorts(o) THEN SortedObject(o, order[o]) ELSE objects[o]
        BY <3>1, <4>1
      <4>3. CASE Sorts(o)
        BY <4>1, <4>2, <4>3 DEF Sorts, SortedObject
      <4> QED BY <4>1, <4>2, <4>3
    <3> HIDE DEF o
    <3>3. /\ objects'[o].is_sorted = view.is_sorted => objects'[o] = objects[o]
          /\ view.is_sorted => objects'[o].is_sorted
      BY <3>1, <3>2
    <3> QED BY <2>1, <2>3, <3>1, <3>2, <3>3 DEF ViewInv, o, Members, Objects
  <2> QED BY <2>2, <2>3
<1>2. ASSUME NEW o \in Objects, NEW i \in DOMAIN Members(o), HoldMember(o, i) PROVE ViewInv'
  <2> DEFINE key == Members(o)[i].key
  <2>1. /\ view' = [inline |-> key.sso, at |-> IF key.sso THEN <<o, i>> ELSE key.index,
                    text |-> resolveKey(key), value |-> Members(o)[i].value,
                    is_sorted |-> objects[o].is_sorted]
        /\ UNCHANGED <<parsed, objects, source>>
    BY <1>2 DEF HoldMember
  <2>2. Members(o)' = Members(o) /\ Objects' = Objects
    BY <2>1 DEF Members, Objects
  <2>3. CASE key.sso
    <3>1. /\ view'.inline /\ view'.at = <<o, i>> /\ view'.text = key.text
          /\ view'.is_sorted = objects[o].is_sorted
      BY <2>1, <2>3 DEF resolveKey
    <3> QED BY <1>2, <2>1, <2>2, <2>3, <3>1 DEF ViewInv, Members
  <2>4. CASE ~key.sso
    <3>1. ~view'.inline /\ view'.at = key.index /\ view'.text = StringAt(key.index)
      BY <2>1, <2>4 DEF resolveKey
    <3>2. StringAt(key.index)' = StringAt(key.index)
      BY <2>1, <2>2 DEF StringAt, Members
    <3>3. StringAt(view.at)' = view'.text
      BY <2>1, <3>1 DEF StringAt
    <3> QED BY <3>1, <3>3 DEF ViewInv
  <2> QED BY <2>3, <2>4
<1>3. CASE UNCHANGED vars
  BY <1>3 DEF vars, ViewInv, Members, Objects, StringAt
<1> QED BY <1>1, <1>2, <1>3 DEF Next, DropMember, ReleaseSource

(* The key of a MemberView reads the same for as long as the text is there *)
(* and sort() has not moved the members it was made of: a view of a long   *)
(* key survives every sort().                                              *)
THEOREM ViewsSafe == Spec => []ViewsStable
<1>1. Init => ViewInv
  BY DEF Init, ViewInv
<1>2. IInv /\ ViewInv => ViewsStable
  <2> SUFFICES ASSUME ViewInv, IInv, source, view # None
               PROVE  ViewReads = view.text
                        \/ (view.inline /\ objects[view.at[1]].is_sorted /\ ~view.is_sorted)
    BY DEF ViewsStable
  <2>1. view.is_sorted \in BOOLEAN
    BY DEF IInv, TypeOK
  <2>2. CASE ~view.inline
    BY <2>2 DEF ViewInv, ViewReads
  <2>3. CASE view.inline
    <3>1. objects[view.at[1]].is_sorted \in BOOLEAN
      BY <2>3 DEF IInv, TypeOK, ViewInv
    <3> QED BY <2>1, <2>3, <3>1 DEF ViewInv, ViewReads
  <2> QED BY <2>2, <2>3
<1> QED BY <1>1, <1>2, ViewStep, Invariance, PTL DEF Spec

(* Every object of the document keeps its shape: well-typed members and a  *)
(* flag that is one, under any sequence of sorts and views.                *)
THEOREM TypesSafe == Spec => []TypeOK
<1>1. IInv => TypeOK
  BY DEF IInv
<1> QED BY <1>1, Invariance, PTL
=============================================================================
