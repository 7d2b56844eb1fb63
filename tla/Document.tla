------------------------------ MODULE Document ------------------------------
(***************************************************************************)
(* A parsed document in its user's hands (src/models/json.cpp, value.cpp,  *)
(* object_view.cpp, and Storage's objects_): the members of its objects,   *)
(* lookup by key with the linear and the binary search, sort(), and the    *)
(* MemberView the user keeps while all that goes on.                       *)
(***************************************************************************)
EXTENDS Integers, Sequences, FiniteSets

CONSTANTS
  Text,         \* key texts
  Length,       \* the length of each
  Before,       \* pairs of texts: lexicographic order, operator<
  Value,        \* JsonValues
  SsoMax,       \* constants::sso_max_len
  Documents,    \* the documents parsed: sequences of objects, each a
                \* sequence of [text, value, escaped]
  Missing,      \* Error::InvalidValue
  Lost,         \* what a view of freed memory reads
  None          \* no MemberView held

ASSUME TextAssumption ==
  /\ Length \in [Text -> Nat] /\ SsoMax \in Nat
  /\ Before \subseteq Text \X Text
  /\ \A t \in Text : <<t, t>> \notin Before
  /\ \A t, u \in Text : t = u \/ <<t, u>> \in Before \/ <<u, t>> \in Before
  /\ \A t, u, v \in Text : <<t, u>> \in Before /\ <<u, v>> \in Before => <<t, v>> \in Before
ASSUME ValueAssumption == Missing \notin Value /\ Lost \notin Text
ASSUME DocumentAssumption ==
  Documents \subseteq Seq(Seq([text : Text, value : Value, escaped : BOOLEAN]))

VARIABLES
  parsed,     \* what was parsed, for reference
  objects,    \* objects_: the members of each, and is_sorted
  source,     \* the parsed text has not been freed by the user
  view        \* a MemberView the user holds: key_, val_, what key_ read and
              \* whether the object was sorted when it was made

vars == <<parsed, objects, source, view>>

Objects == DOMAIN objects
Members(o) == objects[o].members

-----------------------------------------------------------------------------
(* Keys.  A short one is kept in the member, a longer one in strings_;     *)
(* its entry is named by where the member stood in the text.               *)

MemberKey(o, i, text) ==
  IF Length[text] <= SsoMax
  THEN [sso |-> TRUE, text |-> text]
  ELSE [sso |-> FALSE, index |-> <<o, i>>, length |-> Length[text]]

(* strings_[index]: the decoded copy of an escaped key, or a view of the   *)
(* parsed text.                                                            *)
StringAt(index) ==
  LET member == parsed[index[1]][index[2]]
  IN  IF member.escaped \/ source THEN member.text ELSE Lost

resolveKey(key) == IF key.sso THEN key.text ELSE StringAt(key.index)

(* Fault: a long key is given the length of the longest short one.         *)
KeyLengthTag(key) == IF key.sso THEN Length[key.text] ELSE SsoMax

(* The length, without a look at strings_.                                 *)
KeyLength(key) == IF key.sso THEN Length[key.text] ELSE key.length

(* Fault: texts of one length are not ordered.                             *)
LengthLess(t, u) == Length[t] < Length[u]

(* The order of sort(): by length, then lexicographic.                     *)
TextLess(t, u) ==
  \/ Length[t] < Length[u]
  \/ Length[t] = Length[u] /\ <<t, u>> \in Before

-----------------------------------------------------------------------------
(* Searching.                                                              *)

(* std::lower_bound: where the elements stop being less; anywhere if they  *)
(* do so more than once.  less[i]: element i is less than the key.         *)
LowerBounds(n, less) ==
  LET points == {p \in 1..(n + 1) : \A i \in 1..n : less[i] <=> i < p}
  IN  IF points # {} THEN points ELSE 1..(n + 1)

(* std::find_if: the first member with the key, or the end.                *)
FindKey(members, text) ==
  {p \in 1..(Len(members) + 1) :
     /\ \A i \in 1..Len(members) : i < p => resolveKey(members[i].key) # text
     /\ p <= Len(members) => resolveKey(members[p].key) = text}

(* Fault: the search takes the texts in lexicographic order.               *)
KeyLessText(key, text) == <<resolveKey(key), text>> \in Before

(* Value::at and Value::contains compare lengths first ...                 *)
KeyLess(key, text) ==
  \/ KeyLength(key) < Length[text]
  \/ KeyLength(key) = Length[text] /\ <<resolveKey(key), text>> \in Before

(* Fault: the result of the binary search is not compared with the key.    *)
PositionsUnchecked(o, text) ==
  LET members == Members(o)
  IN  IF objects[o].is_sorted
      THEN LowerBounds(Len(members), [i \in DOMAIN members |-> KeyLess(members[i].key, text)])
      ELSE FindKey(members, text)

Positions(o, text) ==
  LET members == Members(o)
  IN  IF objects[o].is_sorted
      THEN {IF p <= Len(members) /\ resolveKey(members[p].key) = text
            THEN p ELSE Len(members) + 1 :
              p \in LowerBounds(Len(members), [i \in DOMAIN members |-> KeyLess(members[i].key, text)])}
      ELSE FindKey(members, text)

(* ... Json::operator[] compares the texts.                                *)
RootPositions(o, text) ==
  LET members == Members(o)
  IN  IF objects[o].is_sorted
      THEN {IF p <= Len(members) /\ resolveKey(members[p].key) = text
            THEN p ELSE Len(members) + 1 :
              p \in LowerBounds(Len(members),
                      [i \in DOMAIN members |-> TextLess(resolveKey(members[i].key), text)])}
      ELSE FindKey(members, text)

ValueAt(o, p) == IF p <= Len(Members(o)) THEN Members(o)[p].value ELSE Missing

(* What at(key), contains(key) and the root's operator[] may return.       *)
At(o, text) == {ValueAt(o, p) : p \in Positions(o, text)}
Contains(o, text) == {p <= Len(Members(o)) : p \in Positions(o, text)}
RootAt(o, text) == {ValueAt(o, p) : p \in RootPositions(o, text)}

-----------------------------------------------------------------------------
(* What the user does.                                                     *)

(* Fault: is_sorted is not initialised.                                    *)
StoredObjectUnset(d, o) ==
  [members |-> [i \in DOMAIN d[o] |->
                  [key |-> MemberKey(o, i, d[o][i].text), value |-> d[o][i].value]],
   is_sorted |-> Lost]

StoredObject(d, o) ==
  [members |-> [i \in DOMAIN d[o] |->
                  [key |-> MemberKey(o, i, d[o][i].text), value |-> d[o][i].value]],
   is_sorted |-> FALSE]

(* The document as the parser leaves it.                                   *)
Init ==
  /\ parsed \in Documents
  /\ objects = [o \in DOMAIN parsed |-> StoredObject(parsed, o)]
  /\ source = TRUE
  /\ view = None

Sorts(o) == ~objects[o].is_sorted /\ Len(Members(o)) > 1

(* The bijections of 1..n.                                                 *)
Reorderings(n) == {f \in [1..n -> 1..n] : \A i, j \in 1..n : f[i] = f[j] => i = j}

(* Any order std::sort may leave: it is not stable.                        *)
SortedOrders(members) ==
  {f \in Reorderings(Len(members)) :
     \A i, j \in DOMAIN members :
       i < j => ~TextLess(resolveKey(members[f[j]].key), resolveKey(members[f[i]].key))}

(* Fault: the values stay where they were.                                 *)
ReorderedKeys(members, f) ==
  [i \in DOMAIN members |-> [key |-> members[f[i]].key, value |-> members[i].value]]

Reordered(members, f) == [i \in DOMAIN members |-> members[f[i]]]

(* Fault: the flag is left as it was.                                      *)
SortedObjectUnflagged(o, f) ==
  [members |-> Reordered(Members(o), f), is_sorted |-> objects[o].is_sorted]

SortedObject(o, f) == [members |-> Reordered(Members(o), f), is_sorted |-> TRUE]

(* Json::sort.  The order is read from the texts, so they must be there.   *)
Sort ==
  /\ source
  /\ \E order \in [{o \in Objects : Sorts(o)} ->
                     UNION {SortedOrders(Members(o)) : o \in {o \in Objects : Sorts(o)}}] :
       /\ \A o \in DOMAIN order : order[o] \in SortedOrders(Members(o))
       /\ objects' = [o \in Objects |->
                        IF Sorts(o) THEN SortedObject(o, order[o]) ELSE objects[o]]
  /\ UNCHANGED <<parsed, source, view>>

(* *it: key_ points into the member itself, or into strings_.              *)
HoldMember(o, i) ==
  LET m == Members(o)[i]
  IN  /\ source
      /\ view' = [inline |-> m.key.sso,
                  at |-> IF m.key.sso THEN <<o, i>> ELSE m.key.index,
                  text |-> resolveKey(m.key), value |-> m.value,
                  is_sorted |-> objects[o].is_sorted]
      /\ UNCHANGED <<parsed, objects, source>>

DropMember == view # None /\ view' = None /\ UNCHANGED <<parsed, objects, source>>

(* The user frees the text he had parsed.                                  *)
ReleaseSource == source /\ source' = FALSE /\ UNCHANGED <<parsed, objects, view>>

Next ==
  \/ Sort \/ DropMember \/ ReleaseSource
  \/ \E o \in Objects : \E i \in DOMAIN Members(o) : HoldMember(o, i)

Spec == Init /\ [][Next]_vars

(* What the key of the view held reads: the member at its place may be     *)
(* another one by now, with a key of another length.                       *)
ViewReads ==
  IF view.inline
  THEN LET key == Members(view.at[1])[view.at[2]].key
       IN  IF key.sso /\ Length[key.text] = Length[view.text] THEN key.text ELSE Lost
  ELSE StringAt(view.at)

-----------------------------------------------------------------------------
(* Correctness.  Keys can be read as long as the parsed text is there.     *)

Key == [sso : {TRUE}, text : Text] \cup
       [sso : {FALSE}, index : (Nat \ {0}) \X (Nat \ {0}), length : Nat]

TypeOK ==
  /\ parsed \in Documents
  /\ DOMAIN objects = DOMAIN parsed
  /\ \A o \in Objects : objects[o] \in [members : Seq([key : Key, value : Value]),
                                        is_sorted : BOOLEAN]
  /\ source \in BOOLEAN
  /\ view = None \/ view \in [inline : BOOLEAN, at : Nat \X Nat, text : Text, value : Value,
                             is_sorted : BOOLEAN]

(* Sorting moves members, key and value together: each object always has   *)
(* the members that were parsed, in some order.                            *)
MembersKept ==
  source => \A o \in Objects :
    /\ Len(Members(o)) = Len(parsed[o])
    /\ \E f \in Reorderings(Len(parsed[o])) : \A i \in DOMAIN Members(o) :
         /\ resolveKey(Members(o)[i].key) = parsed[o][f[i]].text
         /\ Members(o)[i].value = parsed[o][f[i]].value

(* An object flagged as sorted, hence searched by halves, is in order:     *)
(* shorter keys first, equally long ones lexicographically.                *)
SortedInOrder ==
  source => \A o \in Objects : objects[o].is_sorted =>
    \A i, j \in DOMAIN Members(o) : i < j =>
      LET t == resolveKey(Members(o)[i].key)
          u == resolveKey(Members(o)[j].key)
      IN  Length[t] < Length[u] \/ (Length[t] = Length[u] /\ (t = u \/ <<t, u>> \in Before))

(* A lookup finds a member of the text with that key, and misses only a    *)
(* key no member has, before sort() and after.                             *)
LookupExact ==
  source => \A o \in Objects : \A text \in Text :
    LET values == {parsed[o][i].value : i \in {i \in DOMAIN parsed[o] : parsed[o][i].text = text}}
    IN  IF values = {} THEN At(o, text) = {Missing}
        ELSE At(o, text) # {} /\ At(o, text) \subseteq values

(* The three lookups, with two comparison functions, agree.                *)
LookupsAgree ==
  source => \A o \in Objects : \A text \in Text :
    /\ RootAt(o, text) = At(o, text)
    /\ Contains(o, text) = {r # Missing : r \in At(o, text)}

(* sort() does not change what a lookup returns, unless the key is there   *)
(* twice.                                                                  *)
SortKeepsLookups ==
  [][\A o \in Objects : \A text \in Text :
       source' /\ Cardinality({i \in DOMAIN parsed[o] : parsed[o][i].text = text}) < 2
       => At(o, text)' = At(o, text)]_vars

(* A MemberView reads the key it was made of for as long as the text is    *)
(* there; one of a short key, which points into the member, only until     *)
(* sort() first sorts its object (object_view.cpp, storage.cpp).           *)
ViewsStable ==
  source /\ view # None =>
    ViewReads = view.text \/ (view.inline /\ objects[view.at[1]].is_sorted /\ ~view.is_sorted)

-----------------------------------------------------------------------------
(* Claims of the documentation.                                            *)

(* docs/ROADMAP.md: of duplicate keys the last one wins.                   *)
LastDuplicateWins ==
  source => \A o \in Objects : \A i \in DOMAIN parsed[o] :
    (\A j \in DOMAIN parsed[o] : parsed[o][j].text = parsed[o][i].text => j <= i)
    => At(o, parsed[o][i].text) = {parsed[o][i].value}

(* docs/API.md: the parsed text is not retained; what is needed is copied. *)
TextNotRetained ==
  \A o \in Objects : \A i \in DOMAIN Members(o) : resolveKey(Members(o)[i].key) # Lost
=============================================================================
