---------------------------- MODULE JsonGrammar -----------------------------
(***************************************************************************)
(* A reference definition of the documents the parser should accept and of *)
(* the trees they denote, independent of the parser's control flow: the    *)
(* grammar of RFC 8259 over tokens, derived bottom up by length.  Every    *)
(* derivation carries its token sequence, its tree and how deep non-empty  *)
(* containers nest in it (the levels depth_ counts).                       *)
(***************************************************************************)
EXTENDS JsonParser

(* The source texts compared: sequences of up to so many of such tokens.   *)
CONSTANT Samples

ASSUME SamplesAssumption ==
  \A s \in Samples : s.tokens \subseteq SourceTokens /\ s.length \in 1..MaxTokens

(* The text read so far is one of them.  (Also the bound of a run: every   *)
(* prefix of a sample is one.)                                             *)
InSamples ==
  LET text == IF Is("EndOfFile") THEN Front(pulled) ELSE pulled
  IN  \E s \in Samples : Len(text) <= s.length /\ ToSet(text) \subseteq s.tokens

Leaf(type, value) == [type |-> type, value |-> value]
Branch(type, items) == [type |-> type, items |-> items]

Tok(type) == <<[type |-> type]>>
MaxOf(m, n) == IF m >= n THEN m ELSE n

WellFormed(t) == t.type = "String" => Decoded(t.value) # Malformed

Scalars(tokens) ==
  {[text |-> <<t>>, tree |-> Leaf("Null", 0), nesting |-> 0] :
     t \in {u \in tokens : u.type = "Null"}}
  \cup {[text |-> <<t>>, tree |-> Leaf(t.type, t.value), nesting |-> 0] :
          t \in {u \in tokens : \/ u.type \in {"Boolean", "Integer"}
                                \/ u.type = "Double" /\ u.value \notin OutOfRange}}
  \cup {[text |-> <<t>>, tree |-> Leaf("String", Decoded(t.value)), nesting |-> 0] :
          t \in {u \in tokens : u.type = "String" /\ WellFormed(u)}}

MemberHeads(tokens) == {t \in tokens : t.type = "String" /\ WellFormed(t)}

(* Lists of elements or members: one item, or an item, a comma and a list. *)
Singles(items) == {[text |-> v.text, tree |-> <<v.tree>>, nesting |-> v.nesting] : v \in items}

Joined(v, l) ==
  [text |-> v.text \o Tok("Comma") \o l.text,
   tree |-> <<v.tree>> \o l.tree,
   nesting |-> MaxOf(v.nesting, l.nesting)]

Joins(items, lists) == {Joined(v, l) : v \in items, l \in lists}

Lists(items, lists, n) ==
  Singles(items[n]) \cup UNION {Joins(items[i], lists[n - 1 - i]) : i \in 1..(n - 2)}

Containers(tokens, type, open, close, lists, n) ==
  IF [type |-> open] \notin tokens THEN {}
  ELSE IF n = 2
  THEN {[text |-> Tok(open) \o Tok(close), tree |-> Branch(type, <<>>), nesting |-> 0]}
  ELSE {[text |-> Tok(open) \o l.text \o Tok(close),
         tree |-> Branch(type, l.tree), nesting |-> l.nesting + 1] : l \in lists[n - 2]}

Values(tokens, elements, members, n) ==
  IF n = 1 THEN Scalars(tokens)
  ELSE Containers(tokens, "Array", "LeftSquareBracket", "RightSquareBracket", elements, n)
       \cup Containers(tokens, "Object", "LeftCurlyBracket", "RightCurlyBracket", members, n)

Pair(k, v) ==
  [text |-> <<k>> \o Tok("Colon") \o v.text,
   tree |-> [key |-> Decoded(k.value), value |-> v.tree],
   nesting |-> v.nesting]

Pairs(tokens, values, n) ==
  IF n <= 2 THEN {} ELSE {Pair(k, v) : k \in MemberHeads(tokens), v \in values[n - 2]}

(* The table of the lengths up to n: that of those below, and x for n.     *)
With(table, n, x) == [k \in 1..n |-> IF k = n THEN x ELSE table[k]]

(* From the derivations of every length below n, those of length n.        *)
Derive(tokens, d, n) ==
  LET values == With(d.values, n, Values(tokens, d.elements, d.members, n))
      pairs  == With(d.pairs, n, Pairs(tokens, values, n))
  IN  [values   |-> values,
       pairs    |-> pairs,
       elements |-> With(d.elements, n, Lists(values, d.elements, n)),
       members  |-> With(d.members, n, Lists(pairs, d.members, n))]

Nothing == [values |-> <<>>, pairs |-> <<>>, elements |-> <<>>, members |-> <<>>]

(* What derives from such tokens, by length.                               *)
Derivations(tokens, length) ==
  LET d[n \in 0..length] == IF n = 0 THEN Nothing ELSE Derive(tokens, d[n - 1], n)
  IN  d[length]

(* The documents among the samples, with the tree of each.                 *)
Documents ==
  UNION {{[text |-> v.text \o Tok("EndOfFile"), tree |-> v.tree] :
            v \in {u \in UNION ToSet(Derivations(s.tokens, s.length).values) :
                     u.nesting <= MaxDepth}} : s \in Samples}

DocumentPrefixes == UNION {Prefixes(d.text) : d \in Documents}

-----------------------------------------------------------------------------
(* The tree a user reads back from a parsed document.                      *)

ResolveKey(key) == IF key.tag = "sso" THEN key.text ELSE strings[key.index + 1]

(* The tree of a value, given those of the stored containers.              *)
TreeOver(trees, v) ==
  CASE v.type = "Array"   -> trees.arrays[v.payload + 1]
    [] v.type = "Object"  -> trees.objects[v.payload + 1]
    [] v.type = "String"  -> Leaf("String", strings[v.payload + 1])
    [] v.type = "Boolean" -> Leaf("Boolean", v.payload # 0)
    [] OTHER -> Leaf(v.type, v.payload)

Grow(trees) ==
  [arrays |-> [a \in DOMAIN arrays |->
     Branch("Array", [i \in DOMAIN arrays[a] |-> TreeOver(trees, arrays[a][i])])],
   objects |-> [o \in DOMAIN objects |->
     Branch("Object", [i \in DOMAIN objects[o] |->
       [key |-> ResolveKey(objects[o][i].key), value |-> TreeOver(trees, objects[o][i].value)]])]]

(* After n rounds the trees of height n and less are complete; none is     *)
(* higher than its text is long.                                           *)
Forest ==
  LET f[n \in 0..Len(pulled)] ==
        IF n = 0 THEN [arrays  |-> [a \in DOMAIN arrays |-> Leaf("Array", 0)],
                       objects |-> [o \in DOMAIN objects |-> Leaf("Object", 0)]]
        ELSE Grow(f[n - 1])
  IN  f

Tree(v) == TreeOver(Forest[Len(pulled)], v)

(* A document the parser accepts is one the grammar derives, and what is   *)
(* read back from the storage tables is its tree: every container holds    *)
(* exactly its own items, in order, whatever the containers nested in it   *)
(* and beside it left on the shared stacks.                                *)
AcceptedIsDerived ==
  pc = "done" /\ ~has_error /\ InSamples => [text |-> pulled, tree |-> Tree(root)] \in Documents

(* The tokens read up to a rejection begin no document: the parser never   *)
(* refuses a document among the samples, of at most kMaxDepth levels.      *)
RejectedIsUnderivable ==
  pc = "done" /\ has_error => pulled \notin DocumentPrefixes
=============================================================================
