---------------------------- MODULE StorageArena ----------------------------
(***************************************************************************)
(* Storage (internal/models/storage.hpp, src/models/storage.cpp): the      *)
(* arena a document lives in.  A list of chunks from which allocate() cuts *)
(* aligned pieces off the last one, tables that point at the pieces, and   *)
(* moves that hand the chunks from object to object.  The bytes of a piece *)
(* are all alike.                                                          *)
(***************************************************************************)
EXTENDS Integers, Sequences

CONSTANTS
  Store,              \* the Storage objects of the program
  SizeOf, AlignOf,    \* sizeof and alignof of an element of each kind
  Byte,               \* contents of a byte that was written
  Garbage,            \* and of one that was not
  DefaultChunk,       \* default_chunk_size_
  Word,               \* 2^32: sizes and capacities are uint32_t
  MaxAddress,         \* the heap has the addresses 1..MaxAddress
  MaxPiece,           \* bound: bytes per piece
  MaxPieces           \* bound: table entries of one object

Kind == {"string", "array", "object"}
Address == 1..MaxAddress
Null == 0

ASSUME KindAssumption ==
  SizeOf \in [Kind -> Nat \ {0}] /\ AlignOf \in [Kind -> {1, 2, 4, 8, 16}]
ASSUME ByteAssumption == Garbage \notin Byte
ASSUME HeapAssumption == MaxAddress \in Nat /\ MaxPieces \in Nat

(* Documents are far smaller than 2^32: allocate() never wraps around.     *)
ASSUME WordAssumption ==
  /\ DefaultChunk \in Nat \ {0} /\ MaxPiece \in Nat /\ Word \in Nat
  /\ DefaultChunk + 2 * MaxPiece + 32 < Word

VARIABLES
  live,       \* the objects constructed and not destroyed
  chunks,     \* head_ .. tail_: the data, capacity and used of each chunk
  entries,    \* strings_, arrays_, objects_: where each piece is, how long
  heap,       \* what new has returned and delete has not taken back
  memory      \* the contents of every address

vars == <<live, chunks, entries, heap, memory>>

NoEntries == [k \in Kind |-> <<>>]
Region(c) == [data |-> c.data, capacity |-> c.capacity]
Regions(s) == {Region(chunks[s][i]) : i \in DOMAIN chunks[s]}
Within(a, r) == r.data <= a /\ a < r.data + r.capacity

Init ==
  /\ live = {}
  /\ chunks = [s \in Store |-> <<>>]
  /\ entries = [s \in Store |-> NoEntries]
  /\ heap = {}
  /\ memory = [a \in Address |-> Garbage]

(* new std::byte[capacity]: memory nobody has, aligned for any element.    *)
New(data, capacity) ==
  /\ data \in Address /\ data + capacity - 1 <= MaxAddress
  /\ \A k \in Kind : data % AlignOf[k] = 0
  /\ \A r \in heap : data + capacity <= r.data \/ r.data + r.capacity <= data

(* Fault: capacity and used are initialised the wrong way round.           *)
NewChunkSwapped(data, capacity, used) == [data |-> data, capacity |-> used, used |-> capacity]

NewChunk(data, capacity, used) == [data |-> data, capacity |-> capacity, used |-> used]

(* The destructor's loop over the chunks.                                  *)
DeleteChunks(s) ==
  /\ heap' = heap \ Regions(s)
  /\ memory' = [a \in Address |->
                  IF \E r \in Regions(s) : Within(a, r) THEN Garbage ELSE memory[a]]

Construct(s) ==
  /\ s \notin live
  /\ live' = live \cup {s}
  /\ \E data \in Address :
       /\ New(data, DefaultChunk)
       /\ chunks' = [chunks EXCEPT ![s] = <<NewChunk(data, DefaultChunk, 0)>>]
       /\ heap' = heap \cup {[data |-> data, capacity |-> DefaultChunk]}
  /\ entries' = [entries EXCEPT ![s] = NoEntries]
  /\ UNCHANGED memory

Destroy(s) ==
  /\ s \in live
  /\ live' = live \ {s}
  /\ DeleteChunks(s)
  /\ UNCHANGED <<chunks, entries>>

-----------------------------------------------------------------------------
(* allocate()                                                              *)

TailChunk(s) == chunks[s][Len(chunks[s])]

(* Fault: an aligned address is padded by a whole element.                 *)
AlignOffsetFull(a, alignment) == alignment - (a % alignment)

AlignOffset(a, alignment) == (alignment - (a % alignment)) % alignment
TailOffset(s, alignment) == AlignOffset(TailChunk(s).data + TailChunk(s).used, alignment)

Fits(s, size, alignment) ==
  (TailChunk(s).used + TailOffset(s, alignment) + size) % Word <= TailChunk(s).capacity

(* The next piece of the last chunk.                                       *)
Cut(s, size, alignment, ptr) ==
  LET used == (TailChunk(s).used + TailOffset(s, alignment)) % Word
  IN  /\ ptr = TailChunk(s).data + used
      /\ chunks' = [chunks EXCEPT ![s][Len(chunks[s])].used = (used + size) % Word]
      /\ UNCHANGED heap

(* The first piece of a new chunk.                                         *)
CutNew(s, size, alignment, ptr) ==
  LET capacity == IF DefaultChunk >= (size + TailOffset(s, alignment)) % Word
                  THEN DefaultChunk ELSE (size + TailOffset(s, alignment)) % Word
  IN  \E data \in Address :
        LET offset == AlignOffset(data, alignment)
        IN  /\ ptr = data + offset
            /\ New(data, capacity)
            /\ chunks' = [chunks EXCEPT ![s] =
                            Append(@, NewChunk(data, capacity, (offset + size) % Word))]
            /\ heap' = heap \cup {[data |-> data, capacity |-> capacity]}

Allocate(s, size, alignment, ptr) ==
  /\ s \in live /\ chunks[s] # <<>>
  /\ IF Fits(s, size, alignment)
     THEN Cut(s, size, alignment, ptr)
     ELSE CutNew(s, size, alignment, ptr)

Write(ptr, size, x) ==
  memory' = [a \in Address |-> IF ptr <= a /\ a < ptr + size THEN x ELSE memory[a]]

Pieces(s) == Len(entries[s]["string"]) + Len(entries[s]["array"]) + Len(entries[s]["object"])

AddEntry(s, k, ptr, size) ==
  /\ Pieces(s) < MaxPieces
  /\ entries' = [entries EXCEPT ![s][k] = Append(@, [ptr |-> ptr, size |-> size])]

-----------------------------------------------------------------------------
(* A string with escapes: a buffer for its source length, of which the     *)
(* decoded text takes a part; the rest stays unused.  After a bad escape   *)
(* the whole document is dropped.                                          *)
UnescapeString(s, length) ==
  /\ \E ptr \in Address :
       /\ Allocate(s, length, AlignOf["string"], ptr)
       /\ \E written \in 1..(length - 1), x \in Byte :
            /\ Write(ptr, written, x)
            /\ AddEntry(s, "string", ptr, written)
  /\ UNCHANGED live

(* sealArray, sealObject                                                   *)
Seal(s, k, size) ==
  /\ size > 0
  /\ \E ptr \in Address :
       /\ Allocate(s, size, AlignOf[k], ptr)
       /\ \E x \in Byte : Write(ptr, size, x)
       /\ AddEntry(s, k, ptr, size)
  /\ UNCHANGED live

SealEmpty(s, k) ==
  /\ s \in live
  /\ AddEntry(s, k, Null, 0)
  /\ UNCHANGED <<live, chunks, heap, memory>>

-----------------------------------------------------------------------------
(* Fault: the source keeps its list of chunks.                             *)
TakeOverShared(d, o) ==
  /\ chunks' = [chunks EXCEPT ![d] = chunks[o]]
  /\ entries' = [entries EXCEPT ![d] = entries[o], ![o] = NoEntries]

(* The chunks and the tables change hands; o is left with none.            *)
TakeOver(d, o) ==
  /\ chunks' = [chunks EXCEPT ![d] = chunks[o], ![o] = <<>>]
  /\ entries' = [entries EXCEPT ![d] = entries[o], ![o] = NoEntries]

MoveConstruct(d, o) ==
  /\ d \notin live /\ o \in live
  /\ live' = live \cup {d}
  /\ TakeOver(d, o)
  /\ UNCHANGED <<heap, memory>>

(* Fault: the chunks deleted are those just taken over.                    *)
MoveAssignLate(d, o) ==
  /\ d \in live /\ o \in live /\ d # o
  /\ DeleteChunks(o)
  /\ TakeOver(d, o)
  /\ UNCHANGED live

MoveAssign(d, o) ==
  /\ d \in live /\ o \in live /\ d # o
  /\ DeleteChunks(d)
  /\ TakeOver(d, o)
  /\ UNCHANGED live

Multiples(k) == {n \in 1..MaxPiece : n % SizeOf[k] = 0}

Next ==
  \E s \in Store :
    \/ Construct(s) \/ Destroy(s)
    \/ \E length \in 2..MaxPiece : UnescapeString(s, length)
    \/ \E k \in {"array", "object"} : \E size \in Multiples(k) : Seal(s, k, size)
    \/ \E k \in {"array", "object"} : SealEmpty(s, k)
    \/ \E o \in Store : MoveConstruct(s, o) \/ MoveAssign(s, o)

Spec == Init /\ [][Next]_vars

-----------------------------------------------------------------------------
(* Correctness.                                                            *)

TypeOK ==
  /\ live \subseteq Store
  /\ chunks \in [Store -> Seq([data : Address, capacity : Nat \ {0}, used : Nat])]
  /\ entries \in [Store -> [Kind -> Seq([ptr : Address \cup {Null}, size : Nat])]]
  /\ heap \subseteq [data : Address, capacity : Nat \ {0}]
  /\ memory \in [Address -> Byte \cup {Garbage}]

(* Entry e lies in the part of chunk c that has been handed out.           *)
InUse(e, c) == c.data <= e.ptr /\ e.ptr + e.size <= c.data + c.used

(* Every piece in a table lies in a chunk of the same object, within what  *)
(* has been handed out of it, where an element of its kind may be; no      *)
(* chunk hands out more than it has.                                       *)
PiecesInChunks ==
  \A s \in live :
    /\ \A i \in DOMAIN chunks[s] : chunks[s][i].used <= chunks[s][i].capacity
    /\ \A k \in Kind : \A i \in DOMAIN entries[s][k] :
         LET e == entries[s][k][i]
         IN  e.ptr # Null => /\ \E j \in DOMAIN chunks[s] : InUse(e, chunks[s][j])
                             /\ e.ptr % AlignOf[k] = 0

(* The chunks of the live objects are exactly the memory in use, each has  *)
(* one owner and they do not overlap: nothing leaks or is deleted twice.   *)
ChunksOwnedOnce ==
  /\ heap = UNION {Regions(s) : s \in live}
  /\ \A s, t \in live : \A i \in DOMAIN chunks[s] : \A j \in DOMAIN chunks[t] :
       \/ s = t /\ i = j
       \/ chunks[s][i].data + chunks[s][i].capacity <= chunks[t][j].data
       \/ chunks[t][j].data + chunks[t][j].capacity <= chunks[s][i].data

Read(e) == [i \in 1..e.size |-> memory[e.ptr + i - 1]]
ReadTable(s) ==
  IF s \in live
  THEN [k \in Kind |-> [i \in DOMAIN entries[s][k] |-> Read(entries[s][k][i])]]
  ELSE NoEntries

Abstract == INSTANCE Tables WITH
  table <- [s \in Store |-> ReadTable(s)],
  Bytes <- {<<>>} \cup UNION {[1..n -> {x}] : n \in 1..MaxPiece, x \in Byte}

(* What was stored reads back for as long as the object, or the one it was *)
(* moved to, lives: later allocations, other documents and moves touch     *)
(* none of it.                                                             *)
ImplementsTables == Abstract!Spec
=============================================================================
