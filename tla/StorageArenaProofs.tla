------------------------- MODULE StorageArenaProofs -------------------------
(***************************************************************************)
(* Proofs about StorageArena, for any number of documents, any sizes and   *)
(* any heap: what allocate() cuts never overlaps what it cut before, no    *)
(* chunk has two owners, and so the tables keep what was stored.           *)
(***************************************************************************)
EXTENDS StorageArena, SequenceTheorems, TLAPS

(* No chunk is larger than this: allocate() cannot wrap around.            *)
Limit == DefaultChunk + MaxPiece + 15

ChunkOK(c) ==
  /\ c.used <= c.capacity /\ c.capacity <= Limit
  /\ c.data + c.capacity - 1 <= MaxAddress

PieceOK(e, k, list) ==
  IF e.ptr = Null THEN e.size = 0
  ELSE e.ptr % AlignOf[k] = 0 /\ \E j \in DOMAIN list : InUse(e, list[j])

(* A list of chunks and the tables that point into it.                     *)
DocumentOK(list, table) ==
  /\ \A i \in DOMAIN list : ChunkOK(list[i])
  /\ \A k \in Kind : \A i \in DOMAIN table[k] : PieceOK(table[k][i], k, list)

DocumentsOK == \A s \in live : DocumentOK(chunks[s], entries[s])

IInv == TypeOK /\ DocumentsOK /\ ChunksOwnedOnce

-----------------------------------------------------------------------------
(* Sizes, offsets and addresses.                                           *)

(* A size within its width is not wrapped.                                 *)
LEMMA ModSmall ==
  ASSUME NEW m \in Nat, NEW n \in 0..(m - 1)
  PROVE  n % m = n
OBVIOUS

(* The padding of an address: less than the alignment, none if there is    *)
(* none to do.                                                             *)
LEMMA AlignFacts ==
  ASSUME NEW a \in Nat, NEW k \in Kind
  PROVE  /\ AlignOffset(a, AlignOf[k]) \in 0..15
         /\ (a + AlignOffset(a, AlignOf[k])) % AlignOf[k] = 0
         /\ a % AlignOf[k] = 0 => AlignOffset(a, AlignOf[k]) = 0
<1> DEFINE n == AlignOf[k]
           Padded(m) == /\ AlignOffset(a, m) \in 0..15
                        /\ (a + AlignOffset(a, m)) % m = 0
                        /\ a % m = 0 => AlignOffset(a, m) = 0
<1>1. n \in {1, 2, 4, 8, 16}
  BY KindAssumption
<1>2. Padded(1) /\ Padded(2) /\ Padded(4)
  BY DEF AlignOffset
<1>3. Padded(8)
  BY DEF AlignOffset
<1>4. Padded(16)
  BY DEF AlignOffset
<1> HIDE DEF n, Padded
<1>5. Padded(n)
  BY <1>1, <1>2, <1>3, <1>4
<1> QED
  BY <1>5 DEF n, Padded

(* Appending to a sequence of a set.                                       *)
LEMMA AppendFacts ==
  ASSUME NEW S, NEW q \in Seq(S), NEW x \in S
  PROVE  /\ Append(q, x) \in Seq(S) /\ Len(q) \in Nat
         /\ DOMAIN q = 1..Len(q) /\ DOMAIN Append(q, x) = 1..(Len(q) + 1)
         /\ \A i \in 1..Len(q) : Append(q, x)[i] = q[i] /\ q[i] \in S
         /\ Append(q, x)[Len(q) + 1] = x
<1>1. /\ Append(q, x) \in Seq(S) /\ Len(Append(q, x)) = Len(q) + 1
      /\ \A i \in 1..Len(q) : Append(q, x)[i] = q[i]
      /\ Append(q, x)[Len(q) + 1] = x
  BY AppendProperties
<1> QED
  BY <1>1, LenProperties, ElementOfSeq

Chunk == [data : Address, capacity : Nat \ {0}, used : Nat]
Entry == [ptr : Address \cup {Null}, size : Nat]

(* The chunks and tables of one object.                                    *)
LEMMA ObjectTypes ==
  ASSUME TypeOK, NEW s \in Store
  PROVE  /\ chunks[s] \in Seq(Chunk) /\ Len(chunks[s]) \in Nat
         /\ DOMAIN chunks[s] = 1..Len(chunks[s])
         /\ \A i \in DOMAIN chunks[s] : chunks[s][i] \in Chunk
         /\ entries[s] \in [Kind -> Seq(Entry)]
         /\ \A k \in Kind : /\ entries[s][k] \in Seq(Entry)
                            /\ DOMAIN entries[s][k] = 1..Len(entries[s][k])
                            /\ \A i \in DOMAIN entries[s][k] : entries[s][k][i] \in Entry
<1>1. chunks[s] \in Seq(Chunk) /\ entries[s] \in [Kind -> Seq(Entry)]
  BY DEF TypeOK, Chunk, Entry
<1>2. \A k \in Kind : entries[s][k] \in Seq(Entry)
  BY <1>1
<1> QED
  BY <1>1, <1>2, LenProperties, ElementOfSeq

-----------------------------------------------------------------------------
(* allocate()                                                              *)

(* The last chunk of a document: nothing in allocate() wraps around.       *)
LEMMA TailFacts ==
  ASSUME IInv, NEW s \in live, chunks[s] # <<>>, NEW k \in Kind, NEW size \in 1..MaxPiece
  PROVE  LET c == TailChunk(s)  off == TailOffset(s, AlignOf[k])
         IN  /\ s \in Store /\ Len(chunks[s]) \in Nat \ {0}
             /\ DOMAIN chunks[s] = 1..Len(chunks[s]) /\ c = chunks[s][Len(chunks[s])]
             /\ c \in Chunk /\ ChunkOK(c) /\ off \in 0..15
             /\ (c.data + (c.used + off)) % AlignOf[k] = 0
             /\ (c.used + off) % Word = c.used + off
             /\ (c.used + off + size) % Word = c.used + off + size
             /\ (size + off) % Word = size + off
<1> DEFINE c == TailChunk(s)
           off == TailOffset(s, AlignOf[k])
<1>1. s \in Store /\ chunks[s] \in Seq(Chunk) /\ DOMAIN chunks[s] = 1..Len(chunks[s])
  BY ObjectTypes DEF IInv, TypeOK
<1>2. Len(chunks[s]) \in Nat \ {0}
  BY <1>1, EmptySeq
<1>3. c = chunks[s][Len(chunks[s])] /\ c \in Chunk
  BY <1>1, <1>2, ElementOfSeq DEF TailChunk
<1>4. ChunkOK(c)
  BY <1>1, <1>2, <1>3 DEF IInv, DocumentsOK, DocumentOK
<1>5. c.data \in Nat /\ c.used \in Nat /\ c.capacity \in Nat
  BY <1>3 DEF Chunk, Address
<1>6. off \in 0..15 /\ (c.data + c.used + off) % AlignOf[k] = 0
  <2>1. c.data + c.used \in Nat
    BY <1>5
  <2>2. off = AlignOffset(c.data + c.used, AlignOf[k])
    BY DEF TailOffset
  <2> HIDE DEF c, off
  <2> QED
    BY <2>1, <2>2, AlignFacts
<1>7. /\ DefaultChunk \in Nat /\ MaxPiece \in Nat /\ Word \in Nat
      /\ DefaultChunk + 2 * MaxPiece + 32 < Word
  BY WordAssumption
<1>8. c.used <= DefaultChunk + MaxPiece + 15
  BY <1>4, <1>5, <1>7 DEF ChunkOK, Limit
<1> HIDE DEF c, off
<1>9. /\ c.used + off \in 0..(Word - 1) /\ c.used + off + size \in 0..(Word - 1)
      /\ size + off \in 0..(Word - 1)
  BY <1>5, <1>6, <1>7, <1>8
<1>10. c.data + c.used + off = c.data + (c.used + off)
  BY <1>5, <1>6
<1>11. /\ (c.used + off) % Word = c.used + off
       /\ (c.used + off + size) % Word = c.used + off + size
       /\ (size + off) % Word = size + off
  BY <1>7, <1>9, ModSmall
<1> QED
  BY <1>1, <1>2, <1>3, <1>4, <1>6, <1>10, <1>11 DEF c, off

(* The chunks of one list are those of the other, with more handed out.    *)
Extends(list, longer) ==
  \A i \in DOMAIN list :
    /\ i \in DOMAIN longer
    /\ longer[i].data = list[i].data /\ longer[i].capacity = list[i].capacity
    /\ list[i].used <= longer[i].used

(* Nothing handed out before overlaps the size bytes at ptr.               *)
Fresh(ptr, size) ==
  \A t \in live : \A i \in DOMAIN chunks[t] :
    chunks[t][i].data + chunks[t][i].used <= ptr \/ ptr + size <= chunks[t][i].data

(* What allocate() does: it hands out size fresh bytes at ptr.             *)
Placed(s, k, size, ptr) ==
  /\ chunks' \in [Store -> Seq(Chunk)]
  /\ heap' \subseteq [data : Address, capacity : Nat \ {0}]
  /\ \A t \in Store \ {s} : chunks'[t] = chunks[t]
  /\ Extends(chunks[s], chunks'[s])
  /\ \A i \in DOMAIN chunks'[s] : ChunkOK(chunks'[s][i])
  /\ \E j \in DOMAIN chunks'[s] : InUse([ptr |-> ptr, size |-> size], chunks'[s][j])
  /\ ptr # Null /\ ptr % AlignOf[k] = 0
  /\ Fresh(ptr, size)
  /\ ChunksOwnedOnce'

(* Two chunks of live documents are one or do not overlap.                 *)
Apart(c, d) == c.data + c.capacity <= d.data \/ d.data + d.capacity <= c.data

(* A piece of a chunk is outside of what another chunk has handed out.     *)
LEMMA OutsideChunk ==
  ASSUME NEW base \in Nat, NEW room \in Nat, NEW offset \in Nat, NEW size \in Nat,
         offset + size <= room,
         NEW other \in Nat, NEW cap \in Nat, NEW used \in Nat, used <= cap,
         other + cap <= base \/ base + room <= other
  PROVE  other + used <= base + offset \/ base + offset + size <= other
OBVIOUS

(* The piece cut off the last chunk: aligned, fresh and inside it.         *)
LEMMA CutPlaces ==
  ASSUME IInv, UNCHANGED live, NEW s \in live, chunks[s] # <<>>, NEW k \in Kind,
         NEW size \in 1..MaxPiece, NEW ptr \in Address,
         Fits(s, size, AlignOf[k]), Cut(s, size, AlignOf[k], ptr)
  PROVE  Placed(s, k, size, ptr)
<1> DEFINE c == TailChunk(s)
           off == TailOffset(s, AlignOf[k])
           n == Len(chunks[s])
           new == [c EXCEPT !.used = c.used + off + size]
<1>1. /\ s \in Store /\ n \in Nat \ {0} /\ DOMAIN chunks[s] = 1..n /\ c = chunks[s][n]
      /\ c \in Chunk /\ ChunkOK(c) /\ off \in 0..15
  BY TailFacts
<1>0. /\ (c.data + (c.used + off)) % AlignOf[k] = 0
      /\ (c.used + off) % Word = c.used + off
      /\ (c.used + off + size) % Word = c.used + off + size
  BY TailFacts
<1>2. /\ c.data \in Nat /\ c.used \in Nat /\ c.capacity \in Nat \ {0} /\ c.data \in Address
      /\ off \in Nat /\ size \in Nat /\ size > 0
  <2>1. c.data \in Address /\ c.used \in Nat /\ c.capacity \in Nat \ {0}
    BY <1>1 DEF Chunk
  <2>2. MaxPiece \in Nat
    BY WordAssumption
  <2> HIDE DEF c, off
  <2> QED
    BY <1>1, <2>1, <2>2 DEF Address
<1>3. c.used + off + size <= c.capacity /\ ptr = c.data + (c.used + off) /\ heap' = heap
  BY <1>0 DEF Fits, Cut
<1>4. chunks' = [chunks EXCEPT ![s] = [chunks[s] EXCEPT ![n] = new]]
  BY <1>0, <1>1 DEF Cut
<1>5. new \in Chunk
  BY <1>1, <1>2 DEF Chunk
<1>6. chunks \in [Store -> Seq(Chunk)]
  BY DEF IInv, TypeOK, Chunk
<1>7. /\ chunks'[s] = [chunks[s] EXCEPT ![n] = new] /\ chunks'[s] \in Seq(Chunk)
      /\ \A t \in Store \ {s} : chunks'[t] = chunks[t]
      /\ chunks' \in [Store -> Seq(Chunk)]
  <2>1. [chunks[s] EXCEPT ![n] = new] \in Seq(Chunk)
    BY <1>1, <1>5, <1>6, ExceptSeq
  <2> QED
    BY <1>1, <1>4, <1>6, <2>1
<1>8. /\ DOMAIN chunks'[s] = 1..n /\ chunks'[s][n] = new
      /\ \A i \in (1..n) \ {n} : chunks'[s][i] = chunks[s][i]
  BY <1>1, <1>7
<1>9. new.data = c.data /\ new.capacity = c.capacity /\ new.used = c.used + off + size
  BY <1>1 DEF Chunk
<1>10. Extends(chunks[s], chunks'[s])
  <2>1. c.used <= new.used
    <3> HIDE DEF c, off, new
    <3> QED
      BY <1>2, <1>9
  <2>2. \A i \in DOMAIN chunks[s] : chunks[s][i].used \in Nat
    BY <1>1, ObjectTypes DEF IInv, Chunk
  <2> HIDE DEF c, new
  <2> QED
    BY <1>1, <1>8, <1>9, <2>1, <2>2 DEF Extends
<1>11. \A i \in DOMAIN chunks'[s] : ChunkOK(chunks'[s][i])
  <2>1. ChunkOK(new)
    BY <1>1, <1>3, <1>9 DEF ChunkOK
  <2>2. \A i \in (1..n) \ {n} : ChunkOK(chunks[s][i])
    BY <1>1 DEF IInv, DocumentsOK, DocumentOK
  <2> QED
    BY <1>8, <2>1, <2>2
<1>12. InUse([ptr |-> ptr, size |-> size], chunks'[s][n])
  BY <1>2, <1>3, <1>8, <1>9 DEF InUse
<1>13. Fresh(ptr, size)
  <2> SUFFICES ASSUME NEW t \in live, NEW i \in DOMAIN chunks[t]
               PROVE  \/ chunks[t][i].data + chunks[t][i].used <= ptr
                      \/ ptr + size <= chunks[t][i].data
    BY DEF Fresh
  <2>1. /\ t \in Store /\ chunks[t][i] \in Chunk /\ ChunkOK(chunks[t][i])
    BY ObjectTypes DEF IInv, TypeOK, DocumentsOK, DocumentOK
  <2>2. CASE t = s /\ i = n
    BY <1>1, <1>2, <1>3, <2>2
  <2>3. CASE ~(t = s /\ i = n)
    <3>1. Apart(chunks[t][i], c)
      BY <1>1, <2>3 DEF IInv, ChunksOwnedOnce, Apart
    <3> DEFINE d == chunks[t][i]
    <3>2. d.data \in Nat /\ d.used \in Nat /\ d.capacity \in Nat /\ d.used <= d.capacity
      BY <2>1 DEF Chunk, ChunkOK, Address
    <3>3. d.data + d.capacity <= c.data \/ c.data + c.capacity <= d.data
      BY <3>1 DEF Apart
    <3> DEFINE offset == c.used + off
    <3>5. offset \in Nat /\ offset + size <= c.capacity /\ ptr = c.data + offset
      BY <1>2, <1>3
    <3> HIDE DEF c, d, offset
    <3>6. d.data + d.used <= c.data + offset \/ c.data + offset + size <= d.data
      BY <1>2, <3>2, <3>3, <3>5, OutsideChunk
    <3>4. d.data + d.used <= ptr \/ ptr + size <= d.data
      BY <3>5, <3>6
    <3> QED
      BY <3>4 DEF d
  <2> QED
    BY <2>2, <2>3
<1>14. ChunksOwnedOnce'
  <2>1. \A t \in live : /\ t \in Store /\ DOMAIN chunks'[t] = DOMAIN chunks[t]
                        /\ \A i \in DOMAIN chunks[t] :
                             /\ chunks'[t][i].data = chunks[t][i].data
                             /\ chunks'[t][i].capacity = chunks[t][i].capacity
    BY <1>1, <1>7, <1>8, <1>9 DEF IInv, TypeOK
  <2>2. \A t \in live : Regions(t)' = Regions(t)
    BY <2>1 DEF Regions, Region
  <2>3. heap' = UNION {Regions(t)' : t \in live'}
    BY <1>3, <2>2 DEF IInv, ChunksOwnedOnce
  <2> QED
    BY <2>1, <2>3 DEF IInv, ChunksOwnedOnce
<1>15. ptr # Null /\ ptr % AlignOf[k] = 0
  BY <1>0, <1>3, HeapAssumption DEF Address, Null
<1>16. heap' \subseteq [data : Address, capacity : Nat \ {0}]
  BY <1>3 DEF IInv, TypeOK
<1>17. \E j \in DOMAIN chunks'[s] : InUse([ptr |-> ptr, size |-> size], chunks'[s][j])
  BY <1>1, <1>8, <1>12
<1> QED
  BY <1>7, <1>10, <1>11, <1>13, <1>14, <1>15, <1>16, <1>17 DEF Placed

(* A chunk of memory nobody has can be added to the list of a document.    *)
LEMMA NewChunkApart ==
  ASSUME IInv, NEW s \in live', live \subseteq live', live' \subseteq live \cup {s},
         NEW c \in Chunk, New(c.data, c.capacity),
         heap' = heap \cup {Region(c)},
         \A t \in live \ {s} : chunks'[t] = chunks[t],
         NEW n \in Nat \ {0}, DOMAIN chunks'[s] = 1..n, chunks'[s][n] = c,
         n > 1 => s \in live /\ DOMAIN chunks[s] = 1..(n - 1),
         s \in live => DOMAIN chunks[s] = 1..(n - 1),
         \A i \in 1..(n - 1) : chunks'[s][i] = chunks[s][i]
  PROVE  ChunksOwnedOnce'
<1>1. heap = UNION {Regions(t) : t \in live}
  BY DEF IInv, ChunksOwnedOnce
<1>2. \A t \in live \ {s} : Regions(t)' = Regions(t)
  BY DEF Regions
<1>3. Regions(s)' = {Region(chunks'[s][i]) : i \in 1..n}
  BY DEF Regions
<1>4. n > 1 => Regions(s) = {Region(chunks[s][i]) : i \in 1..(n - 1)}
  BY DEF Regions
<1>5. Regions(s)' = (IF s \in live THEN Regions(s) ELSE {}) \cup {Region(c)}
  <2>1. 1..n = (1..(n - 1)) \cup {n}
    OBVIOUS
  <2>2. Regions(s)' = {Region(chunks[s][i]) : i \in 1..(n - 1)} \cup {Region(c)}
    BY <1>3, <2>1
  <2>3. s \notin live => 1..(n - 1) = {}
    OBVIOUS
  <2>4. s \in live => Regions(s) = {Region(chunks[s][i]) : i \in 1..(n - 1)}
    BY DEF Regions
  <2> QED
    BY <2>2, <2>3, <2>4
<1>6. heap' = UNION {Regions(t)' : t \in live'}
  BY <1>1, <1>2, <1>5
<1>7. ASSUME NEW t \in live, NEW i \in DOMAIN chunks[t]
      PROVE  Apart(chunks[t][i], c)
  <2>1. Region(chunks[t][i]) \in heap
    BY <1>1, <1>7 DEF Regions
  <2> DEFINE r == Region(chunks[t][i])
  <2>2. r.data = chunks[t][i].data /\ r.capacity = chunks[t][i].capacity
    BY DEF Region
  <2>3. c.data + c.capacity <= r.data \/ r.data + r.capacity <= c.data
    BY <2>1 DEF New
  <2> QED
    BY <2>2, <2>3 DEF Apart
<1>8. ASSUME NEW t \in live', NEW u \in live',
             NEW i \in DOMAIN chunks'[t], NEW j \in DOMAIN chunks'[u]
      PROVE  (t = u /\ i = j) \/ Apart(chunks'[t][i], chunks'[u][j])
  <2> DEFINE Old(v, l) == v \in live /\ l \in DOMAIN chunks[v] /\ chunks'[v][l] = chunks[v][l]
  <2>1. \A v \in live' : \A l \in DOMAIN chunks'[v] :
          Old(v, l) \/ (v = s /\ l = n /\ chunks'[v][l] = c)
    <3> TAKE v \in live'
    <3>1. CASE v # s
      BY <3>1
    <3>2. CASE v = s
      <4>1. \A l \in 1..n : l # n => l \in 1..(n - 1) /\ n > 1
        OBVIOUS
      <4> QED
        BY <3>2, <4>1
    <3> QED
      BY <3>1, <3>2
  <2>2. Old(t, i) \/ (t = s /\ i = n /\ chunks'[t][i] = c)
    BY <1>8, <2>1
  <2>3. Old(u, j) \/ (u = s /\ j = n /\ chunks'[u][j] = c)
    BY <1>8, <2>1
  <2>4. CASE Old(t, i) /\ Old(u, j)
    BY <2>4 DEF IInv, ChunksOwnedOnce, Apart
  <2>5. CASE Old(t, i) /\ u = s /\ j = n /\ chunks'[u][j] = c
    BY <1>7, <2>5
  <2>6. CASE Old(u, j) /\ t = s /\ i = n /\ chunks'[t][i] = c
    BY <1>7, <2>6 DEF Apart
  <2> QED
    BY <2>2, <2>3, <2>4, <2>5, <2>6
<1> QED
  BY <1>6, <1>8 DEF ChunksOwnedOnce, Apart

(* The first piece of a new chunk, which is as large as it must be.        *)
LEMMA CutNewPlaces ==
  ASSUME IInv, UNCHANGED live, NEW s \in live, chunks[s] # <<>>, NEW k \in Kind,
         NEW size \in 1..MaxPiece, NEW ptr \in Address, CutNew(s, size, AlignOf[k], ptr)
  PROVE  Placed(s, k, size, ptr)
<1> DEFINE off == TailOffset(s, AlignOf[k])
           n == Len(chunks[s])
           capacity == IF DefaultChunk >= (size + off) % Word THEN DefaultChunk
                       ELSE (size + off) % Word
<1>1. s \in Store /\ n \in Nat \ {0} /\ DOMAIN chunks[s] = 1..n /\ off \in 0..15
  BY TailFacts
<1>2. (size + off) % Word = size + off
  BY TailFacts
<1>3. PICK data \in Address :
        /\ ptr = data + AlignOffset(data, AlignOf[k])
        /\ New(data, capacity)
        /\ chunks' = [chunks EXCEPT ![s] = Append(chunks[s],
                        NewChunk(data, capacity, (AlignOffset(data, AlignOf[k]) + size) % Word))]
        /\ heap' = heap \cup {[data |-> data, capacity |-> capacity]}
  BY DEF CutNew
<1>4. /\ MaxPiece \in Nat /\ DefaultChunk \in Nat \ {0} /\ Word \in Nat
      /\ DefaultChunk + 2 * MaxPiece + 32 < Word /\ MaxAddress \in Nat
  BY WordAssumption, HeapAssumption
<1>5. capacity \in Nat \ {0} /\ size <= capacity /\ capacity <= Limit
  <2>1. \A o \in 0..15 : LET x == IF DefaultChunk >= size + o THEN DefaultChunk ELSE size + o
                         IN  x \in Nat \ {0} /\ size <= x /\ x <= Limit
    BY <1>4 DEF Limit
  <2> HIDE DEF off
  <2> QED
    BY <1>1, <1>2, <2>1
<1>6. AlignOffset(data, AlignOf[k]) = 0 /\ data % AlignOf[k] = 0
  BY <1>3, AlignFacts, HeapAssumption DEF New, Address
<1>7. (0 + size) % Word = size
  <2>1. size \in 0..(Word - 1) /\ 0 + size = size
    BY <1>4
  <2> QED
    BY <1>4, <2>1, ModSmall
<1> DEFINE c == [data |-> data, capacity |-> capacity, used |-> size]
<1> HIDE DEF off, capacity
<1>8. ptr = data
  BY <1>3, <1>6, HeapAssumption DEF Address
<1>9. c \in Chunk /\ c.data = data /\ c.capacity = capacity /\ c.used = size
  BY <1>4, <1>5 DEF Chunk
<1>10. chunks' = [chunks EXCEPT ![s] = Append(chunks[s], c)]
  BY <1>3, <1>6, <1>7 DEF NewChunk
<1> HIDE DEF c
<1>11. chunks \in [Store -> Seq(Chunk)]
  BY DEF IInv, TypeOK, Chunk
<1>12. /\ chunks'[s] = Append(chunks[s], c)
       /\ \A t \in Store \ {s} : chunks'[t] = chunks[t]
       /\ chunks' \in [Store -> Seq(Chunk)]
  BY <1>1, <1>9, <1>10, <1>11, AppendFacts
<1>13. /\ DOMAIN chunks'[s] = 1..(n + 1) /\ chunks'[s][n + 1] = c
       /\ \A i \in 1..n : chunks'[s][i] = chunks[s][i]
  BY <1>9, <1>11, <1>12, AppendFacts
<1>14. Extends(chunks[s], chunks'[s])
  <2>1. \A i \in 1..n : i \in 1..(n + 1) /\ chunks[s][i].used \in Nat
    BY <1>1, ObjectTypes DEF IInv, Chunk
  <2> QED
    BY <1>1, <1>13, <2>1 DEF Extends
<1>15. \A i \in DOMAIN chunks'[s] : ChunkOK(chunks'[s][i])
  <2>1. ChunkOK(c)
    BY <1>3, <1>5, <1>9 DEF ChunkOK, New
  <2>2. \A i \in 1..n : ChunkOK(chunks[s][i])
    BY <1>1 DEF IInv, DocumentsOK, DocumentOK
  <2>3. \A i \in 1..(n + 1) : i = n + 1 \/ i \in 1..n
    BY <1>1
  <2> QED
    BY <1>13, <2>1, <2>2, <2>3
<1>16. InUse([ptr |-> ptr, size |-> size], c) /\ n + 1 \in DOMAIN chunks'[s]
  BY <1>1, <1>4, <1>8, <1>9, <1>13 DEF InUse, Address
<1>17. Region(c) = [data |-> data, capacity |-> capacity]
  BY <1>9 DEF Region
<1>18. ChunksOwnedOnce'
  <2>1. /\ n + 1 \in Nat \ {0} /\ n + 1 > 1 /\ n + 1 - 1 = n
    BY <1>1
  <2>2. New(c.data, c.capacity) /\ heap' = heap \cup {Region(c)}
    BY <1>3, <1>9, <1>17
  <2>3. \A t \in live \ {s} : chunks'[t] = chunks[t]
    BY <1>12 DEF IInv, TypeOK
  <2> QED
    BY <1>1, <1>9, <1>13, <2>1, <2>2, <2>3, NewChunkApart
<1>19. Fresh(ptr, size)
  <2> SUFFICES ASSUME NEW t \in live, NEW i \in DOMAIN chunks[t]
               PROVE  \/ chunks[t][i].data + chunks[t][i].used <= ptr
                      \/ ptr + size <= chunks[t][i].data
    BY DEF Fresh
  <2> DEFINE d == chunks[t][i]
  <2>1. t \in Store /\ d \in Chunk /\ ChunkOK(d)
    BY ObjectTypes DEF IInv, TypeOK, DocumentsOK, DocumentOK
  <2>2. d.data \in Nat /\ d.used \in Nat /\ d.capacity \in Nat /\ d.used <= d.capacity
    BY <2>1, HeapAssumption DEF Chunk, ChunkOK, Address
  <2>3. Region(d) \in heap
    BY DEF IInv, ChunksOwnedOnce, Regions
  <2>4. data + capacity <= d.data \/ d.data + d.capacity <= data
    BY <1>3, <2>3 DEF New, Region
  <2> HIDE DEF d
  <2>5. data \in Nat /\ size \in Nat /\ 0 + size <= capacity
    BY <1>4, <1>5, HeapAssumption DEF Address
  <2>7. d.data + d.used <= data + 0 \/ data + 0 + size <= d.data
    BY <1>5, <2>2, <2>4, <2>5, OutsideChunk
  <2>6. d.data + d.used <= data \/ data + size <= d.data
    BY <2>5, <2>7
  <2> QED
    BY <1>8, <2>6 DEF d
<1>20. ptr # Null /\ ptr % AlignOf[k] = 0
  BY <1>6, <1>8, HeapAssumption DEF Address, Null
<1>21. heap' \subseteq [data : Address, capacity : Nat \ {0}]
  BY <1>3, <1>5 DEF IInv, TypeOK
<1> QED
  BY <1>12, <1>13, <1>14, <1>15, <1>16, <1>18, <1>19, <1>20, <1>21 DEF Placed

(* allocate() hands out fresh bytes, from the last chunk or a new one.     *)
LEMMA AllocatePlaces ==
  ASSUME IInv, UNCHANGED live, NEW s \in Store, NEW k \in Kind, NEW size \in 1..MaxPiece,
         NEW ptr \in Address, Allocate(s, size, AlignOf[k], ptr)
  PROVE  s \in live /\ Placed(s, k, size, ptr)
BY CutPlaces, CutNewPlaces DEF Allocate

-----------------------------------------------------------------------------
(* What the tables read as.                                                *)

ReadIn(mem, e) == [i \in 1..e.size |-> mem[e.ptr + i - 1]]
TableIn(mem, table) == [k \in Kind |-> [i \in DOMAIN table[k] |-> ReadIn(mem, table[k][i])]]

(* Address a has been handed out of one of the chunks.                     *)
Held(a, list) == \E j \in DOMAIN list : list[j].data <= a /\ a < list[j].data + list[j].used

(* ReadTable in terms of one memory and one set of tables.                 *)
LEMMA ReadTableIn ==
  ASSUME NEW s
  PROVE  ReadTable(s) = IF s \in live THEN TableIn(memory, entries[s]) ELSE NoEntries
BY DEF ReadTable, TableIn, Read, ReadIn

(* The i-th byte of a piece of a chunk.                                    *)
LEMMA ByteOfPiece ==
  ASSUME NEW base \in Nat, NEW used \in Nat, NEW room \in Nat, NEW top \in Nat,
         NEW ptr \in Nat, NEW size \in Nat, NEW i \in Nat,
         base >= 1, used <= room, base + room - 1 <= top,
         base <= ptr, ptr + size <= base + used, i >= 1, i <= size
  PROVE  /\ base <= ptr + i - 1 /\ ptr + i - 1 < base + used
         /\ ptr + i - 1 >= 1 /\ ptr + i - 1 <= top /\ ptr + i - 1 \in Nat
OBVIOUS

(* The bytes of a piece have been handed out.                              *)
LEMMA PieceHeld ==
  ASSUME NEW list \in Seq(Chunk), \A i \in DOMAIN list : ChunkOK(list[i]),
         NEW e \in Entry, NEW k \in Kind, PieceOK(e, k, list), NEW i \in 1..e.size
  PROVE  e.ptr + i - 1 \in Address /\ Held(e.ptr + i - 1, list)
<1>1. e.size \in Nat /\ i \in Nat /\ i >= 1 /\ i <= e.size
  BY DEF Entry
<1>2. e.ptr # Null
  BY <1>1 DEF PieceOK
<1>3. e.ptr \in Nat
  BY HeapAssumption DEF Entry, Address, Null
<1>4. PICK j \in DOMAIN list : InUse(e, list[j])
  BY <1>2 DEF PieceOK
<1> DEFINE c == list[j]
<1>5. c \in Chunk /\ ChunkOK(c)
  BY <1>4, ElementOfSeq, LenProperties
<1>6. /\ c.data \in Nat /\ c.data >= 1 /\ c.used \in Nat /\ c.capacity \in Nat
      /\ c.used <= c.capacity /\ c.data + c.capacity - 1 <= MaxAddress
  BY <1>5, HeapAssumption DEF Chunk, ChunkOK, Address
<1>7. c.data <= e.ptr /\ e.ptr + e.size <= c.data + c.used
  BY <1>4 DEF InUse
<1> HIDE DEF c
<1>8. /\ c.data <= e.ptr + i - 1 /\ e.ptr + i - 1 < c.data + c.used
      /\ e.ptr + i - 1 >= 1 /\ e.ptr + i - 1 <= MaxAddress /\ e.ptr + i - 1 \in Nat
  <2> DEFINE p == e.ptr  z == e.size  b == c.data  u == c.used  r == c.capacity
  <2>1. /\ b \in Nat /\ u \in Nat /\ r \in Nat /\ MaxAddress \in Nat /\ p \in Nat
        /\ z \in Nat /\ i \in Nat /\ b >= 1 /\ u <= r /\ b + r - 1 <= MaxAddress
        /\ b <= p /\ p + z <= b + u /\ i >= 1 /\ i <= z
    BY <1>1, <1>3, <1>6, <1>7, HeapAssumption
  <2> HIDE DEF p, z, b, u, r
  <2>2. /\ b <= p + i - 1 /\ p + i - 1 < b + u
        /\ p + i - 1 >= 1 /\ p + i - 1 <= MaxAddress /\ p + i - 1 \in Nat
    BY <2>1, ByteOfPiece
  <2> QED
    BY <2>2 DEF p, z, b, u, r
<1> QED
  BY <1>4, <1>8, HeapAssumption DEF Held, Address, c

(* A document reads as before when nothing handed out to it is written.    *)
LEMMA TableKept ==
  ASSUME NEW list \in Seq(Chunk), NEW table \in [Kind -> Seq(Entry)],
         DocumentOK(list, table), NEW mem, NEW later,
         \A a \in Address : Held(a, list) => later[a] = mem[a]
  PROVE  TableIn(later, table) = TableIn(mem, table)
<1>1. \A i \in DOMAIN list : ChunkOK(list[i])
  BY DEF DocumentOK
<1>2. \A k \in Kind : \A i \in DOMAIN table[k] : ReadIn(later, table[k][i]) = ReadIn(mem, table[k][i])
  <2> TAKE k \in Kind
  <2>1. table[k] \in Seq(Entry)
    OBVIOUS
  <2> TAKE i \in DOMAIN table[k]
  <2>2. table[k][i] \in Entry /\ PieceOK(table[k][i], k, list)
    BY <2>1, ElementOfSeq, LenProperties DEF DocumentOK
  <2> DEFINE e == table[k][i]
  <2>3. \A n \in 1..e.size : later[e.ptr + n - 1] = mem[e.ptr + n - 1]
    BY <1>1, <2>2, PieceHeld
  <2> QED
    BY <2>3 DEF ReadIn
<1> QED
  BY <1>2 DEF TableIn

(* A piece stays where it is when its document gets more memory.           *)
LEMMA PieceKept ==
  ASSUME NEW list \in Seq(Chunk), NEW longer \in Seq(Chunk), Extends(list, longer),
         NEW e \in Entry, NEW k \in Kind, PieceOK(e, k, list)
  PROVE  PieceOK(e, k, longer)
<1>1. CASE e.ptr = Null
  BY <1>1 DEF PieceOK
<1>2. CASE e.ptr # Null
  <2>1. PICK j \in DOMAIN list : InUse(e, list[j])
    BY <1>2 DEF PieceOK
  <2> DEFINE c == list[j]
             d == longer[j]
  <2>2. j \in DOMAIN longer /\ c \in Chunk /\ d \in Chunk
    BY <2>1, ElementOfSeq, LenProperties DEF Extends
  <2>3. d.data = c.data /\ c.used <= d.used
    BY <2>1 DEF Extends
  <2>4. /\ c.data \in Nat /\ c.used \in Nat /\ d.used \in Nat /\ e.ptr \in Nat /\ e.size \in Nat
    <3>1. \A x \in Chunk : x.data \in Nat /\ x.used \in Nat
      BY HeapAssumption DEF Chunk, Address
    <3>2. \A x \in Entry : x.ptr \in Nat /\ x.size \in Nat
      BY HeapAssumption DEF Entry, Address, Null
    <3> QED
      BY <2>2, <3>1, <3>2
  <2>5. c.data <= e.ptr /\ e.ptr + e.size <= c.data + c.used
    BY <2>1 DEF InUse
  <2> HIDE DEF c, d
  <2>6. d.data <= e.ptr /\ e.ptr + e.size <= d.data + d.used
    BY <2>3, <2>4, <2>5
  <2> QED
    BY <1>2, <2>2, <2>6 DEF PieceOK, InUse, d
<1> QED
  BY <1>1, <1>2

(* Tables with e at the end of the one of kind k.                          *)
Plus(table, k, e) == [table EXCEPT ![k] = Append(table[k], e)]

(* A new entry at the end of one table: the tables stay well placed, and   *)
(* what they read as gets the bytes of the entry at the end.               *)
LEMMA EntryAdded ==
  ASSUME NEW table \in [Kind -> Seq(Entry)], NEW k \in Kind, NEW e \in Entry, NEW mem,
         NEW list, DocumentOK(list, table), PieceOK(e, k, list)
  PROVE  /\ Plus(table, k, e) \in [Kind -> Seq(Entry)]
         /\ DocumentOK(list, Plus(table, k, e))
         /\ TableIn(mem, Plus(table, k, e)) = Plus(TableIn(mem, table), k, ReadIn(mem, e))
<1> DEFINE longer == Plus(table, k, e)
           q == table[k]
           old == TableIn(mem, table)
           new == TableIn(mem, longer)
           read == [i \in DOMAIN q |-> ReadIn(mem, q[i])]
           bytes == ReadIn(mem, e)
<1>1. q \in Seq(Entry) /\ Append(q, e) \in Seq(Entry)
  BY AppendFacts
<1>2. /\ longer \in [Kind -> Seq(Entry)] /\ longer[k] = Append(q, e)
      /\ \A j \in Kind \ {k} : longer[j] = table[j]
  BY <1>1 DEF Plus
<1> HIDE DEF longer
<1>3. /\ DOMAIN longer[k] = 1..(Len(q) + 1) /\ Len(q) \in Nat /\ DOMAIN q = 1..Len(q)
      /\ \A i \in 1..Len(q) : longer[k][i] = q[i]
      /\ longer[k][Len(q) + 1] = e
  BY <1>1, <1>2, AppendFacts
<1>4. \A i \in 1..(Len(q) + 1) : i \in 1..Len(q) \/ i = Len(q) + 1
  BY <1>3
<1>5. DocumentOK(list, longer)
  <2>1. \A i \in DOMAIN longer[k] : PieceOK(longer[k][i], k, list)
    BY <1>3, <1>4 DEF DocumentOK
  <2> QED
    BY <1>2, <2>1 DEF DocumentOK
<1>6. \A j \in Kind \ {k} : new[j] = old[j]
  BY <1>2 DEF TableIn
<1>7. old[k] = read
  BY DEF TableIn
<1>8. new[k] = [i \in 1..(Len(q) + 1) |-> ReadIn(mem, longer[k][i])]
  BY <1>3 DEF TableIn
<1>9. new[k] = Append(read, bytes)
  <2> DEFINE Bs == {bytes} \cup {read[i] : i \in DOMAIN q}
             both == Append(read, bytes)
  <2>1. read \in Seq(Bs) /\ Len(read) = Len(q) /\ bytes \in Bs
    BY <1>3
  <2> HIDE DEF Bs, read, bytes, q
  <2>2. /\ both \in Seq(Bs) /\ DOMAIN both = 1..(Len(q) + 1)
        /\ \A i \in 1..Len(q) : both[i] = read[i]
        /\ both[Len(q) + 1] = bytes
    BY <2>1, AppendFacts
  <2>3. both = [i \in 1..(Len(q) + 1) |-> both[i]]
    <3>1. both \in [1..Len(both) -> Bs] /\ DOMAIN both = 1..Len(both)
      BY <2>2, LenProperties
    <3> HIDE DEF both
    <3>2. both \in [1..(Len(q) + 1) -> Bs]
      BY <2>2, <3>1
    <3> QED
      BY <3>2
  <2>4. \A i \in 1..Len(q) : read[i] = ReadIn(mem, longer[k][i])
    BY <1>3 DEF read
  <2>5. bytes = ReadIn(mem, longer[k][Len(q) + 1])
    BY <1>3 DEF bytes
  <2>6. \A i \in 1..(Len(q) + 1) : both[i] = ReadIn(mem, longer[k][i])
    BY <1>4, <2>2, <2>4, <2>5
  <2> HIDE DEF both
  <2>7. new[k] = both
    BY <1>8, <2>3, <2>6
  <2> QED
    BY <2>7 DEF both
<1>10. new = [j \in Kind |-> new[j]] /\ old = [j \in Kind |-> old[j]]
  BY DEF TableIn
<1> HIDE DEF new, old, read, bytes
<1>11. new = [old EXCEPT ![k] = Append(old[k], bytes)]
  BY <1>6, <1>7, <1>9, <1>10
<1> QED
  BY <1>2, <1>5, <1>11 DEF new, old, bytes, longer, Plus

-----------------------------------------------------------------------------
(* Each operation.                                                         *)

(* What the tables read as after a step.                                   *)
LEMMA ReadTableNext ==
  ASSUME NEW t
  PROVE  ReadTable(t)' = IF t \in live' THEN TableIn(memory', entries'[t]) ELSE NoEntries
<1>1. ReadTable(t)' = IF t \in live' THEN TableIn(memory, entries[t])' ELSE NoEntries
  BY DEF ReadTable, TableIn, Read, ReadIn, NoEntries
<1> QED
  BY <1>1 DEF TableIn, ReadIn

(* A well placed entry e in a table of s, when nothing else of what the    *)
(* tables read as changes.                                                 *)
LEMMA EntryStep ==
  ASSUME IInv, UNCHANGED live, NEW s \in live, NEW k \in Kind, NEW e \in Entry,
         entries' = [entries EXCEPT ![s][k] = Append(@, e)],
         chunks' \in [Store -> Seq(Chunk)], heap' \subseteq [data : Address, capacity : Nat \ {0}],
         memory' \in [Address -> Byte \cup {Garbage}],
         \A t \in Store \ {s} : chunks'[t] = chunks[t],
         ChunksOwnedOnce', PieceOK(e, k, chunks'[s]), DocumentOK(chunks'[s], entries[s]),
         \A t \in live : TableIn(memory', entries[t]) = TableIn(memory, entries[t])
  PROVE  IInv' /\ Abstract!Add(s, k, ReadIn(memory', e))
<1> DEFINE bytes == ReadIn(memory', e)
<1>1. /\ s \in Store /\ live \subseteq Store
      /\ entries \in [Store -> [Kind -> Seq(Entry)]]
  BY DEF IInv, TypeOK, Chunk, Entry
<1>2. entries[s] \in [Kind -> Seq(Entry)] /\ entries' = [entries EXCEPT ![s] = Plus(entries[s], k, e)]
  BY <1>1 DEF Plus
<1>3. /\ DocumentOK(chunks'[s], Plus(entries[s], k, e))
      /\ Plus(entries[s], k, e) \in [Kind -> Seq(Entry)]
      /\ TableIn(memory', Plus(entries[s], k, e)) = Plus(TableIn(memory', entries[s]), k, bytes)
  <2> DEFINE tab == entries[s]
             list == chunks'[s]
             mem == memory'
             read == ReadIn(mem, e)
  <2>1. tab \in [Kind -> Seq(Entry)] /\ DocumentOK(list, tab) /\ PieceOK(e, k, list)
    BY <1>2
  <2> HIDE DEF tab, list, mem
  <2>2. DocumentOK(list, Plus(tab, k, e)) /\ Plus(tab, k, e) \in [Kind -> Seq(Entry)]
    BY <2>1, EntryAdded
  <2>3. TableIn(mem, Plus(tab, k, e)) = Plus(TableIn(mem, tab), k, read)
    BY <2>1, EntryAdded
  <2> QED
    BY <2>2, <2>3 DEF tab, list, mem
<1>4. /\ entries' \in [Store -> [Kind -> Seq(Entry)]]
      /\ \A t \in Store \ {s} : entries'[t] = entries[t]
      /\ entries'[s] = Plus(entries[s], k, e)
  BY <1>1, <1>2, <1>3
<1>5. TypeOK'
  BY <1>1, <1>4 DEF TypeOK, Chunk, Entry
<1>6. DocumentsOK'
  <2>1. ASSUME NEW t \in live, t # s PROVE DocumentOK(chunks'[t], entries'[t])
    <3>1. chunks'[t] = chunks[t] /\ entries'[t] = entries[t]
      BY <1>1, <1>4, <2>1
    <3> QED
      BY <3>1 DEF IInv, DocumentsOK
  <2> QED
    BY <1>3, <1>4, <2>1 DEF DocumentsOK
<1>7. IInv'
  BY <1>5, <1>6 DEF IInv
<1> HIDE DEF bytes
<1>8. TableIn(memory', entries'[s]) = Plus(TableIn(memory, entries[s]), k, bytes)
  BY <1>3, <1>4
<1>9. Abstract!Add(s, k, bytes)
  <2> DEFINE table == [t \in Store |-> ReadTable(t)]
             later == [t \in Store |-> ReadTable(t)']
  <2>1. \A t \in Store \ {s} : later[t] = table[t]
    BY <1>4, ReadTableNext, ReadTableIn
  <2>2. later[s] = Plus(table[s], k, bytes)
    <3>1. table[s] = TableIn(memory, entries[s]) /\ later[s] = TableIn(memory', entries'[s])
      BY <1>1, ReadTableNext, ReadTableIn
    <3> QED
      BY <1>8, <3>1
  <2>3. later = [table EXCEPT ![s] = Plus(table[s], k, bytes)]
    BY <1>1, <2>1, <2>2
  <2> QED
    BY <2>3 DEF Abstract!Add, Plus
<1> QED
  BY <1>7, <1>9 DEF bytes

(* An allocation, what is written to it, and the new entry.                *)
LEMMA AddStep ==
  ASSUME IInv, UNCHANGED live, NEW s \in live, NEW k \in Kind, NEW room \in 1..MaxPiece,
         NEW ptr \in Address, Placed(s, k, room, ptr),
         NEW size \in 1..room, NEW x \in Byte, Write(ptr, size, x), AddEntry(s, k, ptr, size)
  PROVE  IInv' /\ Abstract!Add(s, k, [i \in 1..size |-> x])
<1> DEFINE e == [ptr |-> ptr, size |-> size]
           bytes == [i \in 1..size |-> x]
<1>1. /\ s \in Store /\ live \subseteq Store /\ chunks[s] \in Seq(Chunk)
      /\ chunks \in [Store -> Seq(Chunk)] /\ entries \in [Store -> [Kind -> Seq(Entry)]]
      /\ memory \in [Address -> Byte \cup {Garbage}]
  BY DEF IInv, TypeOK, Chunk, Entry
<1>2. /\ MaxPiece \in Nat /\ MaxAddress \in Nat /\ room \in Nat /\ size \in Nat /\ size >= 1
      /\ size <= room /\ ptr \in Nat /\ ptr >= 1
  BY WordAssumption, HeapAssumption DEF Address
<1>3. e \in Entry /\ e.ptr = ptr /\ e.size = size
  BY <1>2 DEF Entry
<1>4. entries' = [entries EXCEPT ![s][k] = Append(@, e)]
  BY DEF AddEntry
<1> HIDE DEF e
<1>5. memory' \in [Address -> Byte \cup {Garbage}]
  BY <1>1 DEF Write
<1>6. chunks'[s] \in Seq(Chunk)
  BY <1>1 DEF Placed
<1>7. PieceOK(e, k, chunks'[s])
  <2>1. PICK j \in DOMAIN chunks'[s] : InUse([ptr |-> ptr, size |-> room], chunks'[s][j])
    BY DEF Placed
  <2> DEFINE c == chunks'[s][j]
  <2>2. c \in Chunk
    BY <1>6, <2>1, ElementOfSeq, LenProperties
  <2>3. c.data \in Nat /\ c.used \in Nat
    BY <2>2, HeapAssumption DEF Chunk, Address
  <2>4. c.data <= ptr /\ ptr + room <= c.data + c.used
    BY <2>1 DEF InUse
  <2> HIDE DEF c
  <2>5. c.data <= ptr /\ ptr + size <= c.data + c.used
    BY <1>2, <2>3, <2>4
  <2> QED
    BY <1>3, <2>1, <2>5 DEF PieceOK, InUse, Placed, c
<1>8. DocumentOK(chunks'[s], entries[s])
  <2>1. \A i \in DOMAIN chunks'[s] : ChunkOK(chunks'[s][i])
    BY DEF Placed
  <2>2. ASSUME NEW j \in Kind, NEW i \in DOMAIN entries[s][j]
        PROVE  PieceOK(entries[s][j][i], j, chunks'[s])
    <3>1. PieceOK(entries[s][j][i], j, chunks[s]) /\ entries[s][j][i] \in Entry
      BY <2>2, ObjectTypes, <1>1 DEF IInv, DocumentsOK, DocumentOK
    <3> QED
      BY <1>1, <1>6, <3>1, PieceKept DEF Placed
  <2> QED
    BY <2>1, <2>2 DEF DocumentOK
<1>9. ASSUME NEW t \in live PROVE TableIn(memory', entries[t]) = TableIn(memory, entries[t])
  <2>1. /\ t \in Store /\ chunks[t] \in Seq(Chunk) /\ entries[t] \in [Kind -> Seq(Entry)]
        /\ DocumentOK(chunks[t], entries[t])
    BY <1>1 DEF IInv, DocumentsOK
  <2>2. ASSUME NEW a \in Address, Held(a, chunks[t]) PROVE memory'[a] = memory[a]
    <3>1. PICK j \in DOMAIN chunks[t] :
            chunks[t][j].data <= a /\ a < chunks[t][j].data + chunks[t][j].used
      BY <2>2 DEF Held
    <3> DEFINE c == chunks[t][j]
    <3>2. c.data + c.used <= ptr \/ ptr + room <= c.data
      BY <3>1 DEF Placed, Fresh
    <3>3. c \in Chunk
      BY <2>1, <3>1, ElementOfSeq, LenProperties
    <3>4. c.data \in Nat /\ c.used \in Nat /\ a \in Nat
      BY <3>3, HeapAssumption DEF Chunk, Address
    <3> HIDE DEF c
    <3>5. c.data <= a /\ a < c.data + c.used
      BY <3>1 DEF c
    <3>6. ~(ptr <= a /\ a < ptr + size)
      BY <1>2, <3>2, <3>4, <3>5
    <3> QED
      BY <3>6 DEF Write
  <2> QED
    BY <2>1, <2>2, TableKept
<1>10. ReadIn(memory', e) = bytes
  <2>1. ASSUME NEW i \in 1..size PROVE memory'[ptr + i - 1] = x
    <3>1. ptr + i - 1 \in Address
      <4>1. i \in 1..e.size /\ \A j \in DOMAIN chunks'[s] : ChunkOK(chunks'[s][j])
        BY <1>3, <2>1 DEF Placed
      <4> QED
        BY <1>3, <1>6, <1>7, <4>1, PieceHeld
    <3>2. ptr <= ptr + i - 1 /\ ptr + i - 1 < ptr + size
      BY <1>2, <2>1
    <3> QED
      BY <3>1, <3>2 DEF Write
  <2> QED
    BY <1>3, <2>1 DEF ReadIn
<1>11. IInv' /\ Abstract!Add(s, k, ReadIn(memory', e))
  BY <1>3, <1>4, <1>5, <1>7, <1>8, <1>9, EntryStep DEF Placed
<1> QED
  BY <1>10, <1>11

(* A container without elements: an entry that points nowhere.             *)
LEMMA SealEmptyStep ==
  ASSUME IInv, NEW s \in Store, NEW k \in Kind, SealEmpty(s, k)
  PROVE  IInv' /\ Abstract!Add(s, k, <<>>)
<1> DEFINE e == [ptr |-> Null, size |-> 0]
<1>1. e \in Entry /\ e.ptr = Null /\ e.size = 0
  BY DEF Entry
<1>2. /\ s \in live /\ UNCHANGED <<live, chunks, heap, memory>>
      /\ entries' = [entries EXCEPT ![s][k] = Append(@, e)]
  BY DEF SealEmpty, AddEntry
<1> HIDE DEF e
<1>3. ReadIn(memory', e) = <<>>
  BY <1>1 DEF ReadIn
<1>4. PieceOK(e, k, chunks'[s])
  BY <1>1 DEF PieceOK
<1>5. DocumentOK(chunks'[s], entries[s])
  BY <1>2 DEF IInv, DocumentsOK
<1>6. ChunksOwnedOnce'
  BY <1>2 DEF IInv, ChunksOwnedOnce, Regions, Region
<1>7. /\ chunks' \in [Store -> Seq(Chunk)] /\ heap' \subseteq [data : Address, capacity : Nat \ {0}]
      /\ memory' \in [Address -> Byte \cup {Garbage}]
      /\ \A t \in Store \ {s} : chunks'[t] = chunks[t]
      /\ \A t \in live : TableIn(memory', entries[t]) = TableIn(memory, entries[t])
  BY <1>2 DEF IInv, TypeOK, Chunk
<1>8. IInv' /\ Abstract!Add(s, k, ReadIn(memory', e))
  BY <1>1, <1>2, <1>4, <1>5, <1>6, <1>7, EntryStep
<1> QED
  BY <1>3, <1>8

(* Tables without entries read as tables without bytes.                    *)
LEMMA NothingRead ==
  ASSUME NEW mem
  PROVE  /\ NoEntries \in [Kind -> Seq(Entry)] /\ TableIn(mem, NoEntries) = NoEntries
         /\ Abstract!Nothing = NoEntries
BY DEF NoEntries, TableIn, Abstract!Nothing

(* A new object owns one new chunk and has no pieces.                      *)
LEMMA ConstructStep ==
  ASSUME IInv, NEW s \in Store, Construct(s)
  PROVE  IInv' /\ Abstract!Construct(s)
<1>1. /\ live \subseteq Store /\ chunks \in [Store -> Seq(Chunk)]
      /\ entries \in [Store -> [Kind -> Seq(Entry)]]
      /\ heap \subseteq [data : Address, capacity : Nat \ {0}]
  BY DEF IInv, TypeOK, Chunk, Entry
<1>2. PICK data \in Address :
        /\ New(data, DefaultChunk)
        /\ chunks' = [chunks EXCEPT ![s] = <<NewChunk(data, DefaultChunk, 0)>>]
        /\ heap' = heap \cup {[data |-> data, capacity |-> DefaultChunk]}
  BY DEF Construct
<1>3. /\ s \notin live /\ live' = live \cup {s} /\ memory' = memory
      /\ entries' = [entries EXCEPT ![s] = NoEntries]
  BY DEF Construct
<1> DEFINE c == [data |-> data, capacity |-> DefaultChunk, used |-> 0]
           one == <<c>>
<1>4. /\ DefaultChunk \in Nat \ {0} /\ DefaultChunk <= Limit
  BY WordAssumption DEF Limit
<1>5. /\ c \in Chunk /\ c.data = data /\ c.capacity = DefaultChunk /\ c.used = 0
      /\ Region(c) = [data |-> data, capacity |-> DefaultChunk]
  BY <1>4 DEF Chunk, Region
<1>6. ChunkOK(c)
  BY <1>2, <1>4, <1>5 DEF ChunkOK, New
<1>7. chunks' = [chunks EXCEPT ![s] = one]
  BY <1>2 DEF NewChunk
<1> HIDE DEF c
<1>8. one \in Seq(Chunk) /\ DOMAIN one = 1..1 /\ one[1] = c
  BY <1>5
<1> HIDE DEF one
<1>9. /\ chunks' \in [Store -> Seq(Chunk)] /\ chunks'[s] = one
      /\ \A t \in Store \ {s} : chunks'[t] = chunks[t]
  BY <1>1, <1>7, <1>8
<1>10. /\ entries' \in [Store -> [Kind -> Seq(Entry)]] /\ entries'[s] = NoEntries
       /\ \A t \in Store \ {s} : entries'[t] = entries[t]
  BY <1>1, <1>3, NothingRead
<1>11. heap' \subseteq [data : Address, capacity : Nat \ {0}]
  BY <1>1, <1>2, <1>4
<1>12. TypeOK'
  BY <1>1, <1>3, <1>9, <1>10, <1>11 DEF IInv, TypeOK, Chunk, Entry
<1>13. DocumentsOK'
  <2>1. ASSUME NEW t \in live PROVE DocumentOK(chunks'[t], entries'[t])
    <3>1. chunks'[t] = chunks[t] /\ entries'[t] = entries[t]
      BY <1>1, <1>3, <1>9, <1>10
    <3> QED
      BY <3>1 DEF IInv, DocumentsOK
  <2>2. DocumentOK(one, NoEntries)
    <3>1. \A i \in DOMAIN one : one[i] = c
      BY <1>8
    <3>2. \A k \in Kind : DOMAIN NoEntries[k] = {}
      BY DEF NoEntries
    <3> QED
      BY <1>6, <3>1, <3>2 DEF DocumentOK
  <2> QED
    BY <1>3, <1>9, <1>10, <2>1, <2>2 DEF DocumentsOK
<1>14. ChunksOwnedOnce'
  <2>1. New(c.data, c.capacity) /\ heap' = heap \cup {Region(c)}
    BY <1>2, <1>5
  <2>2. \A t \in live \ {s} : chunks'[t] = chunks[t]
    BY <1>1, <1>9
  <2>3. PICK n \in Nat \ {0} : n = 1
    OBVIOUS
  <2>4. /\ DOMAIN chunks'[s] = 1..n /\ chunks'[s][n] = c /\ ~ (n > 1)
        /\ \A i \in 1..(n - 1) : chunks'[s][i] = chunks[s][i]
    BY <1>8, <1>9, <2>3
  <2>5. s \in live' /\ live \subseteq live' /\ live' \subseteq live \cup {s} /\ s \notin live
    BY <1>3
  <2> QED
    BY <1>5, <2>1, <2>2, <2>4, <2>5, NewChunkApart
<1>15. Abstract!Construct(s)
  <2>1. ASSUME NEW t \in Store PROVE ReadTable(t)' = ReadTable(t)
    <3>1. CASE t = s
      BY <1>3, <1>10, <3>1, NothingRead, ReadTableNext, ReadTableIn
    <3>2. CASE t # s
      BY <1>3, <1>10, <3>2, ReadTableNext, ReadTableIn
    <3> QED
      BY <3>1, <3>2
  <2> QED
    BY <1>3, <2>1 DEF Abstract!Construct
<1> QED
  BY <1>12, <1>13, <1>14, <1>15 DEF IInv

(* Deleting the chunks of one object leaves the memory of the others.      *)
LEMMA DeleteFacts ==
  ASSUME IInv, NEW s \in live, DeleteChunks(s)
  PROVE  /\ heap' = UNION {Regions(t) : t \in live \ {s}}
         /\ heap' \subseteq [data : Address, capacity : Nat \ {0}]
         /\ memory' \in [Address -> Byte \cup {Garbage}]
         /\ \A t \in live \ {s} : TableIn(memory', entries[t]) = TableIn(memory, entries[t])
<1>1. /\ live \subseteq Store /\ heap \subseteq [data : Address, capacity : Nat \ {0}]
      /\ memory \in [Address -> Byte \cup {Garbage}]
  BY DEF IInv, TypeOK
<1>2. heap = UNION {Regions(t) : t \in live}
  BY DEF IInv, ChunksOwnedOnce
<1>3. ASSUME NEW t \in live \ {s}, NEW i \in DOMAIN chunks[s], NEW j \in DOMAIN chunks[t]
      PROVE  /\ Region(chunks[s][i]) # Region(chunks[t][j])
             /\ \A a \in Address :
                  chunks[t][j].data <= a /\ a < chunks[t][j].data + chunks[t][j].used
                    => ~ Within(a, Region(chunks[s][i]))
  <2> DEFINE c == chunks[s][i]
             d == chunks[t][j]
  <2>1. /\ c.data + c.capacity <= d.data \/ d.data + d.capacity <= c.data
    BY <1>3 DEF IInv, ChunksOwnedOnce
  <2>2. c \in Chunk /\ d \in Chunk /\ ChunkOK(d)
    BY <1>1, ObjectTypes DEF IInv, DocumentsOK, DocumentOK
  <2>3. /\ c.data \in Nat /\ c.capacity \in Nat \ {0} /\ d.data \in Nat
        /\ d.capacity \in Nat \ {0} /\ d.used \in Nat /\ d.used <= d.capacity
    <3>1. \A x \in Chunk : x.data \in Nat /\ x.used \in Nat /\ x.capacity \in Nat \ {0}
      BY HeapAssumption DEF Chunk, Address
    <3> QED
      BY <2>2, <3>1 DEF ChunkOK
  <2> HIDE DEF c, d
  <2>4. c.data # d.data
    BY <2>1, <2>3
  <2>5. \A a \in Nat : d.data <= a /\ a < d.data + d.used
                       => ~ (c.data <= a /\ a < c.data + c.capacity)
    BY <2>1, <2>3
  <2>6. Address \subseteq Nat
    BY HeapAssumption DEF Address
  <2> QED
    BY <2>4, <2>5, <2>6 DEF Region, Within, c, d
<1>4. heap' = UNION {Regions(t) : t \in live \ {s}}
  <2>1. heap' = heap \ Regions(s)
    BY DEF DeleteChunks
  <2>2. \A t \in live \ {s} : Regions(t) \cap Regions(s) = {}
    BY <1>3 DEF Regions
  <2> QED
    BY <1>2, <2>1, <2>2
<1>5. memory' \in [Address -> Byte \cup {Garbage}]
  BY <1>1 DEF DeleteChunks
<1>6. ASSUME NEW t \in live \ {s} PROVE TableIn(memory', entries[t]) = TableIn(memory, entries[t])
  <2>1. /\ t \in Store /\ chunks[t] \in Seq(Chunk) /\ entries[t] \in [Kind -> Seq(Entry)]
        /\ DocumentOK(chunks[t], entries[t])
    BY <1>1, ObjectTypes DEF IInv, DocumentsOK
  <2>2. ASSUME NEW a \in Address, Held(a, chunks[t]) PROVE memory'[a] = memory[a]
    <3>1. \A r \in Regions(s) : ~ Within(a, r)
      BY <1>3, <2>2 DEF Held, Regions
    <3> QED
      BY <3>1 DEF DeleteChunks
  <2> QED
    BY <2>1, <2>2, TableKept
<1> QED
  BY <1>1, <1>4, <1>5, <1>6 DEF DeleteChunks

(* A destructor takes its own chunks back and no others.                   *)
LEMMA DestroyStep ==
  ASSUME IInv, NEW s \in Store, Destroy(s)
  PROVE  IInv' /\ Abstract!Destroy(s)
<1>1. /\ s \in live /\ live' = live \ {s} /\ chunks' = chunks /\ entries' = entries
      /\ DeleteChunks(s) /\ live \subseteq Store
  BY DEF Destroy, IInv, TypeOK
<1>2. /\ heap' = UNION {Regions(t) : t \in live'}
      /\ heap' \subseteq [data : Address, capacity : Nat \ {0}]
      /\ memory' \in [Address -> Byte \cup {Garbage}]
      /\ \A t \in live' : TableIn(memory', entries[t]) = TableIn(memory, entries[t])
  BY <1>1, DeleteFacts
<1>3. TypeOK'
  BY <1>1, <1>2 DEF IInv, TypeOK
<1>4. DocumentsOK'
  BY <1>1 DEF IInv, DocumentsOK
<1>5. ChunksOwnedOnce'
  BY <1>1, <1>2 DEF IInv, ChunksOwnedOnce, Regions
<1>6. Abstract!Destroy(s)
  <2>1. \A t \in Store \ {s} : ReadTable(t)' = ReadTable(t)
    BY <1>1, <1>2, ReadTableNext, ReadTableIn
  <2>2. ReadTable(s)' = Abstract!Nothing
    BY <1>1, NothingRead, ReadTableNext
  <2> QED
    BY <1>1, <2>1, <2>2 DEF Abstract!Destroy
<1> QED
  BY <1>3, <1>4, <1>5, <1>6 DEF IInv

(* A move: what d had is deleted, d gets the chunks and tables of o, and o *)
(* is left without any.                                                    *)
LEMMA MoveStep ==
  ASSUME IInv, NEW d \in Store, NEW o \in live, d # o, live' = live \cup {d}, TakeOver(d, o),
         heap' = UNION {Regions(t) : t \in live \ {d}},
         heap' \subseteq [data : Address, capacity : Nat \ {0}],
         memory' \in [Address -> Byte \cup {Garbage}],
         \A t \in live \ {d} : TableIn(memory', entries[t]) = TableIn(memory, entries[t])
  PROVE  IInv' /\ Abstract!Move(d, o)
<1>1. /\ live \subseteq Store /\ chunks \in [Store -> Seq(Chunk)]
      /\ entries \in [Store -> [Kind -> Seq(Entry)]]
  BY DEF IInv, TypeOK, Chunk, Entry
<1>2. /\ chunks' = [chunks EXCEPT ![d] = chunks[o], ![o] = <<>>]
      /\ entries' = [entries EXCEPT ![d] = entries[o], ![o] = NoEntries]
  BY DEF TakeOver
<1> DEFINE none == <<>>
<1>3. none \in Seq(Chunk) /\ DOMAIN none = {}
  OBVIOUS
<1>4. chunks' = [chunks EXCEPT ![d] = chunks[o], ![o] = none]
  BY <1>2
<1> HIDE DEF none
<1>5. /\ chunks' \in [Store -> Seq(Chunk)] /\ chunks'[d] = chunks[o] /\ chunks'[o] = none
      /\ \A t \in Store \ {d, o} : chunks'[t] = chunks[t]
  BY <1>1, <1>3, <1>4
<1>6. /\ entries' \in [Store -> [Kind -> Seq(Entry)]]
      /\ entries'[d] = entries[o] /\ entries'[o] = NoEntries
      /\ \A t \in Store \ {d, o} : entries'[t] = entries[t]
  BY <1>1, <1>2, NothingRead
<1>7. TypeOK'
  BY <1>1, <1>5, <1>6 DEF TypeOK, Chunk, Entry
<1>8. DocumentsOK'
  <2>1. DocumentOK(chunks'[d], entries'[d])
    BY <1>5, <1>6 DEF IInv, DocumentsOK
  <2>2. DocumentOK(none, NoEntries)
    BY <1>3 DEF DocumentOK, NoEntries
  <2>3. ASSUME NEW t \in live \ {d, o} PROVE DocumentOK(chunks'[t], entries'[t])
    <3>1. chunks'[t] = chunks[t] /\ entries'[t] = entries[t]
      BY <1>1, <1>5, <1>6
    <3> QED
      BY <3>1 DEF IInv, DocumentsOK
  <2> QED
    BY <1>5, <1>6, <2>1, <2>2, <2>3 DEF DocumentsOK
<1>9. heap' = UNION {Regions(t)' : t \in live'}
  <2>1. Regions(d)' = Regions(o) /\ Regions(o)' = {}
    BY <1>3, <1>5 DEF Regions
  <2>2. \A t \in live \ {d, o} : Regions(t)' = Regions(t)
    BY <1>1, <1>5 DEF Regions
  <2> DEFINE before == UNION {Regions(t) : t \in live \ {d}}
             after == UNION {Regions(t)' : t \in live'}
  <2>3. \A t \in live' : t = d \/ t = o \/ t \in live \ {d, o}
    OBVIOUS
  <2>4. after \subseteq before
    BY <2>1, <2>2, <2>3
  <2>5. before \subseteq after
    BY <2>1, <2>2
  <2> QED
    BY <2>4, <2>5
<1>10. ChunksOwnedOnce'
  <2> SUFFICES ASSUME NEW s \in live', NEW t \in live',
                      NEW i \in DOMAIN chunks'[s], NEW j \in DOMAIN chunks'[t]
               PROVE  \/ s = t /\ i = j
                      \/ chunks'[s][i].data + chunks'[s][i].capacity <= chunks'[t][j].data
                      \/ chunks'[t][j].data + chunks'[t][j].capacity <= chunks'[s][i].data
    BY <1>9 DEF ChunksOwnedOnce
  <2> DEFINE Source(x) == IF x = d THEN o ELSE x
  <2>1. s # o /\ t # o
    BY <1>3, <1>5
  <2>2. /\ Source(s) \in live /\ chunks'[s] = chunks[Source(s)]
        /\ Source(t) \in live /\ chunks'[t] = chunks[Source(t)]
    BY <1>1, <1>5, <2>1
  <2>3. Source(s) = Source(t) => s = t
    BY <2>1
  <2> HIDE DEF Source
  <2>4. \/ Source(s) = Source(t) /\ i = j
        \/ chunks[Source(s)][i].data + chunks[Source(s)][i].capacity <= chunks[Source(t)][j].data
        \/ chunks[Source(t)][j].data + chunks[Source(t)][j].capacity <= chunks[Source(s)][i].data
    BY <2>2 DEF IInv, ChunksOwnedOnce
  <2> QED
    BY <2>2, <2>3, <2>4
<1>11. Abstract!Move(d, o)
  <2>1. ReadTable(d)' = ReadTable(o)
    BY <1>6, ReadTableNext, ReadTableIn
  <2>2. ReadTable(o)' = Abstract!Nothing
    BY <1>6, NothingRead, ReadTableNext
  <2>3. \A t \in Store \ {d, o} : ReadTable(t)' = ReadTable(t)
    BY <1>6, ReadTableNext, ReadTableIn
  <2> QED
    BY <1>1, <2>1, <2>2, <2>3 DEF Abstract!Move
<1> QED
  BY <1>7, <1>8, <1>10, <1>11 DEF IInv

(* Both moves.                                                             *)
LEMMA MovesStep ==
  ASSUME IInv, NEW d \in Store, NEW o \in Store, MoveConstruct(d, o) \/ MoveAssign(d, o)
  PROVE  IInv' /\ Abstract!Move(d, o)
<1>1. CASE MoveConstruct(d, o)
  <2>1. d \notin live /\ o \in live /\ live' = live \cup {d} /\ TakeOver(d, o)
    BY <1>1 DEF MoveConstruct
  <2>2. /\ heap' = UNION {Regions(t) : t \in live \ {d}}
        /\ heap' \subseteq [data : Address, capacity : Nat \ {0}]
        /\ memory' \in [Address -> Byte \cup {Garbage}]
        /\ \A t \in live \ {d} : TableIn(memory', entries[t]) = TableIn(memory, entries[t])
    <3>1. live \ {d} = live /\ heap' = heap /\ memory' = memory
      BY <1>1 DEF MoveConstruct
    <3> QED
      BY <3>1 DEF IInv, TypeOK, ChunksOwnedOnce
  <2> QED
    BY <2>1, <2>2, MoveStep
<1>2. CASE MoveAssign(d, o)
  <2>1. /\ d \in live /\ o \in live /\ d # o /\ live' = live \cup {d}
        /\ TakeOver(d, o) /\ DeleteChunks(d)
    BY <1>2 DEF MoveAssign
  <2> QED
    BY <2>1, DeleteFacts, MoveStep
<1> QED
  BY <1>1, <1>2

-----------------------------------------------------------------------------
(* The theorems.                                                           *)

(* Before any object is constructed.                                       *)
LEMMA InitFacts == Init => IInv /\ Abstract!Init
<1> SUFFICES ASSUME Init PROVE IInv /\ Abstract!Init
  OBVIOUS
<1> DEFINE none == <<>>
<1>1. none \in Seq(Chunk) /\ chunks = [s \in Store |-> none]
  BY DEF Init
<1> HIDE DEF none
<1>2. chunks \in [Store -> Seq(Chunk)] /\ entries \in [Store -> [Kind -> Seq(Entry)]]
  BY <1>1, NothingRead DEF Init
<1>3. TypeOK
  BY <1>2 DEF Init, TypeOK, Chunk, Entry
<1>4. DocumentsOK /\ ChunksOwnedOnce
  BY DEF Init, DocumentsOK, ChunksOwnedOnce
<1>5. Abstract!Init
  BY NothingRead, ReadTableIn DEF Init, Abstract!Init
<1> QED
  BY <1>3, <1>4, <1>5 DEF IInv

(* Every operation keeps the invariant and is an operation on tables.      *)
LEMMA StepFacts == IInv /\ [Next]_vars => IInv' /\ [Abstract!Next]_(Abstract!vars)
<1> SUFFICES ASSUME IInv, [Next]_vars
             PROVE  IInv' /\ [Abstract!Next]_(Abstract!vars)
  OBVIOUS
<1> DEFINE Bytes == {<<>>} \cup UNION {[1..n -> {x}] : n \in 1..MaxPiece, x \in Byte}
<1>1. ASSUME NEW s \in Store, Construct(s) PROVE IInv' /\ Abstract!Next
  BY <1>1, ConstructStep DEF Abstract!Next
<1>2. ASSUME NEW s \in Store, Destroy(s) PROVE IInv' /\ Abstract!Next
  BY <1>2, DestroyStep DEF Abstract!Next
<1>3. ASSUME NEW s \in Store, NEW k \in Kind, NEW size \in 1..MaxPiece, NEW x \in Byte,
             Abstract!Add(s, k, [i \in 1..size |-> x])
      PROVE  Abstract!Next
  <2>1. [i \in 1..size |-> x] \in Bytes
    <3>1. [i \in 1..size |-> x] \in [1..size -> {x}]
      OBVIOUS
    <3> DEFINE Filled(n, y) == [1..n -> {y}]
    <3>2. Bytes = {<<>>} \cup UNION {Filled(n, y) : n \in 1..MaxPiece, y \in Byte}
      OBVIOUS
    <3>3. [i \in 1..size |-> x] \in Filled(size, x)
      BY <3>1
    <3> HIDE DEF Filled, Bytes
    <3> QED
      BY <3>2, <3>3
  <2> QED
    BY <1>3, <2>1 DEF Abstract!Next
<1>4. ASSUME NEW s \in Store, NEW length \in 2..MaxPiece, UnescapeString(s, length)
      PROVE  IInv' /\ Abstract!Next
  <2>1. "string" \in Kind
    BY DEF Kind
  <2>2. PICK ptr \in Address :
          /\ Allocate(s, length, AlignOf["string"], ptr)
          /\ \E written \in 1..(length - 1), x \in Byte :
               Write(ptr, written, x) /\ AddEntry(s, "string", ptr, written)
    BY <1>4 DEF UnescapeString
  <2>3. PICK written \in 1..(length - 1), x \in Byte :
          Write(ptr, written, x) /\ AddEntry(s, "string", ptr, written)
    BY <2>2
  <2>4. length \in 1..MaxPiece /\ written \in 1..length /\ written \in 1..MaxPiece
    BY WordAssumption
  <2>5. UNCHANGED live
    BY <1>4 DEF UnescapeString
  <2>6. s \in live /\ Placed(s, "string", length, ptr)
    BY <2>1, <2>2, <2>4, <2>5, AllocatePlaces
  <2>7. IInv' /\ Abstract!Add(s, "string", [i \in 1..written |-> x])
    BY <2>1, <2>3, <2>4, <2>5, <2>6, AddStep
  <2> QED
    BY <1>3, <2>1, <2>4, <2>7
<1>5. ASSUME NEW s \in Store, NEW k \in {"array", "object"}, NEW size \in Multiples(k),
             Seal(s, k, size)
      PROVE  IInv' /\ Abstract!Next
  <2>1. k \in Kind /\ size \in 1..MaxPiece /\ size \in 1..size
    BY WordAssumption DEF Kind, Multiples
  <2>2. PICK ptr \in Address :
          /\ Allocate(s, size, AlignOf[k], ptr)
          /\ \E x \in Byte : Write(ptr, size, x)
          /\ AddEntry(s, k, ptr, size)
    BY <1>5 DEF Seal
  <2>3. PICK x \in Byte : Write(ptr, size, x)
    BY <2>2
  <2>4. UNCHANGED live
    BY <1>5 DEF Seal
  <2>5. s \in live /\ Placed(s, k, size, ptr)
    BY <2>1, <2>2, <2>4, AllocatePlaces
  <2>6. IInv' /\ Abstract!Add(s, k, [i \in 1..size |-> x])
    BY <2>1, <2>2, <2>3, <2>4, <2>5, AddStep
  <2> QED
    BY <1>3, <2>1, <2>6
<1>6. ASSUME NEW s \in Store, NEW k \in {"array", "object"}, SealEmpty(s, k)
      PROVE  IInv' /\ Abstract!Next
  <2>1. k \in Kind /\ <<>> \in Bytes
    BY DEF Kind
  <2>2. IInv' /\ Abstract!Add(s, k, <<>>)
    BY <1>6, <2>1, SealEmptyStep
  <2> QED
    BY <2>1, <2>2 DEF Abstract!Next
<1>7. ASSUME NEW s \in Store, NEW o \in Store, MoveConstruct(s, o) \/ MoveAssign(s, o)
      PROVE  IInv' /\ Abstract!Next
  BY <1>7, MovesStep DEF Abstract!Next
<1>8. CASE UNCHANGED vars
  <2>1. IInv'
    <3>1. UNCHANGED <<live, chunks, entries, heap, memory>>
      BY <1>8 DEF vars
    <3>2. TypeOK'
      BY <3>1 DEF IInv, TypeOK
    <3>3. DocumentsOK'
      BY <3>1 DEF IInv, DocumentsOK
    <3>4. ChunksOwnedOnce'
      BY <3>1 DEF IInv, ChunksOwnedOnce, Regions
    <3> QED
      BY <3>2, <3>3, <3>4 DEF IInv
  <2>2. UNCHANGED Abstract!vars
    <3>1. \A t \in Store : ReadTable(t)' = ReadTable(t)
      BY <1>8, ReadTableNext, ReadTableIn DEF vars
    <3> QED
      BY <1>8, <3>1 DEF Abstract!vars, vars
  <2> QED
    BY <2>1, <2>2
<1> QED
  BY <1>1, <1>2, <1>4, <1>5, <1>6, <1>7, <1>8 DEF Next

(* What every reachable state satisfies.                                   *)
LEMMA Invariance == Spec => []IInv
<1>1. Init => IInv
  BY InitFacts
<1>2. IInv /\ [Next]_vars => IInv'
  BY StepFacts
<1> QED
  BY <1>1, <1>2, PTL DEF Spec

(* The variables keep their types: no chunk is empty or lies outside the   *)
(* heap, and no entry points outside it (storage.hpp).                     *)
THEOREM TypesSafe == Spec => []TypeOK
<1>1. IInv => TypeOK
  BY DEF IInv
<1> QED BY <1>1, Invariance, PTL

(* Whatever allocate() is asked for, in whatever order: a piece lies in    *)
(* what a chunk of its own document has handed out, aligned for its kind.  *)
THEOREM PiecesSafe == Spec => []PiecesInChunks
<1>1. IInv => PiecesInChunks
  BY DEF IInv, DocumentsOK, DocumentOK, ChunkOK, PieceOK, PiecesInChunks
<1> QED BY <1>1, Invariance, PTL

(* However documents move and die, their chunks are exactly the memory in  *)
(* use and none is another's.                                              *)
THEOREM OwnershipSafe == Spec => []ChunksOwnedOnce
<1>1. IInv => ChunksOwnedOnce
  BY DEF IInv
<1> QED BY <1>1, Invariance, PTL

(* Storage is a set of tables: later allocations, other documents, moves   *)
(* and destructors change nothing of what was stored.                      *)
THEOREM TablesImplemented == Spec => ImplementsTables
<1>1. Init => IInv /\ Abstract!Init
  BY InitFacts
<1>2. IInv /\ [Next]_vars => IInv' /\ [Abstract!Next]_(Abstract!vars)
  BY StepFacts
<1> QED
  BY <1>1, <1>2, PTL DEF Spec, ImplementsTables, Abstract!Spec
=============================================================================
