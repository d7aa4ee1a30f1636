------------------------------ MODULE MuseHeap ------------------------------
(***************************************************************************)
(* The heap of MUSE (src/memoria/main_memory.c): memory_malloc,            *)
(* memory_free and the compaction of a segment, for programs whose         *)
(* handler threads run at the same time (one handler per connection, one   *)
(* connection per program).                                                *)
(*                                                                         *)
(* A segment is a range of logical addresses tiled by blocks; each block   *)
(* starts with a heap_metadata (size, is_free) of METADATA_SIZE bytes, and *)
(* the blocks are found only by walking from one header to the next.       *)
(* Between two critical sections of mutex_lock the handler of              *)
(* memory_malloc gives the lock up, so a malloc is several steps here.     *)
(* Pages are counted, not placed: MusePaging says where they are.          *)
(***************************************************************************)
EXTENDS Integers, Sequences, FiniteSets, FiniteSetsExt, SequencesExt, Functions

CONSTANTS
  Programs,       \* the programs connected to MUSE
  NOBODY,         \* mutex_lock is free
  Sizes,          \* the sizes the clients ask for
  PAGE_SIZE,
  FRAMES,         \* TOTAL_FRAME_NUM + TOTAL_FRAME_NUM_SWAP
  MaxMallocs,     \* bound: mallocs of all programs together
  MaxMaps         \* bound: mapped segments per program

\* sizeof(heap_metadata): a packed uint32_t and a bool.
METADATA_SIZE == 5

VARIABLES
  segment_table,  \* per program, the segments in the order of the list
  using_memory,   \* per program, read as the int that the leak summary logs
  pages,          \* pages handed out by page_with_free_size
  mutex_lock,     \* the program whose handler holds mutex_lock, or NOBODY
  pc, req,        \* where the handler of memory_malloc is, and the size asked
  lost,           \* the server follows bytes that are not a heap_metadata
  live,           \* history: the blocks each client holds, oldest first
  granted,        \* history: programs of whose blocks in use a growth marked one free
  mallocs         \* history: mallocs asked, for the bound

heap == <<segment_table, using_memory, pages>>
handlers == <<mutex_lock, pc, req, lost>>
clients == <<live, granted, mallocs>>
vars == <<segment_table, using_memory, pages, mutex_lock, pc, req, lost, live, granted, mallocs>>

ASSUME HeapAssumption ==
  /\ Sizes \subseteq Int /\ PAGE_SIZE \in Nat \ {0} /\ FRAMES \in Nat /\ MaxMallocs \in Nat

-----------------------------------------------------------------------------
(* The blocks of a segment.  hdr maps the address of every header ever     *)
(* written to its contents; a header that compaction swallowed stays where *)
(* it was, out of the chain.                                               *)

NextMetadata(s, d) == d + METADATA_SIZE + s.hdr[d].size

\* The headers a walk from the base meets; it ends where the next one would
\* be the limit.  OffChain marks a walk that leaves the headers.
OffChain == -2
Chain(s) ==
  LET walk[d \in s.base..s.limit] ==
        IF d \notin DOMAIN s.hdr \/ NextMetadata(s, d) > s.limit THEN {OffChain}
        ELSE {d} \cup (IF NextMetadata(s, d) = s.limit THEN {} ELSE walk[NextMetadata(s, d)])
  IN walk[s.base]

ultima_metadata_segmento(s) == Max(Chain(s))
Only(s) == Cardinality(Chain(s)) = 1
Penultimate(s) == Max(Chain(s) \ {ultima_metadata_segmento(s)})

\* Mutant: the header of the rest is not counted.
NoRoomForRest(s, size) ==
  LET found == {d \in Chain(s) : s.hdr[d].is_free /\ s.hdr[d].size + METADATA_SIZE >= size}
  IN IF found = {} THEN -1 ELSE Min(found)

\* Mutant: the search forgets is_free.
TakesUsed(s, size) ==
  LET found == {d \in Chain(s) : s.hdr[d].size >= size}
  IN IF found = {} THEN -1 ELSE Min(found)

\* The first block the search accepts.  Next to the last block it looks at the
\* last one only, and a single block is taken without looking at is_free.
proxima_metadata_libre_con_size(s, size) ==
  LET last == ultima_metadata_segmento(s)
      fits(d) == s.hdr[d].size >= size
      found == IF Only(s) THEN {d \in {last} : fits(d)}
               ELSE {d \in Chain(s) \ {Penultimate(s)} : s.hdr[d].is_free /\ fits(d)}
  IN IF found = {} THEN -1 ELSE Min(found)

\* Mutant: the search for the next free block skips the one it starts from.
SkipsFirst(s, d) ==
  LET found == {e \in Chain(s) : e > d /\ e # ultima_metadata_segmento(s) /\ s.hdr[e].is_free}
  IN IF found = {} THEN -1 ELSE Min(found)

\* The first free block at or after d, and the last but one, in use or not, when
\* the last one is free.  OffChain: the last block is the one asked about.
proxima_metadata_libre(s, d) ==
  LET last == ultima_metadata_segmento(s)
      found == {e \in Chain(s) : e >= d /\ e # last
                  /\ IF e = Penultimate(s) THEN s.hdr[last].is_free ELSE s.hdr[e].is_free}
  IN IF d = last THEN IF s.hdr[d].is_free THEN d ELSE OffChain
     ELSE IF found = {} THEN -1 ELSE Min(found)

\* Mutant: the block that swallows its neighbour becomes free.
AbsorbFrees(s, d, e) ==
  [s EXCEPT !.hdr[d] = [size |-> @.size + s.hdr[e].size + METADATA_SIZE, is_free |-> TRUE],
            !.hdr[e].is_free = TRUE]

\* The following block becomes part of d, which keeps its is_free.
Absorb(s, d, e) ==
  [s EXCEPT !.hdr[d].size = @ + s.hdr[e].size + METADATA_SIZE, !.hdr[e].is_free = TRUE]

Done == -1
Call(seg, inicial, siguiente) == [seg |-> seg, inicial |-> inicial, siguiente |-> siguiente]

\* One call of compactar_en_segmento.  Its last act is to call itself, if at all, so the
\* calls follow one another: c has the segment and the arguments of the next call,
\* siguiente being Done when there is none.
compactar_en_segmento(c) ==
  LET last == ultima_metadata_segmento(c.seg)
      libre == proxima_metadata_libre(c.seg, c.siguiente)
  IN IF c.siguiente = Done THEN c
     ELSE IF c.seg.hdr[c.siguiente].is_free
          THEN Call(Absorb(c.seg, c.inicial, c.siguiente), c.inicial,
                    IF c.siguiente = last THEN Done ELSE NextMetadata(c.seg, c.siguiente))
     ELSE IF c.siguiente = last \/ libre \in {-1, last} THEN Call(c.seg, c.inicial, Done)
     ELSE Call(c.seg, libre, NextMetadata(c.seg, libre))

CompactsSafely(s) == proxima_metadata_libre(s, s.base) # OffChain
compactar_espacios_libres(s) ==
  LET d == proxima_metadata_libre(s, s.base)
      calls[k \in 0..(s.limit - s.base)] ==
        IF k = 0 THEN Call(s, d, NextMetadata(s, d))
        ELSE compactar_en_segmento(calls[k - 1])
  IN IF d \in {-1, ultima_metadata_segmento(s)} THEN s ELSE calls[s.limit - s.base].seg

-----------------------------------------------------------------------------
(* The segments of a program.                                              *)

HeapSegments(p) == {i \in DOMAIN segment_table[p] : segment_table[p][i].is_heap}
Heap(p, i) == segment_table[p][i]

\* The first segment with a block that fits, 0 when there is none.
segment_with_free_space(p, size) ==
  LET found == {i \in HeapSegments(p) : proxima_metadata_libre_con_size(Heap(p, i), size) # -1}
  IN IF found = {} THEN 0 ELSE Min(found)

busca_segmento(p, address) ==
  LET found == {i \in DOMAIN segment_table[p] :
                  Heap(p, i).base <= address /\ address <= Heap(p, i).limit}
  IN IF found = {} THEN 0 ELSE Min(found)

number_of_free_frames == Max({0, FRAMES - pages})

\* Mutant: as many pages as are full.
FloorDiv(n, m) == n \div m

CeilDiv(n, m) == -((-n) \div m)

Init ==
  /\ segment_table = [p \in Programs |-> <<>>]
  /\ using_memory = [p \in Programs |-> 0]
  /\ pages = 0
  /\ mutex_lock = NOBODY
  /\ pc = [p \in Programs |-> "idle"]
  /\ req = [p \in Programs |-> 0]
  /\ lost = FALSE
  /\ live = [p \in Programs |-> <<>>]
  /\ granted = {}
  /\ mallocs = 0

\* A critical section of mutex_lock by the handler of p that ends where it goes
\* on to label l.  Nothing runs once the server is lost.
Critical(p, from, l) ==
  /\ ~lost
  /\ mutex_lock = NOBODY
  /\ pc[p] = from
  /\ pc' = [pc EXCEPT ![p] = l]

\* The request arrives.
AskMalloc(p) ==
  /\ ~lost /\ pc[p] = "idle" /\ mallocs < MaxMallocs
  /\ \E size \in Sizes : req' = [req EXCEPT ![p] = size]
  /\ pc' = [pc EXCEPT ![p] = "check"]
  /\ mallocs' = mallocs + 1
  /\ UNCHANGED <<heap, mutex_lock, lost, live, granted>>

\* A malloc of nothing is answered with mutex_lock held.
MallocNothing(p) ==
  /\ req[p] <= 0
  /\ Critical(p, "check", "idle")
  /\ mutex_lock' = p
  /\ UNCHANGED <<heap, req, lost, clients>>

TooBig(p) == req[p] + METADATA_SIZE > number_of_free_frames * PAGE_SIZE

MallocRefused(p) ==
  /\ req[p] > 0 /\ TooBig(p)
  /\ Critical(p, "check", "idle")
  /\ UNCHANGED <<heap, mutex_lock, req, lost, clients>>

MallocCheck(p) ==
  /\ req[p] > 0 /\ ~TooBig(p)
  /\ Critical(p, "check", "alloc")
  /\ UNCHANGED <<heap, mutex_lock, req, lost, clients>>

\* The first block that fits is split; the rest of it is a free block, of size 0 at
\* least.
Split(s, d, size) ==
  LET rest == d + size + METADATA_SIZE
      hdr(x) == CASE x = rest -> [size |-> s.hdr[d].size - size - METADATA_SIZE, is_free |-> TRUE]
                  [] x = d    -> [size |-> size, is_free |-> FALSE]
                  [] OTHER    -> s.hdr[x]
  IN [s EXCEPT !.hdr = [x \in DOMAIN @ \cup {rest} |-> hdr(x)]]

\* Mutant: the header is accounted to the program too.
AccountTotal(p) == using_memory[p] + req[p] + METADATA_SIZE
AccountMalloc(p) == using_memory[p] + req[p]

MallocInSegment(p) ==
  /\ Critical(p, "alloc", "idle")
  /\ \E i \in HeapSegments(p) : \E d \in DOMAIN Heap(p, i).hdr :
     /\ i = segment_with_free_space(p, req[p] + METADATA_SIZE)
     /\ d = proxima_metadata_libre_con_size(Heap(p, i), req[p] + METADATA_SIZE)
     /\ segment_table' = [segment_table EXCEPT ![p][i] = Split(@, d, req[p])]
     /\ using_memory' = [using_memory EXCEPT ![p] = AccountMalloc(p)]
     /\ live' = [live EXCEPT ![p] = Append(@, [addr |-> d + METADATA_SIZE, size |-> req[p]])]
     /\ UNCHANGED <<pages, mutex_lock, req, lost, granted, mallocs>>

CanGrow(p) ==
  /\ segment_table[p] # <<>>
  /\ Last(segment_table[p]).is_heap

\* No room: the lock is given up before the heap grows.
MallocNoRoom(p) ==
  /\ Critical(p, "alloc", IF CanGrow(p) THEN "grow" ELSE "new")
  /\ segment_with_free_space(p, req[p] + METADATA_SIZE) = 0
  /\ UNCHANGED <<heap, mutex_lock, req, lost, clients>>

\* sePuedeAgrandar looks for a segment that starts right behind the last one.
sePuedeAgrandar(p) == busca_segmento(p, Last(segment_table[p]).limit + 1) = 0

\* The last header becomes free and as long as the request needs, pages are
\* appended, and memory_malloc starts again.  A header that had more than a page
\* too much shrinks, and its block is not followed by a header any more.
MallocGrow(p) ==
  /\ Critical(p, "grow", "check")
  /\ sePuedeAgrandar(p)
  /\ \E d \in {ultima_metadata_segmento(Last(segment_table[p]))} :
     LET last == Last(segment_table[p]).hdr[d]
         n == CeilDiv(req[p] + METADATA_SIZE - last.size, PAGE_SIZE)
         grown(s) == [s EXCEPT !.hdr[d] = [size |-> last.size + n * PAGE_SIZE, is_free |-> TRUE],
                               !.limit = @ + Max({0, n}) * PAGE_SIZE]
     IN
     /\ segment_table' = [segment_table EXCEPT ![p] = ReplaceAt(@, Len(@), grown(Last(@)))]
     /\ pages' = pages + Max({0, n})
     /\ lost' = (n < 0)
     /\ granted' = IF last.is_free THEN granted ELSE granted \cup {p}
     /\ UNCHANGED <<using_memory, mutex_lock, req, live, mallocs>>

\* Another segment follows: the new one starts behind the last, and its first
\* header is written at address 0, pages before its own base.
MallocBehind(p) ==
  /\ Critical(p, "grow", "check")
  /\ ~sePuedeAgrandar(p)
  /\ lost' = TRUE
  /\ UNCHANGED <<heap, mutex_lock, req, clients>>

\* The new segment starts at 0, whatever the program has already.
MallocNewSegment(p) ==
  LET n == CeilDiv(req[p] + 2 * METADATA_SIZE, PAGE_SIZE)
      hdr == [d \in {0} |-> [size |-> n * PAGE_SIZE - METADATA_SIZE, is_free |-> TRUE]]
  IN /\ Critical(p, "new", "check")
     /\ segment_table' = [segment_table EXCEPT ![p] =
          Append(@, [is_heap |-> TRUE, base |-> 0, limit |-> n * PAGE_SIZE, hdr |-> hdr])]
     /\ pages' = pages + n
     /\ UNCHANGED <<using_memory, mutex_lock, req, lost, clients>>

\* Mutant: the header is looked for where it would be if it were not packed.
UnpackedMetadata(addr) == addr - 8
MetadataOf(addr) == addr - METADATA_SIZE

HasMap(p) == \E i \in DOMAIN segment_table[p] : ~Heap(p, i).is_heap

\* The client gives back a block it holds.  The header is marked free and every
\* segment of the program is compacted; an mmap segment has the bytes of a file
\* where the walk expects headers.
memory_free(p) ==
  \E k \in DOMAIN live[p] :
    LET b == live[p][k]
        d == MetadataOf(b.addr)
        i == busca_segmento(p, b.addr)
        found == i # 0 /\ d \in DOMAIN Heap(p, i).hdr
        marked(j) == IF j = i THEN [Heap(p, j) EXCEPT !.hdr[d].is_free = TRUE] ELSE Heap(p, j)
        broken == ~found \/ \E j \in HeapSegments(p) : ~CompactsSafely(marked(j))
    IN /\ Critical(p, "idle", "idle")
       /\ live' = [live EXCEPT ![p] = RemoveAt(@, k)]
       /\ \/ /\ broken \/ HasMap(p)
             /\ lost' = TRUE
             /\ UNCHANGED <<segment_table, using_memory>>
          \/ /\ ~broken
             /\ segment_table' = [segment_table EXCEPT ![p] =
                  [j \in DOMAIN @ |-> IF @[j].is_heap THEN compactar_espacios_libres(marked(j)) ELSE @[j]]]
             /\ using_memory' = [using_memory EXCEPT ![p] = @ - Heap(p, i).hdr[d].size]
             /\ UNCHANGED lost
       /\ UNCHANGED <<pages, mutex_lock, req, granted, mallocs>>

\* memory_map appends a segment behind the last one; its pages have no frames yet.
\* It finds the segment again by its address, and gives the pages of the file to
\* whatever segment is the first with that address.
crear_nuevo_segmento_mmap(p) ==
  LET base == IF segment_table[p] = <<>> THEN 0 ELSE Last(segment_table[p]).limit + 1
  IN /\ Cardinality(DOMAIN segment_table[p] \ HeapSegments(p)) < MaxMaps
     /\ Critical(p, "idle", "idle")
     /\ segment_table' = [segment_table EXCEPT ![p] =
          Append(@, [is_heap |-> FALSE, base |-> base, limit |-> base + PAGE_SIZE, hdr |-> <<>>])]
     /\ lost' = (busca_segmento(p, base) # 0)
     /\ UNCHANGED <<using_memory, pages, mutex_lock, req, clients>>

memory_malloc(p) ==
  \/ MallocNothing(p) \/ MallocRefused(p) \/ MallocCheck(p)
  \/ MallocInSegment(p) \/ MallocNoRoom(p)
  \/ MallocGrow(p) \/ MallocBehind(p) \/ MallocNewSegment(p)

Next == \E p \in Programs :
  AskMalloc(p) \/ memory_malloc(p) \/ memory_free(p) \/ crear_nuevo_segmento_mmap(p)

\* Each handler is a thread of its own, and a malloc that was received goes on
\* whenever mutex_lock is free.
Fairness == \A p \in Programs : WF_vars(memory_malloc(p))

Spec == Init /\ [][Next]_vars /\ Fairness
-----------------------------------------------------------------------------
(* Properties.                                                             *)

Metadata == [size : Nat, is_free : BOOLEAN]

\* Every variable keeps its type and a header is at an address of its segment.
TypeOK ==
  /\ \A p \in Programs : \A s \in Range(segment_table[p]) :
       /\ s.is_heap \in BOOLEAN /\ s.base \in Nat /\ s.limit \in Nat /\ s.base <= s.limit
       /\ \A d \in DOMAIN s.hdr : d \in s.base..s.limit /\ s.hdr[d] \in Metadata
  /\ using_memory \in [Programs -> Int] /\ pages \in Nat
  /\ mutex_lock \in Programs \cup {NOBODY} /\ lost \in BOOLEAN
  /\ pc \in [Programs -> {"idle", "check", "alloc", "grow", "new"}]
  /\ req \in [Programs -> Sizes \cup {0}]
  /\ mallocs \in 0..MaxMallocs

Bytes(b) == b.addr..(b.addr + b.size - 1)
Blocks(p) == Range(live[p])
Chained(p) == UNION {{[seg |-> i, addr |-> d] : d \in Chain(Heap(p, i))} : i \in HeapSegments(p)}

\* A program whose heap is one segment, none of whose blocks was given away.
Sound(p) == ~lost /\ ~HasMap(p) /\ p \notin granted

\* Two blocks a client holds never share a byte, whatever was split, merged and
\* grown in between, until a growth marks a block in use as free or a segment is
\* made at 0 behind a mapped one.
BlocksDisjoint ==
  \A p \in Programs : Sound(p) =>
    \A j, k \in DOMAIN live[p] :
      j # k => Bytes(live[p][j]) \cap Bytes(live[p][k]) = {}

\* The blocks in use, walking the segment, are the blocks the client holds, each at
\* least as long as the client asked for: none is forgotten and none is left in use
\* after it was freed.
HeadersMatchClient ==
  \A p \in Programs : Sound(p) =>
    LET used == {c \in Chained(p) : ~Heap(p, c.seg).hdr[c.addr].is_free}
    IN /\ {c.addr + METADATA_SIZE : c \in used} = {b.addr : b \in Blocks(p)}
       /\ Cardinality(used) = Len(live[p])
       /\ \A c \in used, b \in Blocks(p) :
            b.addr = c.addr + METADATA_SIZE => Heap(p, c.seg).hdr[c.addr].size >= b.size

\* After a free no two neighbours of the segment are free: compaction merges them all.
Coalesced ==
  \A p \in Programs : Sound(p) =>
    \A i \in HeapSegments(p) : \A d \in Chain(Heap(p, i)) :
      LET s == Heap(p, i) IN
      s.hdr[d].is_free /\ NextMetadata(s, d) < s.limit => ~s.hdr[NextMetadata(s, d)].is_free

\* The server leaves the chain of headers only after one of the two faults above.
LostOnlyAfterFault ==
  lost => \E p \in Programs : HasMap(p) \/ p \in granted

\* The bytes of the blocks of a client.
Held(blocks) ==
  LET sum[k \in 0..Len(blocks)] == IF k = 0 THEN 0 ELSE sum[k - 1] + blocks[k].size
  IN sum[Len(blocks)]

\* What the leak summary counts: never more than the client holds, although a
\* block that swallowed its neighbour gives back more than it took.
LeaksNotOverstated ==
  \A p \in Programs : Sound(p) =>
    using_memory[p] <= Held(live[p])

\* A malloc that was received is answered, however often it has to start again
\* after growing the heap, unless the server is lost or a malloc of nothing has kept
\* mutex_lock.
EveryMallocAnswered ==
  \A p \in Programs : pc[p] # "idle" ~> pc[p] = "idle" \/ lost \/ mutex_lock # NOBODY

\* What libmuse.h says of muse_alloc, that it reserves memory: no two blocks of a
\* client share a byte.
BlocksNeverShared ==
  \A p \in Programs : \A j, k \in DOMAIN live[p] :
    j # k => Bytes(live[p][j]) \cap Bytes(live[p][k]) = {}
=============================================================================
