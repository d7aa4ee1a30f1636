----------------------------- MODULE MusePaging -----------------------------
(***************************************************************************)
(* The paging of MUSE (src/memoria/main_memory.c): frames, swap file, the  *)
(* modified clock, heap pages and mapped files, for the requests malloc,   *)
(* free, cpy, get, map, sync and unmap of several programs.                *)
(*                                                                         *)
(* Each request does its paging under mutex_lock, so it is one step; a     *)
(* request loads several pages one after the other, and each load may      *)
(* evict one that an earlier load brought in.  The whole memory is one     *)
(* record that the steps of a request are folded over.                     *)
(*                                                                         *)
(* The contents of a page is one value: the client's last write to it.     *)
(* The headers of the heap (MuseHeap) are not in it; which pages a walk    *)
(* over headers loads is open.                                             *)
(***************************************************************************)
EXTENDS Integers, Sequences, FiniteSets, FiniteSetsExt, SequencesExt, Functions

CONSTANTS
  Programs,     \* 1..n, in the order of program_list
  Files,        \* the paths a client maps
  FilePages,    \* the pages of each file
  Values,       \* what the clients write
  Frames,       \* 0..TOTAL_FRAME_NUM - 1
  Slots,        \* 0..TOTAL_FRAME_NUM_SWAP - 1
  PAGE_SIZE,
  MaxSegments,  \* bound: segments per program
  MaxPages,     \* bound: heap pages of all programs together
  MaxRequests   \* bound: requests served

VARIABLES
  muse,     \* the memory of the server, see muse_main_memory_init
  requests  \* history: requests served, for the bound

vars == <<muse, requests>>

Zeros == <<"zeros", 0>>
NoFile == "none"
Destroyed == "destroyed"

ASSUME PagingAssumption ==
  /\ IsFiniteSet(Programs) /\ Programs = 1..Cardinality(Programs)
  /\ IsFiniteSet(Files) /\ Files \cap Programs = {} /\ Files \cap {NoFile, Destroyed} = {}
  /\ FilePages \in [Files -> Nat \ {0}]
  /\ Frames \in (SUBSET Nat) \ {{}} /\ IsFiniteSet(Frames)
  /\ Slots \in SUBSET Nat /\ IsFiniteSet(Slots)
  /\ PAGE_SIZE \in Nat \ {0} /\ MaxPages \in Nat

HeapIds == {id \in DOMAIN muse.page : id[1] \in Programs}

muse_main_memory_init ==
         [segment_table  |-> [p \in Programs |-> <<>>],
          BITMAP         |-> Frames,          \* the frames that are free
          BITMAP_SWAP    |-> Slots,           \* the slots of the swap file that are free
          page           |-> <<>>,            \* the page_s of each page
          frame          |-> [f \in Frames |-> Zeros],
          slot           |-> [s \in Slots |-> Zeros],
          segmentoClock  |-> 1,
          paginaClock    |-> 1,
          mapped         |-> {},              \* lista_archivos_mmap
          programas      |-> [f \in Files |-> <<>>],
          archivo        |-> [f \in Files |-> [n \in 1..FilePages[f] |-> <<f, n>>]],  \* the bytes of each file
          fault          |-> "none",
          want           |-> <<>>,            \* history: what each page should hold
          overflow       |-> FALSE,           \* history: a victim found the swap full
          stale          |-> {},              \* history: pages of files loaded without their last write
          unsaved        |-> {},              \* history: pages written or cleared since their last sync
          leaked         |-> {},              \* history: slots of evicted mapped pages
          unmapped       |-> FALSE]           \* history: a segment was removed

Init == muse = muse_main_memory_init /\ requests = 0

-----------------------------------------------------------------------------
(* Segments.                                                               *)

lista_de_segmentos(m) == FlattenSeq(m.segment_table)

busca_segmento(m, p, address) ==
  LET found == {i \in DOMAIN m.segment_table[p] :
        m.segment_table[p][i].base <= address /\ address <= m.segment_table[p][i].limit}
  IN IF found = {} THEN 0 ELSE Min(found)

NextBase(m, p) ==
  IF m.segment_table[p] = <<>> THEN 0 ELSE Last(m.segment_table[p]).limit + 1

-----------------------------------------------------------------------------
(* The modified clock.  The hand goes over the pages of all segments; a     *)
(* page of a file that is mapped twice is met twice.                       *)

Entries(m) ==
  LET segments == lista_de_segmentos(m)
  IN FlattenSeq([i \in DOMAIN segments |->
       [k \in DOMAIN segments[i].pages |-> [seg |-> i, pag |-> k, id |-> segments[i].pages[k]]]])

\* The positions of the victim and of the entries whose use bit is cleared. Round 1
\* starts behind the hand and takes a page neither used nor modified; round 2, over
\* all pages, one modified whose use bit is or was cleared; round 3 one not
\* modified; round 4 the first.
Choice(m, E) ==
  LET present == {i \in DOMAIN E : m.page[E[i].id].is_present}
      used(i) == m.page[E[i].id].is_used
      modified(i) == m.page[E[i].id].is_modify
      passed(i) == \E j \in present : j < i /\ E[j].id = E[i].id
      ahead(i) == \/ E[i].seg > m.segmentoClock
                  \/ E[i].seg = m.segmentoClock /\ E[i].pag > m.paginaClock
      first == {i \in present : ahead(i) /\ ~used(i) /\ ~modified(i)}
      second == {i \in present : (~used(i) \/ passed(i)) /\ modified(i)}
      third == {i \in present : ~modified(i)}
  IN CASE first # {}                -> [victim |-> Min(first), cleared |-> {}]
       [] first = {} /\ second # {} -> [victim |-> Min(second), cleared |-> {i \in present : i < Min(second)}]
       [] OTHER -> [victim |-> Min(IF third # {} THEN third ELSE present), cleared |-> present]

\* The hand is behind the last segment, or a page table it has to walk is freed.
ClockBreaks(m) ==
  LET segments == lista_de_segmentos(m)
  IN m.segmentoClock > Len(segments) \/ \E i \in DOMAIN segments : segments[i].file = Destroyed

\* No page of any segment is in memory: the clock goes round for ever.
ClockHangs(m, E) == \A i \in DOMAIN E : ~m.page[E[i].id].is_present

\* Mutant: the last slot is never found.
LastSlotUnused(m) == m.BITMAP_SWAP \ {Max(Slots)}

frame_swap_libre(m) == m.BITMAP_SWAP

\* Mutant: a page that was not modified is not written to its slot.
WritesModifiedOnly(m, id) ==
  IF frame_swap_libre(m) = {} THEN [m EXCEPT !.overflow = TRUE]
  ELSE LET s == Min(frame_swap_libre(m)) IN
       [m EXCEPT !.BITMAP_SWAP = @ \ {s},
                 !.slot[s] = IF m.page[id].is_modify THEN m.frame[m.page[id].fr] ELSE @,
                 !.page[id].fr = s, !.page[id].is_present = FALSE,
                 !.leaked = IF id[1] \in Programs THEN @ ELSE @ \cup {s}]

\* The victim goes to the first free slot of the swap file, whether it is a heap page
\* or a page of a file.  With the swap full it stays as it is, and its frame is
\* given away all the same.
se_hace_la_vistima(m, id) ==
  IF frame_swap_libre(m) = {} THEN [m EXCEPT !.overflow = TRUE]
  ELSE LET s == Min(frame_swap_libre(m)) IN
       [m EXCEPT !.BITMAP_SWAP = @ \ {s},
                 !.slot[s] = m.frame[m.page[id].fr],
                 !.page[id].fr = s, !.page[id].is_present = FALSE,
                 !.leaked = IF id[1] \in Programs THEN @ ELSE @ \cup {s}]

\* Mutant: the hand is left behind the segment of the victim.
NextSegment(seg) == seg + 1

HandAt(seg) == seg

\* The hand stops at the victim v, and the pages in cleared lose their use bit.
Passed(m, v, cleared) ==
  LET passed(x) == [m.page[x] EXCEPT !.is_used = @ /\ x \notin cleared]
  IN [m EXCEPT !.page = [x \in DOMAIN @ |-> passed(x)],
               !.segmentoClock = HandAt(v.seg), !.paginaClock = v.pag]

Replace(m, E, c) ==
  LET v == E[c.victim]
  IN [m |-> se_hace_la_vistima(Passed(m, v, {E[i].id : i \in c.cleared}), v.id),
      frame |-> m.page[v.id].fr]

dame_nro_frame_reemplazado(m, E) == Replace(m, E, Choice(m, E))

\* The first free frame, or the victim's.  A fault stops the server.
FrameOrVictim(m, E) ==
  IF m.BITMAP # {} THEN [m |-> [m EXCEPT !.BITMAP = @ \ {Min(@)}], frame |-> Min(m.BITMAP)]
  ELSE IF ClockBreaks(m) THEN [m |-> [m EXCEPT !.fault = "clock"], frame |-> Min(Frames)]
  ELSE IF ClockHangs(m, E) THEN [m |-> [m EXCEPT !.fault = "hang"], frame |-> Min(Frames)]
  ELSE dame_nro_frame_reemplazado(m, E)

TakeFrame(m) == FrameOrVictim(m, Entries(m))

\* Mutant: the slot of a page that comes back stays taken.
PlaceKeepsSlot(t, id, contents, frees) ==
  [t.m EXCEPT !.page[id].is_present = TRUE, !.page[id].is_used = TRUE, !.page[id].fr = t.frame,
              !.frame[t.frame] = contents]

\* The page of id gets the frame of t; its slot, when it is a heap page, is free once
\* the frame was found.
Place(t, id, contents, frees) ==
  [t.m EXCEPT !.page[id].is_present = TRUE, !.page[id].is_used = TRUE, !.page[id].fr = t.frame,
              !.frame[t.frame] = contents, !.BITMAP_SWAP = @ \cup frees]

Load(m, id, contents, frees) == Place(TakeFrame(m), id, contents, frees)

obtener_data_marco_heap(m, id) ==
  IF m.fault # "none" \/ m.page[id].is_present THEN m
  ELSE Load(m, id, m.slot[m.page[id].fr], {m.page[id].fr})

\* The page gets the contents, which are none when no byte is read.  It is stale
\* when the file does not have what was last written to the page.
FromFile(m, id, contents) ==
  LET lost == contents = Zeros \/ m.archivo[id[1]][id[2]] # m.want[id]
  IN [Load(m, id, contents, {}) EXCEPT !.stale = IF lost THEN @ \cup {id} ELSE @ \ {id}]

\* Mutant: the first page of the file is read for every page.
ReadsFirstPage(m, segment, n) ==
  LET id == segment.pages[n]
      empty == m.BITMAP = {} /\ n * PAGE_SIZE = segment.limit
  IN IF m.fault # "none" \/ m.page[id].is_present THEN m
     ELSE FromFile(m, id, IF empty THEN Zeros ELSE m.archivo[id[1]][1])

\* A page of a file is read from the file again, never from the slot it was evicted
\* to, which stays taken.  If a frame had to be freed for it, the bytes to read are
\* counted from the limit of the segment: none for the last page of a segment at 0.
obtener_data_marco_mmap(m, segment, n) ==
  LET id == segment.pages[n]
      empty == m.BITMAP = {} /\ n * PAGE_SIZE = segment.limit
  IN IF m.fault # "none" \/ m.page[id].is_present THEN m
     ELSE FromFile(m, id, IF empty THEN Zeros ELSE m.archivo[id[1]][n])

obtener_data(m, segment, n) ==
  IF segment.is_heap THEN obtener_data_marco_heap(m, segment.pages[n])
  ELSE obtener_data_marco_mmap(m, segment, n)

\* A request loads the pages ns of a segment in order.
LoadAll(m, segment, ns) == FoldLeft(LAMBDA s, n : obtener_data(s, segment, n), m, ns)

Contents(m, id) == IF m.page[id].is_present THEN m.frame[m.page[id].fr] ELSE m.slot[m.page[id].fr]

Store(m, id, v) ==
  IF m.fault # "none" THEN m
  ELSE [m EXCEPT !.frame[m.page[id].fr] = v, !.want[id] = v,
                 !.stale = @ \ {id}, !.unsaved = @ \cup {id}]

\* Written back to the page after it was loaded a second time.
Write(m, segment, n, v) ==
  LET id == segment.pages[n]
  IN Store(obtener_data([m EXCEPT !.page[id].is_modify = TRUE], segment, n), id, v)

-----------------------------------------------------------------------------
(* The requests.  A client passes addresses of segments it has.            *)

\* The model ends at a fault, and at an eviction that met a full swap: from there on
\* two pages share a frame and nothing is claimed of their contents.
Served == muse.fault = "none" /\ ~muse.overflow

\* A table of pages with those of new.
Extended(table, new) == [x \in DOMAIN table \cup DOMAIN new |-> IF x \in DOMAIN new THEN new[x] ELSE table[x]]

\* A new page takes a frame and keeps what the frame holds.
NewPage(t, p, kept) ==
  LET id == <<p, 1 + Cardinality({x \in DOMAIN t.m.page : x[1] = p})>>
      new == [is_present |-> TRUE, is_used |-> TRUE, is_modify |-> FALSE, fr |-> t.frame]
      longer(s) == [s EXCEPT !.pages = Append(@, id), !.limit = @ + PAGE_SIZE]
  IN IF t.m.fault # "none" THEN t.m
     ELSE [t.m EXCEPT !.page = Extended(@, [x \in {id} |-> new]),
                      !.want = Extended(@, [x \in {id} |-> kept[t.frame]]),
                      !.segment_table[p] = ReplaceAt(@, Len(@), longer(Last(@)))]

AddPage(m, p) == IF m.fault # "none" THEN m ELSE NewPage(TakeFrame(m), p, m.frame)

AddPages(m, p, n) == FoldLeft(LAMBDA s, i : AddPage(s, p), m, [i \in 1..n |-> i])

\* The walk over the headers of a heap segment loads its first page, and then those
\* of the others a header is in.
HeaderPages(s) ==
  {ns \in UNION {[1..k -> DOMAIN s.pages] : k \in DOMAIN s.pages} :
     ns[1] = 1 /\ \A i, j \in DOMAIN ns : i < j => ns[i] < ns[j]}

Walk(m, p) ==
  UNION {{LoadAll(m, s, ns) : ns \in HeaderPages(s)} :
           s \in {h \in Range(m.segment_table[p]) : h.is_heap}}

NewHeapSegment == [is_heap |-> TRUE, base |-> 0, limit |-> 0, pages |-> <<>>, file |-> NoFile]

number_of_free_frames == Cardinality(muse.BITMAP) + Cardinality(muse.BITMAP_SWAP)

\* A malloc adds n pages, one more in a new segment than number_of_free_frames
\* allows when the two headers do not fit with the bytes it checked.
memory_malloc(p) ==
  \E n \in 0..(MaxPages - Cardinality(HeapIds)) :
    LET table == muse.segment_table[p]
        fresh == table = <<>> \/ ~Last(table).is_heap
        start == IF fresh THEN [muse EXCEPT !.segment_table[p] = Append(@, NewHeapSegment)] ELSE muse
        grown == AddPages(IF n = 0 THEN muse ELSE start, p, n)
    IN /\ Served
       /\ number_of_free_frames > 0
       /\ n <= number_of_free_frames + (IF fresh THEN 1 ELSE 0)
       /\ n > 0 /\ fresh => Len(table) < MaxSegments
       /\ muse' \in Walk(grown, p)

\* Compaction walks every segment of the program; in a mapped one it meets no headers.
memory_free(p) ==
  /\ Served
  /\ \/ /\ \E s \in Range(muse.segment_table[p]) : ~s.is_heap
        /\ \E s \in Range(muse.segment_table[p]) : s.is_heap
        /\ muse' = [muse EXCEPT !.fault = "lost"]
     \/ /\ \A s \in Range(muse.segment_table[p]) : s.is_heap
        /\ muse' \in Walk(muse, p)

\* The programs that may use a segment: those in the list of its file.
Users(m, s) == CASE s.is_heap -> Programs
                 [] s.file = Destroyed -> {}
                 [] OTHER -> Range(m.programas[s.file])

PageOf(s, address) == 1 + ((address - s.base) \div PAGE_SIZE)

\* The addresses of pages of the segments of p, as the client knows them.
Addresses(p) == UNION {{s.base + (k - 1) * PAGE_SIZE : k \in DOMAIN s.pages} : s \in Range(muse.segment_table[p])}

\* Copying loads all the pages it needs, then loads each again to write it.  In a
\* heap the header may be in the page before, which is written back as it was, and
\* nothing is written when the header does not fit the request.
Copied(m, s, n, v, before, fits) ==
  IF ~fits \/ m.fault # "none" THEN m
  ELSE Write(IF before THEN Write(m, s, n - 1, Contents(m, s.pages[n - 1])) ELSE m, s, n, v)

memory_cpy(p) ==
  \E address \in Addresses(p), v \in Values, before \in BOOLEAN, fits \in BOOLEAN :
    LET s == muse.segment_table[p][busca_segmento(muse, p, address)]
        n == PageOf(s, address)
    IN /\ Served
       /\ p \in Users(muse, s)
       /\ (before \/ ~fits) => s.is_heap
       /\ before => n > 1
       /\ muse' = IF n \in DOMAIN s.pages
                  THEN Copied(LoadAll(muse, s, IF before THEN <<n - 1, n>> ELSE <<n>>), s, n, v, before, fits)
                  ELSE [muse EXCEPT !.fault = "crash"]

memory_get(p) ==
  \E address \in Addresses(p) :
    LET s == muse.segment_table[p][busca_segmento(muse, p, address)]
        n == PageOf(s, address)
    IN /\ Served
       /\ p \in Users(muse, s)
       /\ muse' = IF n \in DOMAIN s.pages THEN LoadAll(muse, s, <<n>>)
                  ELSE [muse EXCEPT !.fault = "crash"]

\* The first mapping of a path makes the pages, not present; a private mapping of one
\* that another program has is refused.  The segment is found again by its address,
\* which need not be the new one.
memory_map(p) ==
  \E f \in Files, shared \in BOOLEAN :
    LET pages == [n \in 1..FilePages[f] |-> <<f, n>>]
        base == NextBase(muse, p)
        s == [is_heap |-> FALSE, base |-> base, limit |-> base + FilePages[f] * PAGE_SIZE,
              pages |-> pages, file |-> f]
        absent == [is_present |-> FALSE, is_used |-> FALSE, is_modify |-> FALSE, fr |-> Min(Frames)]
        opened == IF f \in muse.mapped THEN muse
                  ELSE [muse EXCEPT !.mapped = @ \cup {f},
                                    !.page = Extended(@, [id \in Range(pages) |-> absent]),
                                    !.want = Extended(@, [id \in Range(pages) |-> muse.archivo[f][id[2]]])]
    IN /\ Served
       /\ Len(muse.segment_table[p]) < MaxSegments
       /\ f \in muse.mapped => shared \/ p \in Range(muse.programas[f])
       /\ muse' = IF busca_segmento(muse, p, base) # 0 THEN [muse EXCEPT !.fault = "lost"]
                  ELSE [opened EXCEPT !.segment_table[p] = Append(@, s),
                                      !.programas[f] = IF shared \/ @ = <<>> THEN Append(@, p) ELSE @]

\* Mutant: the pages are copied after all were loaded, each from the frame that its
\* entry names, which is a slot when a later load evicted it.
CopiesFrames(m, s, n, length) ==
  LET frame(k) == m.frame[m.page[s.pages[k]].fr]
      written == [k \in 1..FilePages[s.file] |->
                    IF k < n THEN m.archivo[s.file][k] ELSE IF k < n + length THEN frame(k) ELSE Zeros]
      synced == {s.pages[k] : k \in n..(n + length - 1)}
      cleared == {s.pages[k] : k \in (n + length)..Len(s.pages)}
  IN IF m.fault # "none" THEN m
     ELSE [m EXCEPT !.archivo[s.file] = written,
                    !.unsaved = (@ \ synced) \cup (synced \cap m.stale) \cup cleared]

\* The bytes from the synced page on go to the file, and the rest of the file is
\* cleared.  The segment is looked up in the table of the program, and its number
\* then used in the list of the segments of all programs.
Synced(m, s, n, length) ==
  LET written == [k \in 1..FilePages[s.file] |->
                    IF k < n THEN m.archivo[s.file][k]
                    ELSE IF k < n + length THEN Contents(m, s.pages[k]) ELSE Zeros]
      synced == {s.pages[k] : k \in n..(n + length - 1)}
      cleared == {s.pages[k] : k \in (n + length)..Len(s.pages)}
  IN IF m.fault # "none" THEN m
     ELSE [m EXCEPT !.archivo[s.file] = written,
                    !.unsaved = (@ \ synced) \cup (synced \cap m.stale) \cup cleared]

memory_sync(p) ==
  \E address \in Addresses(p), f \in Files : \E length \in 1..FilePages[f] :
    LET s == lista_de_segmentos(muse)[busca_segmento(muse, p, address)]
        n == PageOf(s, address)
        ns == [k \in 1..length |-> n + k - 1]
    IN /\ Served
       /\ length <= Len(s.pages)
       /\ s.base + s.limit >= address + length * PAGE_SIZE
       /\ ~s.is_heap
       /\ p \in Users(muse, s)
       /\ address % PAGE_SIZE = 0
       /\ muse' = IF ~(Range(ns) \subseteq DOMAIN s.pages) THEN [muse EXCEPT !.fault = "crash"]
                  ELSE Synced(LoadAll(muse, s, ns), s, n, length)

\* Mutant: the frames of the pages that are not in memory are freed too.
FreesAbsent(m, f) ==
  LET gone == {id \in DOMAIN m.page : id[1] = f}
      dead(s) == IF s.file = f THEN [s EXCEPT !.file = Destroyed, !.pages = <<>>] ELSE s
  IN [m EXCEPT !.BITMAP = @ \cup ({m.page[id].fr : id \in gone} \cap Frames),
               !.mapped = @ \ {f},
               !.page = Restrict(@, DOMAIN @ \ gone), !.want = Restrict(@, DOMAIN @ \ gone),
               !.stale = @ \ gone, !.unsaved = @ \ gone,
               !.segment_table = [p \in Programs |-> [i \in DOMAIN @[p] |-> dead(@[p][i])]]]

\* Mutant: the other segments of the file keep their page table.
KeepsPageTables(m, f) ==
  LET gone == {id \in DOMAIN m.page : id[1] = f}
  IN [m EXCEPT !.BITMAP = @ \cup {m.page[id].fr : id \in {x \in gone : m.page[x].is_present}},
               !.mapped = @ \ {f},
               !.page = Restrict(@, DOMAIN @ \ gone), !.want = Restrict(@, DOMAIN @ \ gone),
               !.stale = @ \ gone, !.unsaved = @ \ gone]

\* One entry of the program leaves the list of the file.  When it was the last, the
\* pages go, and with them the page table of every segment of the file; the list of
\* pages is then destroyed a second time, and the server may not survive that.
eliminar_archivo_mmap(m, f) ==
  LET gone == {id \in DOMAIN m.page : id[1] = f}
      dead(s) == IF s.file = f THEN [s EXCEPT !.file = Destroyed, !.pages = <<>>] ELSE s
  IN [m EXCEPT !.BITMAP = @ \cup {m.page[id].fr : id \in {x \in gone : m.page[x].is_present}},
               !.mapped = @ \ {f},
               !.page = Restrict(@, DOMAIN @ \ gone), !.want = Restrict(@, DOMAIN @ \ gone),
               !.stale = @ \ gone, !.unsaved = @ \ gone,
               !.segment_table = [p \in Programs |-> [i \in DOMAIN @[p] |-> dead(@[p][i])]]]

memory_unmap(p) ==
  \E i \in DOMAIN muse.segment_table[p] :
    LET j == busca_segmento(muse, p, muse.segment_table[p][i].base)
        s == muse.segment_table[p][j]
        users == muse.programas[s.file]
        left == [muse EXCEPT !.programas[s.file] = RemoveAt(@, Min({k \in DOMAIN users : users[k] = p})),
                             !.segment_table[p] = RemoveAt(@, j), !.unmapped = TRUE]
        last == left.programas[s.file] = <<>>
    IN /\ Served
       /\ ~s.is_heap
       /\ \/ s.file = Destroyed /\ muse' = [muse EXCEPT !.fault = "crash"]
          \/ s.file # Destroyed /\ p \in Users(muse, s)
             /\ muse' \in IF last THEN {[eliminar_archivo_mmap(left, s.file) EXCEPT !.fault = x] : x \in {"none", "crash"}}
                          ELSE {left}

Next ==
  /\ requests < MaxRequests
  /\ requests' = requests + 1
  /\ \E p \in Programs :
       \/ memory_malloc(p) \/ memory_free(p) \/ memory_cpy(p) \/ memory_get(p)
       \/ memory_map(p) \/ memory_sync(p) \/ memory_unmap(p)

Spec == Init /\ [][Next]_vars

-----------------------------------------------------------------------------
(* Properties.                                                             *)

Present == {id \in DOMAIN muse.page : muse.page[id].is_present}
SwappedOut == HeapIds \ Present
Fr(ids) == {muse.page[id].fr : id \in ids}

TypeOK ==
  /\ muse.BITMAP \subseteq Frames /\ muse.BITMAP_SWAP \subseteq Slots
  /\ \A id \in DOMAIN muse.page : muse.page[id].fr \in IF id \in Present THEN Frames ELSE Slots \cup Frames
  /\ \A p \in Programs : \A s \in Range(muse.segment_table[p]) : Range(s.pages) \subseteq DOMAIN muse.page
  /\ muse.segmentoClock \in Nat /\ muse.paginaClock \in Nat
  /\ muse.fault \in {"none", "crash", "clock", "hang", "lost"}

Sound == muse.fault = "none" /\ ~muse.overflow

\* While no eviction met a full swap, the frames in use are exactly those of the
\* pages in memory, one each.
FramesOwnedOnce ==
  Sound => /\ Fr(Present) = Frames \ muse.BITMAP
           /\ Cardinality(Fr(Present)) = Cardinality(Present)

\* The slots in use are those of the heap pages swapped out, one each, and those that
\* pages of files were evicted to, which nobody frees.
SlotsOwnedOnce ==
  Sound => /\ Fr(SwappedOut) \cup muse.leaked = Slots \ muse.BITMAP_SWAP
           /\ Cardinality(Fr(SwappedOut)) = Cardinality(SwappedOut)
           /\ Fr(SwappedOut) \cap muse.leaked = {}

\* Whatever was evicted, loaded, mapped and unmapped in between, a heap page holds
\* what was last written to it.
HeapKeepsWrites ==
  Sound => \A id \in HeapIds : Contents(muse, id) = muse.want[id]

\* A page of a file that is in memory shows the last write of any program that maps
\* it, or the file's bytes at the mapping if nobody wrote: whatever was evicted,
\* loaded, synced and unmapped in between, unless the page itself was evicted and read
\* again from a file that did not have that write, or with no bytes at all.
MappedShowsWrites ==
  Sound => \A id \in Present \ HeapIds :
             id \notin muse.stale => muse.frame[muse.page[id].fr] = muse.want[id]

\* What the comment of memory_map says (main_memory.c:1482-1485), that shared memory
\* rests on the same swapping of pages, with a shared file in the place of the swap
\* file: a page of a file that is in memory shows its last write, also after an
\* eviction.  The pages that were loaded with no bytes or cleared are left aside.
MappedKeepsWrites ==
  Sound => \A id \in Present \ HeapIds :
             Contents(muse, id) \in {muse.want[id], Zeros}

\* After a sync the file has what was last written to each synced page, although
\* the load of one page may evict another that the same sync loaded before it; until
\* the page is written again, or a sync of pages before it clears the file behind
\* them.  A page that was stale goes to the file as it is.
SyncedInFile ==
  Sound => \A id \in DOMAIN muse.page \ HeapIds :
             id \notin muse.unsaved => muse.archivo[id[1]][id[2]] = muse.want[id]

\* A page is given away with its frame only when the pages of the heaps and of the
\* mapped files, with the slots that nobody frees, fill memory and swap.
OverflowOnlyWhenFull ==
  muse.overflow => \/ muse.unmapped
                   \/ Cardinality(DOMAIN muse.page) + Cardinality(muse.leaked)
                        >= Cardinality(Frames) + Cardinality(Slots)

\* Until a segment is unmapped the clock finds its hand and a victim.
ClockNeedsUnmap ==
  muse.fault \in {"clock", "hang"} => muse.unmapped \/ muse.overflow
=============================================================================
