# Verification of SUSE, MUSE and SAC

The repository holds three servers of an operating-systems course project and
the code they share:

| Server | Source | What it does |
|---|---|---|
| SUSE | `planificador/suse.c` | schedules the user-level threads (ULTs) of client programs, offers semaphores and join |
| MUSE | `memoria/main_memory.c`, `muse.c`, client `libs/libMuse` | segmented and paged memory: heap, swap, mapped files |
| SAC | `filesystem/sac_servidor.c`, `sac_handlers.c`, client `sac_cliente.c` (FUSE) | a remote file system: table of nodes, blocks, bitmap |
| shared | `utils_suse/network.c`, `message.c`, `libraries.c` | accept loop, messages, packets |

All three have one handler thread per connection and share lists between the
handlers. This directory models the handlers of the three servers, up to the
bytes on the wire: requests arrive decoded, one at a time on each connection.
The servers do not call each other.

## Inventory

### SUSE

State (`suse.h`, `libraries.h`): the list of processes, each with its ULTs, a
`READY_LIST`, the thread in execution and a `sem_t semaforoReady` that counts
the ready list; the global `new_queue`, `blocked_queue`, `exit_queue`; the
semaphores with `VALUE`, `MAX` and `BLOCKED_LIST`; `ACTUAL_MULTIPROG`; seven
mutexes, one of which (`mutex_ready_queue`) is never used.

Operations: `suse_create` (first call of a program: process and main thread),
`schedule_next`, `suse_wait`, `suse_signal`, `suse_join`, `suse_close`, and the
end of a connection. The transitions between states are the functions
`nuevo_a_listo`, `nuevo_a_ejecucion`, `listo_a_ejecucion`, `ejecucion_a_listo`,
`ejecucion_a_bloqueado(_por_semaforo)`, `bloqueado_a_listo` and four `*_a_exit`.

Handlers of different programs meet in `new_queue` (a close admits the first
thread in it, of any program), in the semaphores (a signal wakes a thread of any
program and posts that program's `semaforoReady`), in `ACTUAL_MULTIPROG`, and in
the four mutexes. What is hard: some accesses have no mutex (`new_queue` in
`ULT_create` and `obtener_ULT_ready_FIFO`, the ready lists), mutexes are locked
again by functions that a holder calls, one `sem_wait` happens under a mutex,
closing a main thread frees threads that stay linked in global lists.

Correct means: a thread is in the one queue its state names; `semaforoReady`
counts the ready list; `VALUE` and `BLOCKED_LIST` agree and wait and signal are
atomic; no more threads than `MAX_MULTIPROG` are admitted; each mutex is
released on every path; every request is answered.

### MUSE

State (`main_memory.h`): the program list, each program with its segment table;
each segment with base, limit and page table; the bitmaps of frames and of swap
slots; the bytes of memory, in which the `heap_metadata` of the blocks live; the
hand of the clock (`segmentoClock`, `paginaClock`); the list of mapped files,
each with its pages and the programs that map it. Operations: `memory_malloc`,
`free`, `get`, `cpy`, `map`, `sync`, `unmap`. One global `mutex_lock`, which a
malloc gives up and takes again on its way and some returns do not release.

Hard: the blocks are found only by walking from header to header, so one wrong
size loses the rest of the segment; compaction and growth change headers without
asking who uses the block; a victim may not fit the swap; the hand can stand in
a segment that is gone; mapped pages go to swap and come back from the file.
Correct means: live blocks are disjoint and are the ones the headers name, a
frame and a slot have one owner, a page's contents survive eviction, a sync puts
the synced pages in the file, every malloc is answered.

### SAC

State (`sac_servidor.h`): the table of nodes (state, name, block of the parent,
size, blocks of pointers), the bitmap, the blocks of pointers, the mutexes
`s_tablaDeNodos` and `s_bitmap`, and a dictionary with one mutex per written
path. Operations: getattr, open, opendir, readdir, read, mknod, mkdir, unlink,
rmdir, rename, truncate, write.

Hard: searches of the table take no lock; every early return keeps the lock it
holds; free blocks are counted in one critical section and taken one by one in
others; `agregar_nodo` places a block by the size of the file, which is updated
elsewhere; names are compared without looking at whether the node is deleted.
Correct means: a block belongs to one file and is marked, a name is once in a
directory and below an existing one, a read meets only blocks of its file, each
lock is held by a handler inside its critical section, every request is answered.

### Shared code

The accept loop of `network.c` passes one `ConnectionArgs` to all connection
threads. `message.c` and `libraries.c` encode integers and strings.

`PROJECT.json` lists all hazards at their lines, with the properties that would
catch them or the reason why none does.

## Modules

| Module | Content |
|---|---|
| `Suse` | the handlers of SUSE, one per program, one action per stretch of code between two points where another handler can get in |
| `SuseProperties` | type invariant, safety, action and liveness properties, refinement mapping |
| `SemaphoreSpec` | what SUSE promises of its semaphores: atomic wait and signal, first come first served |
| `SuseMC` | constants and bounds for TLC |
| `SuseProofs` | TLAPS proofs about `Suse`: types, mutual exclusion, semaphores, the places of the degree; the mutexes never close a circle while every thread closes only itself |
| `SuseDegreeProofs` | the threads that are let in are as many as `ACTUAL_MULTIPROG` counts |
| `SuseSingleProofs` | what the queues of one program promise it |
| `MuseHeap`, `MuseHeapMC` | malloc, free and compaction of MUSE, the handlers interleaved; properties; bounds |
| `MuseHeapProofs` | TLAPS proofs about `MuseHeap`: the chain of headers, the client's blocks, compaction |
| `MusePaging`, `MusePagingMC` | frames, clock, swap and mapped files of MUSE for all its requests; properties; bounds |
| `MusePagingProofs` | TLAPS proofs about `MusePaging`: frames, slots, contents of pages, the clock |
| `Sac`, `SacMC` | the handlers of SAC on the table of nodes and the blocks; properties; bounds |
| `SacProofs` | TLAPS proofs about the locks of `Sac` |
| `SacTreeProofs` | TLAPS proofs about the types, the names and the tree of `Sac` |
| `SacBlockProofs` | TLAPS proofs about the blocks of the files of `Sac` |

### How Suse follows the code

`pc[p]` names the function in which the handler of program `p` is about to
continue, `in[p]` its local variables (`ult` the thread of the request, `hilo`
the thread being moved, `cola` the state with which it entered
`eliminar_ULT_cola_actual`, `sem`, and `i` the index in `desjoinear`). Actions
keep the names of the C functions where one action is one function; where a
function has several steps the further steps are named after what they do.

A step ends where the handler has to take a mutex (`Free(m)` is a guard, so an
action in which the handler takes a mutex it already holds is never enabled:
that is how the code's self-deadlocks appear), where it waits on
`semaforoReady`, or where it touches `new_queue` without its mutex. Consequences
that are easy to miss:

- `nuevo_a_listo` is two steps: `list_add` on the ready list, then, after
  `mutex_new_queue` has been obtained, the removal, the state, the counter and
  the post.
- `eliminar_ULT_cola_actual` looks at the state once, before it locks; `cola`
  keeps what it saw.
- `wait` on a closed semaphore holds `mutex_semaforos` while it takes
  `mutex_blocked_queue`, and decrements `VALUE` after that.
- `schedule_next` puts the running thread at the end of the ready list, then
  waits on the process's own `sem_t`. The copy made in line 816 is only read.

Abstractions. Ready and blocked lists are bags, since removal is by identity and
the SJF sort, whose estimates come from clocks, may put any ready thread first.
`new_queue` and `BLOCKED_LIST` are sequences, their order matters. One operation
of a commons list is atomic. `mutex_process_list` and `mutex_exit_queue` are
held for one list operation each and are part of it. A request on a semaphore
that is not configured returns -1 and changes nothing; it is left out. A null or
freed pointer that is followed ends the program in `crashed`; where a search
only passes over a freed thread, it may also go on.

The client. The hilolay library is not in the repository (its file is empty).
`running[p]` is the ULT whose code the client runs, and the order of requests is
what the protocol allows: `suse_create` sends no reply, so a client runs its main
thread whether or not it was admitted; the replies of wait and join are 0
whether or not the caller blocked, so the client schedules next; a thread does
not join itself; a tid is used once. `CloseOthers` says whether a program also
closes threads that do not run (the protocol allows it, the library closes the
thread that ends). A program connects once; reuse of its socket descriptor is
not modelled.

### How MuseHeap follows the code

A segment is a function from addresses to headers (`hdr`). `Chain` is the set of
headers a walk from the base meets, as `ultima_metadata_segmento` and the two
searches walk; a header that compaction swallows stays in `hdr`, out of the chain.
The searches keep what the recursion in C does at its ends: next to the last
block `proxima_metadata_libre_con_size` looks at the last one only and takes a
single block without looking at `is_free`; `proxima_metadata_libre` returns the
last but one, in use or not, when the last is free.

`compactar_en_segmento` calls itself as its last act or not at all. The operator of
that name is one call, from a record with the segment and the two arguments to the
same for the next call (`siguiente` is `Done` when there is none), and
`compactar_espacios_libres` follows the calls. Each goes on behind the block it looked
at, so there are never more calls than the segment has bytes.

`memory_malloc` is as many steps as it has critical sections: the check of the
free frames (710-719), the search (750-819), and the growth (821-869) or the new
segment (924-965), after each of which it starts again. `memory_free` and
the new segment of `memory_map` are one step each. `lost` says that the server
goes on from bytes that are not a header: nothing is known from there, and the
model ends. That happens when a free walks a mapped segment or leaves the chain,
when a growth makes a header smaller (the last block is more than a page larger
than the request and not found because it is not the one the search looks at),
and when a segment is made behind another that has to be found at its address.

Abstractions: pages are counted, not placed; the bytes of the client are not
kept, `live` is what it holds; a program has one handler, so `program_list` is
complete from the start and the unlocked creation of a program (738-746) does not
appear; `using_memory` is read as the `int` that the leak summary logs.

### How MusePaging follows the code

All paging happens under `mutex_lock`, so a request is one step; what is inside
it, pages loaded one after the other of which each may evict an earlier one, is a
fold of `obtener_data_marco_heap` and `obtener_data_marco_mmap` over the record
`muse`. `Choice` gives the victim of the clock over all segments: the four
rounds of `dame_nro_frame_reemplazado` in closed form, with a page met twice when
its file is mapped twice. The contents of a page is one value, the last write;
new pages keep what their frame held, as in the code. Two histories tell pages of
files apart: `stale`, those loaded from a file that does not have their last write,
and `unsaved`, those written, or cleared by a sync of pages before them, since they
were last synced.

Which pages a walk over headers loads depends on where the headers are, which
`MuseHeap` knows and this module leaves open: the first page and any others.
Clients pass addresses of pages of their segments, mappings and syncs are whole
pages, and a private mapping shares the bytes of the file. The model stops at a
fault (`crash`: a pointer that is null or freed is followed; `clock`, `hang`: the
hand or the victims are gone; `lost` as above) and at `overflow`, an eviction
with the swap full: from there two pages share a frame and nothing can be said
of their contents. `memory_sync` looks the segment up in the table of the program
and takes the one of that number from the list of all programs, as the code does.
When the last program unmaps a file its pages are freed twice; the server may or
may not survive that, and both are followed.

### How Sac follows the code

`pc[h]` names what handler `h` does next, `local[h]` its variables; an action is
what happens between two waits for a lock. A search of the table, which takes no
lock, is one step. So are the two lookups of a rename, and `agregar_nodo` reads the
size of the file when it has the lock, not just before (762, 766); both differ from
the code only when two requests meet (`raced`). `delete_nodes_upto` is one step although it takes the locks
block by block, and the last addition of `get_new_space` is part of
`truncar_archivo`, which overwrites it. The arithmetic is kept: positions by
quotient and remainder, the unsigned difference in `get_new_space`, the pointer
that is cleared behind the new one (behind the array: the state and name of the
next node). `wild` marks that a handler leaves the tables (a pointer that is
0, an index past the array); nothing is known from there and the model ends.

The bytes of the files are left out; sizes, blocks and pointers are not. The
disk starts empty. The kernel looks a path up before another request for it, so
`Ask` only makes requests for paths that are there when they are asked. A
handler that puts its own mutex in the dictionary while another does the same
uses its own: that race is in the model.

The histories say which assumption of the code was broken: `kept`, a return kept
a lock; `raced`, two requests met on a node or a path moved between the kernel's
lookup and the server's; a path that was a file is a directory now counts as moved,
and two writers of a path have not met while they hold the same mutex;
`hollow`, a file was made longer than its blocks, or without one: by a truncate, by a
mknod that found no block, or by a write that `Overhangs` (a whole block written at
or behind the end of a file whose last block is partly full adds `BLOQUE_SIZE` to
the size and no block, 901-906); `spilled`, the
clearing behind a full array of pointers met another node. The properties that do
not survive one of them say so, and the four are reached in the run.

## Runs

None of the runs checks TLC's deadlock. SUSE may really stop, when all programs
have ended, when every thread waits for a signal that nobody sends, after a
crash, and in the self-deadlocks below; `NoDeadlock` states what must not happen
among the mutexes. MUSE and SAC stop when the bounds are used up, when the
server is lost, and when a lock was kept.

### SUSE

All runs of SUSE use module `SuseMC`. `MAX_MULTIPROG` is 2 or 3, small enough that
threads are refused and large enough that two programs have threads at the same
time. Semaphores start closed and hold one unit, as `A` in
`planificador.config`.

| Run | Instance | Shows |
|---|---|---|
| `suse_single` | 1 program, 4 threads, 2 semaphores | `OneQueue`: a thread at rest is in the queue its state names, once, and nowhere else. `ReadyTokens`: `semaforoReady` is the length of the ready list up to the step in progress. `NextNeverEmpty`: `schedule_next` never finds the list empty. `ExitIsFinal`: a closed thread does not come back |
| `suse_multi` | 2 programs, 3 threads, 1 semaphore, threads closed in any state | `MutualExclusion`, `SemaphoreAccounting`, `MultiprogBound`, `TypeOK`, and `ImplementsSemaphores`: the handlers refine `SemaphoreSpec` |
| `suse_live` | 2 programs, 2 threads, 1 semaphore, running threads closed, 3 places | `NoDeadlock`, `EveryRequestAnswered`. `ReadyGetsScheduled`: a thread made READY wakes the `schedule_next` of its program, also when the signal or the close of another program made it so, in the behaviours with `PicksReady` |
| `suse_double_admission` | 2 programs, 2 threads, 3 places | violates `NextNeverEmpty` |
| `suse_degree_drift` | 2 programs, 2 threads | violates `ActualIsCurrent` |
| `suse_close_deadlock` | 1 program, 3 threads | violates `CloseReachesExit` |

`suse_single` has four threads because a join of two others and a third that
stays refused need them; the interleavings it leaves out are those of
`suse_multi`. Together the three passing runs take every action.

`ReadyGetsScheduled` assumes `[]PicksReady` because without it the code breaks it.
`nuevo_a_listo` adds the thread to `READY_LIST` before it removes it from the queue
of its `estado` and marks it READY (1401), and `schedule_next` takes no mutex. When
a close lets in a thread of another program whose `schedule_next` sorts the list
between the two steps, `listo_a_ejecucion` still finds `E_NEW` and takes the thread
out of `new_queue`: its entry stays in `READY_LIST`, the post that follows counts a
thread that already runs, and in the end the program sleeps with a READY thread.
The instance has this race, so TLC refutes the formula without the assumption.

Bounds. `ReadyBound`: at most two copies of a thread in a ready list (double
admission makes more). `ThirdThread`, in `suse_multi`: the third tid appears in
one program only, and only while that program's main thread keeps running; it is
there for a joiner of several threads and for closes of new threads, and with
the rest cut the run stays within a minute. Both are CONSTRAINTs of safety runs.
The liveness run has no constraint, its specification `BoundedFairSpec` takes no
step beyond `ReadyBound`; two copies in a list do not block any handler.

Fairness. `FairSpec` has strong fairness for the steps of each handler between a
request and its reply. The operating system runs every thread; a pthread mutex
that others take again and again is granted eventually, which weak fairness
would not give. Requests have no fairness: a client may stop asking.

### MUSE

| Run | Instance | Shows |
|---|---|---|
| `muse_heap` | 2 programs, 4 mallocs of 0, 8 or 20 bytes, 1 mapping each, pages of 16 bytes, 5 frames | `BlocksDisjoint`, `HeadersMatchClient`: the headers in use are the client's blocks and no two share a byte. `Coalesced`: no two neighbours are free after a free. `LostOnlyAfterFault`: the chain is left only after a growth over a block in use or with a mapping. `LeaksNotOverstated`: what the leak summary counts. `EveryMallocAnswered` |
| `muse_heap_overlap` | 1 program, 4 mallocs | violates `BlocksNeverShared` |
| `muse_paging` | 2 programs, 1 file of 2 pages, 3 heap pages, 2 frames, 2 slots, 6 requests | `FramesOwnedOnce`, `SlotsOwnedOnce`: one owner each, and slots of evicted mapped pages are never freed. `HeapKeepsWrites`: the contents of a heap page survive eviction. `MappedShowsWrites`: a mapped page shows the last write of any program, unless it was itself evicted and loaded again from a file without it. `SyncedInFile`: after a sync the file has the last write to each synced page, also when the load of one evicts another. `OverflowOnlyWhenFull`, `ClockNeedsUnmap`: when the memory gives a frame away twice, and when the clock can not go on |
| `muse_mapped` | the same | violates `MappedKeepsWrites` |

Bounds. A request of 8 bytes leaves room for a second block in a page, one of 20
needs two pages, so splits, exact and inexact fits, growth, compaction of two and
three neighbours, a full memory and a malloc of nothing all happen with four
mallocs. With more pages (5) than frames (2) nearly every request evicts; with two
slots the swap fills; two programs are enough for a shared mapping to outlive one
of them and for the wrong segment of a sync. `MaxSegments`, `MaxPages` and
`MaxRequests` are guards.

Fairness. `muse_heap` has weak fairness for the malloc of each program: its
handler is a thread and `mutex_lock` is free between any two steps unless a
malloc of nothing kept it. `MusePaging` has no liveness: its requests are steps.

### SAC

| Run | Instance | Shows |
|---|---|---|
| `sac` | 2 handlers, 4 requests, files `d` and `d/a`, directories `d` and `e`, 3 nodes, 5 blocks of 2 bytes, 2 pointers per block, 2 blocks of pointers per file: enough that `d` is a directory, is removed and comes back as a file while a request below it waits, and that a file reaches its last pointer | `WritersExclusive`, `LocksAccounted`, `NoDeadlock`: the locks. `BlocksOwnedOnce`, `BlocksMarked`, `ReadsGoThroughBlocks`: the blocks. `UniqueNames`, `TreeRooted`: the tree. `WildOnlyAfter`: when the server leaves its tables. `EveryRequestAnswered` |
| `sac_recreate` | 1 handler, 4 requests, files `d` and `d/a`, directory `d`, 3 nodes, 5 blocks, 3 blocks of pointers per file, truncates to 0, 2, 5 and 10 | violates `ExistsMeansLive` |

Bounds, of `sac`. A block of pointers covers 4 bytes: sizes 0, 2, 5 and 8 are the empty
file, a full block, the second block of pointers and a file up to its last pointer,
whose four blocks and two blocks of pointers do not fit the disk of five. Writes of
1 and 3 bytes end inside a block and behind one; the write of 2 bytes at 1
overhangs a file of 1 byte; the write at 10 starts behind all that the pointers of
a file reach. The five blocks are used up by two files, three nodes by `d` and two
files. Every action is taken, among them the returns on a full table, disk and
file. Two handlers are two of the kernel's clients; there is no symmetry set, as
the run checks liveness.

Fairness. Weak fairness for each handler: it is a thread, and each lock is held
for a bounded stretch unless a return keeps it, so with four requests a handler
can not be passed over for ever. `EveryRequestAnswered` excepts the returns that
keep a lock, a server that left its tables and the write that spins.

### What the violated properties say

- **Double admission.** `ULT_create` links the thread into `new_queue` (609)
  before the handler takes `mutex_multiprog` (581 for a main thread, 556 for
  another). In between, the close of the other program admits it (773-785) and
  posts `semaforoReady`; then the creator admits it again. In TLC's behaviour it
  is a main thread: `nuevo_a_ejecucion` (583) takes it out of the ready list and
  leaves the token. The thread waits on a semaphore, `schedule_next` gets past
  `semaforoReady` with an empty list and returns -1, which the comment in line
  879 says the semaphore prevents. With 2 places this can not happen on two
  programs of two threads (the closer's two threads and the new one are already
  3), but another fault leads to the same end: a main thread that is refused runs
  all the same, blocks and is woken, and its entry in `new_queue`, which is still
  there, is admitted by a close.
- **Degree drift.** Closing a main thread frees the process (629-656) and never
  decrements `ACTUAL_MULTIPROG`. The "grado actual" that is logged grows with
  every program that ends, until nobody is admitted.
- **Close deadlock.** Closing a thread in NEW locks `mutex_new_queue` and then
  again in `remover_ULT_nuevo`; closing a thread in BLOCKED does the same with
  `mutex_blocked_queue`, holding `mutex_multiprog` as well.
- **Overlap.** malloc, malloc, free of the first: compaction takes the second block,
  in use but last but one, for a free one and adds the free tail to it. When the next malloc does
  not fit, the growth marks that block free (846), and the malloc is placed inside
  it.
- **Mapped pages.** The comment of `memory_map` (1482-1485) says that shared memory
  rests on the swapping of pages, with the shared file in the place of the swap
  file. The eviction writes a mapped page to the swap file like any other (381-406),
  and `obtener_data_marco_mmap` fills it from the mapped file when it is needed again
  (1250, 1284). What was written since the last sync is lost, and the slot is
  never read nor freed. `memory_sync` also clears the file behind the pages it
  syncs (1700-1702); `Synced` models it, and `SyncedInFile` and
  `MappedKeepsWrites` leave the cleared pages aside.
- **Recreate.** `validar_si_ya_existe_otro` does not look at `state`: a name deleted
  in a directory other than the root can not be used again, and the refusal
  returns with `s_tablaDeNodos` locked.

## Proofs

`SuseProofs` proves for any set of programs, any finite set of thread ids with
0, any semaphores with initial value at most the maximum and any
`MAX_MULTIPROG` (`SuseAssumption`, which TLC evaluates in every run):

| Theorem | Statement |
|---|---|
| `TypeCorrect` | `Spec => []TypeOK` |
| `MutualExclusionHolds` | `Spec => []MutualExclusion` |
| `SemaphoreAccountingHolds` | `Spec => []SemaphoreAccounting` |
| `SemaphoresImplemented` | `Spec => ImplementsSemaphores`, the refinement |
| `DegreeBound` | `Spec => []DegreeBounded`, the first half of `MultiprogBound` |

The inductive invariant is `SuseInv == TypeInv /\ MutualExclusion /\
SemaphoreAccounting /\ DegreeInv`.

- `TypeOK` alone is not inductive: a handler at `bloqueado_a_listo_signal` uses
  `in[p].hilo` and `in[p].sem`. `TypeInv` adds `LocalsSet`: the locals that a
  label promises are set. It also needs `SemaphoreAccounting`, because the
  removal of the first waiter (`Tail`) must find one.
- `MutualExclusion` is inductive given the types. Every step is of one of four
  kinds (outside critical sections, inside one, locking, unlocking everything),
  one lemma each.
- `SemaphoreAccounting` needs `MutualExclusion`: the list and `VALUE` disagree
  only while a handler is inside `mutex_semaforos`, and there is one at most.
- `DegreeInv` says that at the three labels where a thread is about to be let in
  the place found free is still free, which again is `MutualExclusion`.
- `KindsOfSteps` goes through all actions once and says which touch the
  semaphores and which the degree; the accounting, degree and refinement proofs
  only look at those.

`SuseDegreeProofs` proves, with no further hypothesis:

| Theorem | Statement |
|---|---|
| `DegreeCounted` | `Spec => []MultiprogBound`, both halves |
| `CountInvariance` | `Spec => []CountInv` (with `SuseInv`), from which it follows |

A bound on `Admitted` is not inductive. `CountInv` says that there is a set `K` of
threads that were let in, as large as the degree counts, and that every list and
every local variable of a handler except `new_queue` stays within `K`; a
handler on its way in or out has exactly one thread that `K` and the counter
see differently, and holds `mutex_multiprog` meanwhile, so by
`MutualExclusion` there is one such handler. `Locally` ties its locals to `K`.
Most actions neither let in nor let out (`CountsNothing`), one lemma covers them.

`SuseProofs` proves as well:

| Theorem | Statement |
|---|---|
| `DeadlockFree` | `~CloseOthers => (Spec => []NoDeadlock)` |
| `CloseInvariance` | `~CloseOthers => (Spec => []CloseInv)`, from which it follows |

`CloseOthers` lets a thread close a thread other than the running one. Without it
`NoDeadlock` holds, with it the run `suse_close_deadlock` breaks it, so the
hypothesis is exactly what separates the two. `CloseInv`: the thread that a close
is about is READY or EXECUTE, so `close_tid` never takes the paths for NEW and
BLOCKED, which lock a queue a second time. What is left is an order of the mutexes,
and whoever holds the last of them can go on. The hypothesis says nothing of the
number of programs, threads or semaphores.

`SuseSingleProofs` proves, under `Alone` (one program, `~CloseOthers`,
`MAX_MULTIPROG > 0`, the setting of the run `suse_single`):

| Theorem | Statement |
|---|---|
| `NextFindsReady` | `Alone => (Spec => []NextNeverEmpty)`: after `semaforoReady` there is a ready thread |
| `TokensCounted` | `Alone => (Spec => []ReadyTokens)`: the semaphore counts the ready list |
| `InOneQueue` | `Alone => (Spec => []OneQueue)` |
| `ClosedStaysClosed` | `Alone => (Spec => ExitIsFinal)`, an action property |
| `AloneInvariance` | `Alone => (Spec => []AloneInv)`, from which the four follow |

With two programs a double admission (run `suse_double_admission`) breaks the first
three properties, and with a degree of 0 the main thread itself stays in
`new_queue` and blocks from there; `~CloseOthers` leaves out the closes of another
thread, which for a thread in NEW or BLOCKED stop the server (run
`suse_close_deadlock`) and for one in READY occur only in `suse_multi`. Threads,
joins, semaphores and requests may be any number. `AloneInv` is the
conjunction of

- `Readied`, `Queued`, `Listed`: a thread is in the list its `estado` names, and
  in that one once, but for the one thread that the handler is moving (`Current`);
- `Runs`: the thread whose request is served is `EXEC_THREAD`;
- `Waiting`: a blocked thread waits in one place, in `BLOCKED_LIST` of one semaphore
  once or in the part of one `joinedBy` that is still to be worked off, so no
  wakeup can come twice: this is what the wakeups of `desjoinear` and `signal`
  rely on;
- `Counted`: the tokens of `semaforoReady` and the entries of `READY_LIST` agree, but for
  a step between `list_add` and `sem_post`.

`SacProofs` proves for any handlers, paths, nodes and blocks (`SacAssumption`):

| Theorem | Statement |
|---|---|
| `LocksAccountedHolds` | `Spec => []LocksAccounted` |
| `WritersExclusiveHolds` | `Spec => []WritersExclusive` |
| `NoDeadlockHolds` | `Spec => []NoDeadlock` |
| `LockInvariance` | `Spec => []LockInv`, from which the three follow |

The argument is about control only: `pc`, the operation of the request and the
mutex it chose; nodes, bitmap and blocks decide which action is enabled and
nothing else, so no fact about them is needed. `LockInv` is `LocksTyped` (the
locks and the two fields of `local`), `PlacesOK` (which operations can be at
which label, since `bloque`, `agregar` and `punteros` serve mknod, truncate and
write) and `LocksAccounted`. `WritersExclusive` follows because a writer is in
its critical section only while its mutex names it, and `NoDeadlock` because the
order path, table, bitmap has no circle: with nothing kept, the bitmap is never
held at rest, so whoever holds the table can go on, and so on up.

`SacTreeProofs` proves under the same assumption:

| Theorem | Statement |
|---|---|
| `TypesHold` | `Spec => []TypeOK` |
| `NamesUnique` | `Spec => []UniqueNames` |
| `TreeStaysRooted` | `Spec => []TreeRooted` |
| `TypesInvariant` | `Spec => []TypeInv`, the inductive invariant the other proofs stand on |

- `TypeInv` is `TablaOK /\ DiskOK /\ ControlInv`. Types are not a matter of one
  step here: a handler keeps a node number between its steps while others delete
  nodes, so `ControlInv` says for each label which locals are set, and the
  mutex in the dictionary of a path is the one `LockInv` speaks of.
- `determine_nodo` is a fold over the names of a path. `Determined` shows that it
  gives a node or -1 by following the first name at which it would not.
- `NamesInv`: two live nodes of one directory differ in name. It is inductive with
  what a rename looked up before it had the mutex of the table: the name is still
  free when it gets it, and there is one rename at a time, since requests that
  meet set `raced`.
- `TreeInv`: every live node is in the root, in a directory, or in reach of an
  rmdir that is still walking (below its stack and not passed yet). It needs that
  who deletes a file is alone with it, and that the parent a rename chose is
  still a directory when it writes it.

TLC checked the three invariants before they were proved, on the instance of `sac`
exhaustively and on simulated behaviours of larger ones (three handlers, nested
directories). That is where `spilled` and `Still` come from: the properties had
held on the small instance for want of a path long enough.

`SacBlockProofs` proves under the same assumption:

| Theorem | Statement |
|---|---|
| `BlocksOwnedOnceHolds` | `Spec => []BlocksOwnedOnce` |
| `BlocksMarkedHolds` | `Spec => []BlocksMarked` |
| `ReadsThroughBlocksHolds` | `Spec => []ReadsGoThroughBlocks` |
| `WildOnlyAfterHolds` | `Spec => []WildOnlyAfter` |
| `BlocksInvariant` | `Spec => []BlocksInv`, from which the four follow |

The geometry is any: bytes per block, pointers per block, blocks of pointers per file,
with room for two blocks of data in a file (with one, a new
file would be full with its first block; the code has 1000 rows). None of the four is inductive:
the size of a file says which blocks it should have, and between two steps of a
handler it does not say so exactly. `BlocksInv` keeps accounts instead. In each state that
is `Trusted` there are `cap`, the number of blocks each file has, and `own`, the one
place each block in use is for: a row of pointers, a position in a file, or the
hand of a handler that has taken it and not linked it yet. Blocks are owned once
because `own` is a function.

- `Held(n, cap[n], own)`: the first `cap[n]` positions of the file have their blocks, and
  so have the rows of pointers they need; all are in the bitmap.
- `Fits(n, cap[n])`: the size is not more than those blocks. The exception is `Cut`: a
  truncate has freed blocks and not yet set the size; until then the pointers of what
  it freed are 0.
- `Knows(h, cap[n])`: what the locals of a handler at each label say of the size and
  the blocks of its file. A write counts the space once and then goes on from its local
  copy of the size; a truncate adds blocks until its counter is used up.
- `Carries(h, own)`: a block taken by `get_bloque_vacio` is marked and no one else's.
- `Exclusive`, `Requests`: two handlers are at one node only to write it, with the same
  mutex; everything else sets `raced`.

A step changes the accounts of one node (`StepKeepsAccounts`), so the proof of
an action looks at one file and one handler, and the others follow. The positions
need quotients by constants, which are not linear: `Division`, `QuotientIs` and
`BlockOfHeld` turn them into one fact, that the number of a block is its row times the
pointers per row plus its column, and the rest of the proof is about those
numbers. TLC checked the accounts on the instance of `sac` before they were proved.

The attempt to prove them corrected the model twice. A write of a whole
block can make a file longer than its blocks although no truncate was at work: `hollow` now
records it (`Overhangs`). And two writers of a path can hold different mutexes, when
both put one in the dictionary: they no longer count as kept apart. The small
instance had met neither; the write of 2 bytes at 1 is now one of its requests.

`MusePagingProofs` proves for any programs 1..n, any finite sets of files, frames (at
least one) and slots, any `FilePages` and `Values`, and any page size but 0
(`PagingAssumption`):

| Theorem | Statement |
|---|---|
| `TypeKept` | `Spec => []TypeOK` |
| `FramesKept`, `SlotsKept` | `Spec => []FramesOwnedOnce`, `Spec => []SlotsOwnedOnce` |
| `HeapKept`, `MappedKept` | `Spec => []HeapKeepsWrites`, `Spec => []MappedShowsWrites` |
| `ClockKept`, `OverflowKept` | `Spec => []ClockNeedsUnmap`, `Spec => []OverflowOnlyWhenFull` |
| `MemoryKept` | `Spec => []MemoryInv(muse)`, from which the seven follow |

The properties lean on each other. That no two pages share a frame needs that the
victim of the clock is a page in memory, so the types of the pages of every segment;
that there is a victim needs that every page in memory is in a segment, which
holds until an unmapping; that a page of a file is read to its own number needs the
shape of its segment. `MemoryInv` says all of this of one memory:

- `PagesInside`, `PagesNamed`: the pages are 1..n of each program and those of each
  mapped file; those of the segments are among them;
- `SegmentsOK`: a heap segment has pages of programs, a mapped one the pages of its
  file in order, one whose file is gone none; its addresses are within it;
- `Owned(m, hand)`: who owns each frame and slot and what is in it. `hand` is the frame
  that a request has taken and not yet given to a page: empty between requests, not
  inside one;
- `Clocked`, `Filled`: until a segment is unmapped the hand is on a segment and each page is
  in one; an overflow met full memory and swap.

A request is a fold of loads, so its effect is not one formula. `Took` says what
taking a frame can do (a free one, none, a victim, a victim that found the swap
full), `Placed` what giving it to a page does, and one lemma each that `Owned`
goes from `{}` to `{f}` and back. That the fold then preserves `MemoryInv` is an
induction over the number of loads. The library's induction theorems can not be used
here; `FoldExists` and `UpTo` do it with the least number that fails, and the
`Flatten` lemmas do the same for the list that the clock goes over. TLC checked the
parts of `MemoryInv` first, on the instance of `muse_paging` and on simulated behaviours
of a larger one.

`MuseHeapProofs` proves for any set of programs, any set of integers as sizes of the
requests, any page size but 0, any number of frames and any bounds (`HeapAssumption`):

| Theorem | Statement |
|---|---|
| `TypeKept` | `Spec => []TypeOK` |
| `DisjointKept`, `HeadersKept` | `Spec => []BlocksDisjoint`, `Spec => []HeadersMatchClient` |
| `CoalescedKept` | `Spec => []Coalesced` |
| `LostKept`, `LeaksKept` | `Spec => []LostOnlyAfterFault`, `Spec => []LeaksNotOverstated` |
| `HeapKept` | `Spec => []HeapInv`, from which the six follow |

They are about programs that the properties call `Sound`; the run
`muse_heap_overlap` is what happens to the others. None of the properties is
inductive: that two blocks are disjoint follows from the headers between them, and
that a free finds its header from the blocks the client holds. `HeapInv` says

- `Tiled`: the headers of `Chain` follow one another from the base to the limit of the
  segment. This holds of every heap segment of every program until the server is lost,
  also after a growth over a block in use, and with mapped segments about;
- `Matched`, of a sound program: its blocks and the headers in use correspond one to
  one, each header at least as long as its block;
- `HasFree`: a sound segment has a free block. It is what makes compaction start at a
  block before the last, as `proxima_metadata_libre` walks off the segment when asked
  about a last block in use, and what makes the search of a single block, which does not
  look at `is_free`, right;
- `Merged`: no two neighbours are free;
- `Full`, between the two critical sections of a malloc that found no room: the last
  block is in use or too short. A growth then never makes a free header smaller, so the
  fault of a shrinking header needs a mapped segment or a block given away;
- a sound program has one segment at most, at address 0.

The chain is a recursive function and compaction a chain of calls, so their lemmas
are inductions with `UpTo`: `ChainIs` (a set of headers that tile the segment is what
the walk meets, which is how every operation's new chain is found) and `CompactedIs`
(`Compacting` holds between two calls: what is behind the first argument is merged,
the headers in use stay and do not get shorter, and the first argument is in use only
when the second is the last). TLC checked `HeapInv` on the instance of `muse_heap`
before it was proved.

Only model-checked:

- liveness (`EveryMallocAnswered`, `EveryRequestAnswered`, `ReadyGetsScheduled`),
  out of the prover's reach;
- `SyncedInFile`, whose invariant would have to follow the file through the loads
  of one sync;
- nothing else: every other invariant, the action property and the refinement that the
  passing runs check are theorems. Where a hypothesis of a theorem fails, a run shows what
  happens then; the histories of `Sac` are such hypotheses within the properties.

## Not modelled

- **Estimates and SJF order of SUSE.** `estimar_rafaga` and `funcion_SJF` need a
  clock; `Suse` lets any ready thread be chosen.
- **Metrics, logs, configuration, signals, time stamps.** They change no state
  that a handler reads. The metrics thread of SUSE reads lists without a mutex;
  the accesses are hazards, not states.
- **Sockets, messages and packets** (`network.c`, `message.c`, `libraries.c`), the
  stubs `libmuse.c` and `sac_cliente.c`: one send and one receive per call, and
  byte layout. The race on `ConnectionArgs` is over before the first request.
- **Programs of MUSE that a connection creates while another does** (738-746):
  a torn list has no states to name at this level. `memory_get` outside every
  segment unlocks a mutex it does not hold, which has no defined effect.
- **Frames past `BITMAP[140]`**: what follows the array is the linker's choice.
- **Restart of SAC on an old disk**: `configurar_server` maps what is there; every
  state of the table that a handler left is a state of `Sac`, without the locks.
- **Test programs, semaphore wrapper, deployment scripts.**

## What could follow

1. A mapping from `MuseHeap` to an abstract set of disjoint allocations, under
   the condition that growth keeps blocks in use; `HeapInv` has what it needs.
2. A mapping from `Sac` to a file system of names and sizes; `TreeInv` and
   `BlocksInv` have what it needs.
