# A verification project for c_module

c_module is a collection of embedded C modules (buffers, queues, heaps, lists,
schedulers, drivers) and the STM32 programs that use them; the richest of these
programs is `test_module_bystm32f407`, a port of the Contiki kernel that links
most of the modules. This directory holds TLA+ models of the modules that carry
state, TLC runs over small instances, and TLAPS proofs for every size.

Paths below are relative to the repository; `T/` stands for
`test_module_bystm32f407/stm32f407/stm32f40_41xxxpro/`.

## 1. Inventory

| part | state | operations | interacts with | what is hard | what makes it correct |
|---|---|---|---|---|---|
| ringbuff (`ringbuff/`) | a byte array, `r`, `w` | init, free, reset, write, read, peek, skip, advance, linear blocks | main program, interrupts, DMA | full and empty at one index, wrapping copies, indices seen half way by an interrupt | FIFO; blocks given to hardware are disjoint |
| Contiki kernel (`T/contiki/core/sys/process.c`) | process list, states, poll flags, event queue, `process_current` | start, exit, post, post_synch, poll, process_run | everything in T; interrupts poll | re-entrance: handlers change the list the kernel stands on | polls and broadcasts reach whom they should, states match the list |
| event timers (`etimer.c`, `timer.c`, `cpu/stm32f407/clock.c`) | timer list, `next_expiration`, clock | set, reset, restart, adjust, stop, SysTick, the etimer process | kernel, SysTick interrupt | ticks between any two statements, the clock wraps, the event queue is full, owners exit | nothing due is overlooked, nothing fires early |
| message_queue (`message_queue/`) | block pool, pointer queue, four positions, two counters | init, alloc, free, write, (try)read, destroy | umm_malloc | wrapping positions, failure half way through init | each block has one owner; FIFO |
| umm_malloc, qmemmang, lv_mem, tlsf, contiki mmem | heaps of five designs: two linked lists in one array, an address-ordered free list, entries without a list, two levels of bitmaps over lists, compacted memory | init, pool setup, add and remove pool, malloc, memalign, free, realloc, defragment | message_queue, lv_ll | splitting and joining neighbours, `prev_phys_block` in memory its owner overwrites, realloc over the data's own headers, boundaries, sizes that overflow | blocks tile the heap, no two overlap, no free neighbours, data kept, a refusal changes nothing |
| lv_ll, lv_task, lv_async (`lv_mem/`) | intrusive lists, task list | insert, remove, move, run, delete, create | lv_mem, tick | tasks that delete, create or reorder tasks while the handler stands on the list | the handler never stands on a freed task; priorities are respected |
| m24cxx, infoat24xx (`m24cxx/`) | EEPROM pages, four records with checksums | page write, read, load, save, defaults | I2C bus (`iic.c`) | power loss between and within page writes, pages lost on the bus, whose acknowledgement nobody looks at | a load gives a record that was saved, or the defaults |
| contiki ctimer (`T/contiki/core/sys/ctimer.c`) | list of callback timers | set, reset, restart, stop, its process | etimer, kernel | events that are already queued when the timer changes | every callback is made |
| contiki serial-line (`T/contiki/core/dev/serial-line.c`) | receive ring, one line buffer | input interrupt, the line process | kernel, uart interrupt, shell | the interrupt between test and take, full ring, line broadcast by reference | lines arrive whole and in order, none is left behind |
| my_one_wire, ds18b20 | search state | reset, read, write, ROM search | bus timing | the search tree | every device is found once |
| contiki memb, rtimer, shell, trickle-timer, cfs-coffee | counters, command table, pages of flash | | kernel, etimer | | not modelled, see section 8 |
| PID, lwprintf, printf, xprintf, crc, lt7871, soft_spi, ugui | little or none | | | arithmetic, formatting, register tables, drawing | not modelled |
| STM32 libraries, CMSIS, startup, IDE files | | | | vendored or generated | not modelled |

`PROJECT.json` lists the parts under "components" and every hazard met so far,
at its line, under "hazards".

## 2. Modules and plan

Written:

1. `RingBuffSizes`, `RingBuff`, `ByteFifo`; `RingBuffIsr` cuts the
   same functions into steps and composes them with the DMA and its interrupt
   handler of `docs/examples_src/example_dma_skip.c`. `RingBuffProofs` is about
   both; what belongs to the second is named `IsrInit`, `IsrNext`, `IsrTypeOK`.
2. `Process`, `ProcessMC`, `ProcessProofs`: the kernel with its call stack.
3. `Etimer`, `EtimerMC`: event timers composed with the tick interrupt and an
   abstract kernel (one poll flag, one event queue). `Ctimer`: callback
   timers on top of it. `EventProofs` is about both.
4. `MessageChannel`, `MessageQueue`, `MessageQueueProofs`.
5. `Heap`, what any allocator owes its clients, and five allocators that
   implement it, each a specification of its own: `UmmMalloc`, `QMemMang`,
   `LvMem`, `Tlsf`, `Mmem`. `Heaps` puts them behind a variable `which`, so that
   one run, of `HeapsMC`, asks the same questions of all five. `BlocksProofs` (`QMemMang`,
   `UmmMalloc`) and `HeapsProofs` (the other three, and `Heaps`).
6. `LvLl`, the list, and `LvTask`, `LvTaskMC`, the scheduler that lives on it;
   `LvTaskProofs`.
7. `ParamStore`, what the stored parameters promise, and `EepromStore`,
   `EepromStoreMC`, the driver and the records that implement it;
   `EepromProofs`.
8. `SerialLine`: interrupt, ring, line process and event queue (`LineInit`,
   `LineNext`, `LineTypeOK`); its proofs are in `EventProofs`, with those of the
   timers.

The refinement of `Heap` is proved for `Mmem`, `LvMem` and `QMemMang`. What could
come next: the same for `UmmMalloc` and `Tlsf`, whose `realloc` moves data over
headers and links; then the ROM search of `my_one_wire` as a module.

## 3. How the models correspond to the code

### Ring buffer

`RingBuff` has one action per public function. `buff`, `r`, `w` are the fields
of the structure, `valid` is what `BUF_IS_VALID` tests, `call` and `ret` record
the last call and its result. `ringbuff_read` and `ringbuff_write` copy in two
parts; `CopyIn`, `CopyOut` and `Moved` are these two parts and the check at the
end, `Advanced` the single subtraction of skip and advance. `HardwareFill` and
`HardwareSend` are a client that uses the linear block functions. `ByteFifo`
says what is promised: a queue of at most Size - 1 bytes, whose skip and advance
answer with the number they were asked for, as the code does (section 7). The refinement mapping
is `Contents`, the bytes from `r` to `w`.

`RingBuffIsr` executes `ringbuff_write` (and `send_data`), or `ringbuff_read`,
statement by statement, so that the interrupt sees `w` (or `r`) where the code
leaves it, on `size` included. Bytes are numbers in the stream, so `InOrder` says
that the stream comes out without loss, repetition or reordering. `mainWrites`
chooses the direction at the start.

### Process kernel

The kernel calls threads which call the kernel: the C stack is the variable
`stack`, a frame per active function with its locals. A thread makes up to
`MaxOps` kernel calls per `process_run`, chosen freely, and then waits or ends;
its protothread body is not modelled. An event is its receiver and whether it is a
`PROCESS_EVENT_INIT`, which makes the receiver running (`StateFor`). A process that
left the list keeps its `next` pointer, as in the code, which is what loops that
stand on it rely on. `IsrPoll` may happen between any two steps. `owed`,
`audience`, `heard` and `calm` are history and guard nothing.

### Event timers

`pc` says in which loop or function the main program is; it is cut wherever it
reads the clock or writes something the interrupt reads (`timerlist`,
`next_expiration`, the poll flag). Statements between which the interrupt can
tell no difference form one action: `timer_set` and the list insertion of
`add_timer`, for example, because `add_timer` has requested a poll before. Time
is modulo `W`; the history `left` counts the ticks to each expiration without a
modulus, and the properties compare the two. The kernel is one poll flag and a
queue; its own behaviour is the subject of `Process`. `Kept(s, S)`, the elements
of a list that stay, is `SelectSeq` written with the places in the list instead of
recursion along it, so that it can be reasoned about. `Exit` is an exit with what the
etimer process does about it, and, if `LastWords` is not empty, a timer that the
process sets when it is called for the last time, with `PROCESS_EVENT_EXIT`.
`Reset` asks nothing of its timer, as `timer_reset` does not, so a start may lie
behind the clock or ahead of it; `left` is then more than the interval.

### Message queue

A call is one action. The positions are modulo `Wrap`, a multiple of the depth
as 2^32 is one of any power of two; a position is only used modulo the depth, so
a larger multiple adds no behaviour. `held` is what the clients hold; clients
free and write only what they hold, as `message_queue.h` demands. A client that is
not `Eager` reads only if there is an entry, although the header offers the read of
an empty queue (section 7). `Alloc` and `Tryread` also stand for the two calls that by
the header wait: their code answers NULL too. Calls are whole: the repository builds
the module without the atomic operations and the waiting that would make it safe
between threads (they are commented out), and the application calls it from
two processes, which Contiki does not interrupt for one another. `QueueInit(n)` is an
initialisation of which `n` allocations succeed, with the error label each
failure enters. The refinement mapping of `ImplementsChannel` maps the slices
of the two arrays between their positions to a set and a sequence.

### Heaps

`Heap` sees where each client's block is, what it holds and what was denied. Its
constants say in what the five differ: `CellBytes` and `HeaderBytes`, `Spare`,
the cells a client may get beyond its need, `Joins`, whether NULL may only be
returned when no run of free cells is long enough, and `Moves`, whether a free of
one block may move others. In all five the data is modelled cell by cell,
`<<h, k>>` for the k-th cell client `h` filled, so that links and headers written
over it, and copies, act on it; what belongs to no structure is set to a value
that leads out of the heap. A `denied` in a detailed module counts cells, for
comparison with the abstract one.

`UmmMalloc`: `mem` holds the fields of every `umm_block`, the free mark being part
of the number as in the code. The static functions are operators from memory to
memory; the ways in which `umm_realloc` goes on are actions, numbered as its
comment numbers them (2 and 3 do the same). `BestFits` has the fall-through of the scan
to block 0, where the header of block 0 is compared with the size of the block looked
at last (`LastSize`). Of what `umm_realloc` copies, only that data arrives is modelled: a
copy writes over no link that is still needed.

`QMemMang`: the free list is kept by address with its dummy head `Start` and its
end marker, which lies in the pool; `Insert` is
`qMemMang_InsertBlockIntoFreeList` with its three ways of joining. The pool is set
up by the first allocation.

`LvMem`: a header is a unit of four bytes, there is no list but the order of the
entries. `Trunc`, `JoinedSize` and `Defragged` are `ent_trunc`, the joining in
`lv_mem_free` and `lv_mem_defrag`. `tidy` is history: only behind a
defragmentation are there no free neighbours. A realloc to nothing and back to
something loses an entry without data, at most `MaxLost` times in the run.

`Tlsf`: a block is named by the unit of its size field. `prev_phys_block` lies in
the last unit of the block before, and the client that owns that unit overwrites
it; `Settled` forgets it then. The two bitmaps are sets, `lists` are the free
lists by class, `FlCount` rows of them, `Class` and `SearchClass` are the two mapping
functions. Pools are smaller than `block_size_max`; section 7 says why. Pools are
added and removed; `want` is the alignment of each allocation, for `Integrity`,
which has the conditions of `tlsf_check` and `tlsf_check_pool`.

`Mmem`: the clients' `struct mmem` are `ptr` and `size`; `Free` moves the bytes
behind down and corrects the pointers of those behind on the list.

### lv_task

`LvLl` gives each function of `lv_ll.c` that the scheduler uses as an operator
from list to list over `head`, `tail` and the links in the nodes. In `LvTask` the
handler is one action per element it looks at; `Exec` begins a call and `Return`
ends it, and in between the task makes up to `MaxOps` calls of its own. `Moved`
and `Inserted` are the places `lv_task_set_prio` and `lv_task_create_basic` find.
A deleted task's links are `Junk` and its node may be given out again. `since` is
the time since `last_run`, up to the longest period, which is all that is compared
with a period. `seen` is history. `DeletesOthers = FALSE` keeps tasks of the
highest priority from deleting others and going on; see section 7.

### EEPROM

`cells` is the memory of the device, whose page write wraps within its page
(external, `Target`). `WritePage` is one turn of the loop of `at24cxx_write` with
the page it sends, `ChunkLen` the length it computes. `WritePage(TRUE)` is a page
lost on the bus: `iicSendByteAck` throws the acknowledgement away. `EndAddr` is
`endAddr`, a `u_short`: a write that ends beyond its range writes nothing. `PowerFails`
leaves any part of the page under way written, unwritten or torn. A record is a
checksum and data; the checksum of some data is modelled as that data, that is,
without collisions. The abstract `ParamStore` has the value a load would give; the
history `past` is what a record had or was to have since it was last saved
undamaged, and a load never gives anything but one of those or the default.

### Ctimer

`Ctimer` EXTENDS `Etimer`: the etimers in `Callback` belong to ctimers, `clist` is
`ctimer_list`. A call is the etimer's call in the context of the ctimer process,
with the list; `CDeliver` is the body of that process.

### Serial line

`InputByte` is the interrupt, one byte at a time and between any two steps. `Test`
and `Take` are the two halves of `ringbuf_get`, the second with what the process
does with the byte. A character is the line it was typed on and its column, so
that `LinesIntact` can tell mixed, repeated and lost characters. The kernel is the
poll flag, the event queue, and one call at a time; before `serial_line_init` the
ring takes nothing.

## 4. Runs

| run | bounds | shows |
|---|---|---|
| `ringbuff` | 3 bytes of memory, 2 byte values, calls of up to 4 bytes | every call implements the FIFO; blocks disjoint. Three cells are enough for each index to be below, at and above the other one and at both ends; calls longer than the memory occur |
| `ringbuff_isr` | 6 bytes, calls up to 5, one DMA interrupt per call | order, DMA behind both copies of the writer, no transfer left unstarted |
| `process` | 3 processes, 1 queued event, 2 calls per process_run, one process polled by interrupts, no exit of a process that is being called, no INIT events from threads | safety of the kernel. Three processes give a list with a head, a middle and an end |
| `process_live` | 2 processes, 2 events | polls are delivered |
| `message_queue` | depth 4, positions modulo 4, no read of an empty queue | ownership, no leak, FIFO |
| `etimer` | 3 timers of interval 1, 2 processes, exits, no timer set in an exit, adjustments by one tick in either direction, clock of 4 ticks | list integrity and ownership. Three timers give a list with a head, a middle and an end, which is what adding, dropping and stopping distinguish |
| `timers` | an event timer and a callback timer, intervals 1 and 2, clock modulo 6, at most 2 ticks late, event queue of 1, no exits, no adjustments | nothing overlooked, nothing early but for a start ahead of the clock, every timer and callback is served |
| `heaps` | 3 clients; umm_malloc 10 blocks, qmemmang 14 units, lv_mem 7 units, tlsf two pools of 17 and 7 units and a table of four rows and two columns, the last row of which is used, mmem 7 bytes; three to five sizes each, at, above and below the borders of the units, and more than there is | integrity, joined neighbours where promised, the abstract heap. Three blocks and the gaps between them give every combination of free and used neighbours, and all ways of every `realloc` occur |
| `lv_task` | 3 tasks, priorities 0, 2, 4 and 5, period 1, 2 calls from a task | list whole and ordered, handler on live tasks, priorities. Three tasks are the active one, the next and one to interrupt; the priorities lie on both sides of the default one |
| `lv_task_next_deleted` (violation) | 3 tasks | see section 7 |
| `eeprom` | 8 cells in pages of 2, a record of one page and one of a page and a half, writes that begin within a page and go beyond the end, addresses modulo 10, one write that ends beyond them | writes exact; records survive power loss and lost pages as `ParamStore` says |
| `serial_line` | ring and line of 4 bytes, queue of 3 events of which others take 1, 8 bytes typed | lines whole and in order; all that found room is delivered. Eight bytes fill ring and line twice |

Bounds are constants: `MaxLen`, `MaxOps`, `PerCall`, `IdMod`, `Slack`,
`MaxEntries`, `Sizes`, `Nums`, `Aligns`, `MaxLost`, `Prios`, `Periods`, `Raw`,
`Others`, `MaxBytes`, `LastWords`, `Inits`; `W`, `Wrap` and `AddrWrap` stand for 2^32,
2^32 and 2^16. `Slack` is the assumption that the main program is never later than so
many ticks; the code needs it too, with 2^31 in its place. A reset or an adjustment
moves an expiration to less than `Slack` behind the clock or to within the clock's
range ahead of it. `Others`
is the assumption that other processes leave room in the event queue for the two
events of a line, and `BareErase = FALSE` that nobody types a backspace on an empty
line; section 7 says what happens otherwise. `Symmetry` is declared only in runs
without liveness properties.

## 5. Fairness

`Process`: the processor executes main, and a thread returns (`MaxOps`): weak
fairness of everything but the interrupts, which owe nothing. `Etimer`, and
`Ctimer` with the same formulas: weak fairness of the function that was entered and
of the tick; strong fairness of taking polls and of taking events, because main
calls `process_run` in an endless loop (`T/user/main.c:157-162`) and each call does
one after the other whatever the handlers do. `SerialLine`: weak fairness of
the boot, of each step of the process and of polls and events, for the same
reason; the interrupt owes nothing. `MaxBytes` ends the typing, which is when
`Drains` says something.

## 6. What is proved

The theorems are for every value of the constants that satisfies the assumptions
named in the modules, and the hypotheses below where a theorem has one. A
hypothesis is never there to make a proof possible: where there is one, the
property is false without it, and the configuration that is named with it shows
how (most of them with what section 7 says of it).

Every module of proofs has the same shape: the inductive invariant at the top
(`IInv`; `SafeInv` and `DueInv` for the timers), lemmas about the
operators of the model, a lemma per action that preserves the invariant, and the
theorems at the end.

**`RingBuffProofs`** on `RingBuff`, no hypothesis. `TypeCorrect`; `BlocksAlwaysDisjoint`, from
the type invariant and arithmetic on the two indices; `BufferIsFifo`, that each
action is an action of `ByteFifo` or a stutter. The argument goes through lemmas on
index arithmetic (`MovedIsAdvanced`, `FullAndFree`, `MoveWriter`, `MoveReader`),
which say that moving an index by n makes the buffer n fuller or emptier, and
lemmas that say which bytes `Contents` has after a copy.

**`RingBuffProofs`** on `RingBuffIsr`, if at most one DMA interrupt falls into one
`ringbuff_write` (`PerCall <= 1`; `RingBuffIsrTwice` otherwise). `IsrTypeCorrect`,
`EveryByteInOrder`, `DmaStaysBehind` (behind both copies), `TransferIsStarted`. In the middle of a
function neither `r` nor `w` says where the next byte is taken or put: `TakePos`
and `PutPos` do, at every program counter, and `Stream` says that the memory
between them holds the next bytes of the stream. `WriterSound` needs one thing
that is not obvious: while `w` is `Size` and no interrupt was taken in this call, a
transfer that runs began before the call and ends before the cell where the call
began to write, which is why a single interrupt cannot take `r` past it.

**`ProcessProofs`**, if no process is exited while it is called or is exiting
already and no thread posts a `PROCESS_EVENT_INIT` (`Orderly`; `ProcessSelfExit` and
`ProcessInit` otherwise), for every number of
processes, size of the queue and depth of nested calls. `TypeCorrect`,
`ListAlwaysEnds`, `NeverReentered`, `CurrentKept`, `RunningAreListed`,
`PollsStand`, `BroadcastComplete`, `BroadcastNotRepeated`. The invariant is about
the whole C stack: `StackSound` says which function may have been called by which
(`Fits`), `Held` that the frames on it, and only they, say which processes are
marked as called and which are on the list although they have stopped. `Ends` says
that the list ends by numbers that grow along it. The loops of `do_poll` and of a
broadcast stand on processes that may have left the list and whose `next` is old;
what they still come to is `Reach`, the least set closed under `next`, and the
invariants `Polls` and `Audience` say that it contains everybody who is owed a poll
or the event.

**`EventProofs`** on the timers, for every number of timers and width of the clock. Without
hypothesis: `TypeCorrect`, `ListStaysSound`, and `NoEventEarly` and
`CtimersNeverEarly`, which say of whatever is set, reset, adjusted and stopped that
an event is early only for a timer that starts ahead of the clock: `timer_expired`
takes the time since such a start, modulo the clock, for very long
(`EtimerStartAhead` shows it). `OwnersStayAlive`, if no process sets a timer in the
call that tells it to exit (`LastWords = {}`; `EtimerLastWord` otherwise).
`NothingOverlooked` and `CtimersNotOverlooked`, if `etimer_adjust` makes timers only
later and no process exits on a clock that wraps (`OnlyLater`): when a timer is
moved to a time that has come, nobody is polled before the next tick
(`EtimerExitWrap` with `Adjusts <- Advance` and `MayExit = FALSE`), and
`EtimerExitWrap` as it is shows the exit. The invariants: `LeftTold`, that the
history, which counts without a modulus, agrees with start and interval, which do
not; `NextIsFirst`, that `next_expiration`, stored or about to be stored, is the
first of the list; `UnpolledIsKnown`, where a timer that is due may be while
nobody is polled: in front of the walk of the etimer process, or nowhere.

**`MessageQueueProofs`**: `NothingLeaks`, without hypothesis; and, if nobody reads an
empty queue (`Calm`, that is `~Eager`; `MessageQueueEager` otherwise), `TypeCorrect`,
`BlocksOwnedOnce`, and `Refinement`, that it implements `MessageChannel`. That each
block has one owner says nothing of where the next one is taken from; the
invariant adds that the positions are as far apart as the counters say, that the
slots of `freelist` between them hold different blocks, and that the slots of
`queueData` between them, and only they, hold one (`PoolSound`, `QueueSound`).

**`EepromProofs`**, no hypothesis, from `EepromAssumption` (records begin on pages
and do not overlap, as the addresses in `infoat24xx.h` do), `ChecksumAssumption`
and `RawAssumption` (other writes stay away from the records). `TypeCorrect`;
`WritesExact`; `Refinement`, that losses of power between and within pages, lost
pages and writes elsewhere leave an implementation of `ParamStore`. The invariant
says of a write under way that the part behind it is written unless a page was
lost (`Writing`), and of each record that the cell of its checksum holds a value it
had or was to have, or nothing (`Checksums`): with checksums that do not collide
the data is then that value, or the load gives the default.

**`EventProofs`** on `SerialLine`, if nobody types a backspace on an empty line
(`~BareErase`) and the event queue has room for the two events of a line
(`QueueHasRoom`); `SerialLine` with `BareErase = TRUE`, and `SerialLineQueueFull` otherwise.
`LineTypeCorrect`, which includes that the shell gets no line that was not typed, and
`LinesStayIntact`. `Stream` says that the bytes in the ring, taken one after the
other, lead from the line the process has so far to the line that is being typed;
`Queued` where the events of a line are while the process waits; `Counted` that
the lines still owed are the terminators in the ring and the line in the queue.

**`LvTaskProofs`**, for every number of tasks and of calls that they make. The
invariant is that there is a sequence of tasks that `head`, `tail` and all links
spell out in both directions (`IsList`), that has the allocated tasks and no
others, in the order of their priorities. Lemmas say of each function of `LvLl`
what it makes of such a sequence: a node linked in is `Ins`, one taken out `Del1`,
`lv_ll_move_before` one after the other; and that a search from the head finds the
first (`FirstFound`). From that, without hypothesis: `TypeCorrect` and
`ListStaysSound`. If no task of the highest priority deletes others and stays
(`~DeletesOthers`; the run `lv_task_next_deleted` otherwise): `NoneDangling` and
`PriorityKept`, with the invariant `Handler`, that all in front of the handler, and
in front of where it will go on, have been looked at.

**`BlocksProofs`** and **`HeapsProofs`**, for every size of the memory, every set of
clients and all sequences of their calls, from `HeapsAssumption`. `TypeCorrect`,
`IntegrityHolds` and `CoalescedHolds` are about `Heaps`, which the run checks;
`QMemIntegrityHolds`, `UmmIntegrityHolds`, `MmemIntegrityHolds`,
`LvMemIntegrityHolds` and `TlsfIntegrityHolds`, and the same with `Coalesced`, about
each allocator by itself, and `QMemImplementsHeap`, `MmemImplementsHeap` and
`LvMemImplementsHeap` that three of them keep what `Heap` promises. What is proved of
one begins with its name. The
assumption has the sizes of pools that the code asserts, except that a pool of tlsf
is smaller than `block_size_max` (section 7), and two conditions that
it does not test: no size in `Sizes`, nor a product in `calloc`, has a count of
blocks that is cut to 0 (`umm_malloc.c:131`), and none is so large that
`adjust_request_size` makes it 0 (`tlsf.c:304-320`), as a `tlsf_realloc` to such a
size cuts the block (`TlsfTooLarge`).

- A function on memory is proved to lead from one description of the memory to
  another. A description names sets that the memory spells out: the blocks, those
  that are free, for `Tlsf` also those marked as free in the block behind and
  those on the lists, because `block_trim_free` and `block_merge_prev` work in
  between, where the three differ.
- That blocks fill the memory is `Tiles` in `BlocksProofs`: each but the last is
  followed by a next one, and none begins between the two. From it a walk from
  block to block, such as `lv_mem_defrag` and `tlsf_walk_pool`
  make it, comes by all of them in as many steps as there are cells (`WalkReaches`).
- `umm_malloc`: `UmmRing` says of the free list that forwards and backwards agree and
  that some rank grows along it, without which a ring beside the list would satisfy
  all of it.
- `qmemmang`: the list is `QMemLinked` by address, and `QMemCounted` says of each block how
  many units come before it on the list, so that the sum that
  `FreeBytesRemaining` is kept beside follows without adding up.
- `lv_mem`: a block in use that is no client's is one that `lv_mem_realloc` lost,
  and has no data (`LvMemOrphan`).
- `tlsf`: what is found by the search lies in a class behind that of the size
  rounded up (`TlsfBehind`), and that `Class` sends each size into the table is proved
  from the powers of two (`Bit`), division and remainder.
- `mmem`: the blocks lie in the order of the list, the first at the beginning and
  each at the end of the one before (`MmemChained`).
- That a heap keeps its clients' data needs three things beyond its integrity: the
  blocks of different clients lie apart, as the blocks tile the memory; every cell
  of a client's block holds what the client wrote there, an invariant of its own
  that each copy, join and move of `mmem_free`, `lv_mem_realloc` and the others keeps
  because none of them writes into a cell of somebody else; and where NULL is
  returned, a run of free cells long enough would lie within one free block, as no
  two of them are neighbours, and the search would have found it (so in `qmemmang`;
  the room of `mmem` is all behind its last block, and `lv_mem` may refuse what is in
  pieces).

Only model-checked:

- `PollDelivered`, `Served` and `Drains`: liveness under fairness is out of the
  prover's reach;
- `ImplementsHeap` of `UmmMalloc` and `Tlsf`, and so of `Heaps`: the invariant about
  the contents of every block would have to go through the six ways of
  `umm_realloc` and the three of `tlsf_realloc`;
- that the hypotheses above are needed.

The induction theorems of the library cannot be used, as they take an operator as
a parameter. Where a proof needs induction it is over a set of numbers instead:
every set of numbers that is not empty has a least one (`Least`, from the
theorems on well-founded relations), so a set with 0 and the successor of each of
its elements has them all (`SetInduction`). That is enough for what is built by
functions over numbers, as `FirstIn` and `Kept` are.

## 7. Where the code and its documents differ

Each of these was found by TLC as a violation of the property named. The first
belongs to a run of `PROJECT.json`; the others are reproduced with
`tlc -config X.cfg M`, X and M being given. Two were met while modelling and need no
run; they say so.

- run `lv_task_next_deleted`, `NoDangling`: the comment at `lv_task.c:104-105` says
  the next element is fetched before the call because the task might be deleted.
  Only a deletion of the active task sets `task_deleted` (`:271`): a task of the
  highest priority that deletes the next one leaves the handler on freed memory
  (`:156`).
- `RingBuffIsrTwice` / `RingBuffIsr`, `InOrder`: "Interrupt safe when used as pipe
  with single write and single read entries" (`ringbuff/docs/index.rst:25`).
  `ringbuff_write` leaves `w = size` for a while (`ringbuff.c:112`); if two DMA
  interrupts fall into that time, the second takes `r` to 0 and sends the whole
  memory. With one interrupt per call it is safe, and so is the other direction.
- `RingBuffMoved` / `RingBuff`, `MovedIsTold`: "Number of bytes skipped" and "Number
  of bytes advanced" (`ringbuff.c:331`, `:406`); `ringbuff_skip` and `ringbuff_advance`
  return the number asked for (`:346`, `:421`), which may be more.
- `ProcessSelfExit` / `ProcessMC`, `RunningIffListed`: `process_exit` of a process
  that is being called leaves it off the list and running (`process.c:196`), and
  "The process can either be the currently executing process, or another process"
  (`process.h:387-389`).
- `ProcessInit` / `ProcessMC`, `RunningIffListed`: a `PROCESS_EVENT_INIT` posted to a
  process that is off the list makes it running there (`process.c:289-293`), behind
  the back of `process_list` and `process_is_running`.
- `MessageQueueEager` / `MessageQueue`, `ReadFindsMessage`: "Read a message from the
  queue if one is available [...] or NULL" (`message_queue.h:147-151`,
  `message_queue/README.md:79-86`), which `examples/www_server.c:272` relies on, and the
  application, whose reader polls itself and reads again (`T/apptest/apptest_ummollc.c:125`). A
  `message_queue_tryread` of an empty queue adds an entry (`message_queue.c:253`); a
  later one returns NULL although a message is queued. With `EachBlockOwnedOnce` in
  the place of that property it shows that messages are overwritten and their blocks
  lost.
- The same module, read off `MessageQueue` and `MessageChannel`: "This function blocks
  until memory is available" and "blocking if necessary until one is available"
  (`message_queue.h:113`, `:158`, `message_queue/README.md:59`, `:74`);
  `message_queue_message_alloc_blocking` and `message_queue_read` return NULL
  (`message_queue.c:122-149`, `:257-262`). And the README is about threads, while the atomic
  operations and the waiting are commented out.
- `EtimerExitWrap` / `EtimerMC`, `NothingDueUnpolled`: an exit leaves
  `next_expiration` stale (`etimer.c:91`), and the tick compares it without regard
  to wrapping (`clock.c:42`).
- `EtimerStartAhead` / `EtimerMC`, `EventDue`: "When the event timer expires, the event
  PROCESS_EVENT_TIMER will be posted" (`etimer.h:93-95`), and a reset starts from "the
  exact time that the event timer last expired" (`:101-110`). `timer_reset` adds the
  interval to the start whether the timer has expired or not (`timer.c:84-87`); of a
  timer that is pending or was stopped the start then lies ahead, and
  `timer_expired` holds at once (`timer.c:125`). `etimer_adjust` by more than what has
  passed does the same (`Adjusts <- Advance` in that configuration).
- `EtimerLastWord` / `EtimerMC`, `OwnersAlive`: a process that sets a timer when it is
  called with `PROCESS_EVENT_EXIT` (`process.c:153-157`) leaves it on the list when it
  is gone, as the etimer process was told of the exit before (`etimer.c:91-107`).
- `CtimerSetAnew` / `Ctimer`, `CallbackDue`: a ctimer that is set anew while its
  last TIMER event is queued makes its callback at once, not "when the timer
  expires" (`ctimer.h:105`).
- `EepromPageLost` / `EepromStoreMC`, `SaveSucceeds`: a save returns 1, "suceeds",
  although a page was lost (`m24cxx.c:113`, `iic.c:204`).
- `SerialLineQueueFull` / `SerialLine`, `LinesIntact`: when the queue has no room
  for the CONTINUE event, the line buffer is used again before the shell has read
  it (`serial-line.c:152`).
- `SerialLine` with `BareErase = TRUE`, `LineTypeOK`: a backspace on an empty line
  takes `ptr` below the buffer (`serial-line.c:129`).
- `TlsfTooLarge` / `Tlsf`, `ImplementsHeap`: "a request that cannot be satisfied will
  leave the original buffer untouched" (`tlsf.c:995-996`); a
  `tlsf_realloc` to at least `block_size_max` adjusts the size to 0 and cuts the block
  instead (`tlsf.c:1034`).
- Read off `TlsfAssumption`: `tlsf_add_pool` takes a pool of exactly `block_size_max`
  (`tlsf.c:828`), whose free block has class `FL_INDEX_COUNT` and is entered behind the
  last row of `blocks` and `sl_bitmap` (`:437-439`, arrays `:169-172`).

## 8. Not modelled

- The ROM search of `my_one_wire`: sequential, over a tree of codes and bit timing;
  the next candidate for a module.
- `memb`, a table of counters without structure; `rtimer`, `trickle-timer` and
  `cfs-coffee`, upstream Contiki that the application does not call; the shell,
  which parses commands.
- Formatting, drawing, bit timing (`iic.c`, `soft_spi`) and register tables;
  arithmetic on floating point numbers (PID), and the crc tables: in `EepromStore`
  checksums do not collide.
- Vendored and generated files: the CMSIS and peripheral libraries of STM32,
  startup code, IDE projects, and the copies of them and of the modules that each
  demo directory holds. These are by far the most of the repository's lines, so
  that the share of all lines that the models cover is small whatever is modelled.
- In what is modelled: the poison, info and integrity code of umm_malloc that the
  build leaves out and sizes so large that its 16 bit count of blocks wraps;
  `lv_mem_monitor` and `lv_mem_get_size`, which only read; `lv_ll_chg_list`,
  `lv_ll_clear` and the counting functions of `lv_ll`; the `printf` and statistics of the kernel;
  `current_seconds` of the clock; writes of `umm_realloc`'s copies over links; the byte contents of messages; weak memory
  effects other than those named.
