# TLA+ models of verify-c-common

verify-c-common holds *unit proofs* for the C library aws-c-common: small
programs (`src/seahorn/jobs/<job>/aws_<job>_harness.c`) that build arguments
nondeterministically, assume the precondition of one library function, call it
and assert what it should have done. The same programs are built for SeaHorn,
KLEE, SMACK, Symbiotic and libFuzzer. The library itself is not in this
repository; here it appears as *external* operators, modelled from how the unit
proofs use it.

A unit proof is only worth something if

- what it assumes can happen, and every case that matters is among the inputs
  it builds;
- it never fails on a correct function (no false alarm);
- it does fail on an incorrect one (what passes is correct, up to what the
  assertions leave open);
- the code it links in place of the library (stubs, allocators, drivers, memory
  functions) keeps the library's promises;
- the script that reports the verdict reports it as it is.

These modules check exactly that, for all the unit proofs but one and for the
code that is linked to them.

## 1. Inventory

| Component | Source (under `src/`) | State | Operations | Interacts with |
|---|---|---|---|---|
| Linked list proof helper | `seahorn/lib/linked_list_helper.c` | heap of nodes; a snapshot of up to four nodes | three initialisers, attach, save to tail / to head / full, the three `is_aws_list_unchanged_*` | harnesses; the nd functions for unknown pointers |
| Linked list unit proofs | `seahorn/jobs/linked_list_*` | the harness's locals | 18 programs | helper, library |
| Hash table code (overrides) | `seahorn/aws-c-common-stubs/s_emplace_item…`, `s_expand_table…`, `s_update_template_size…`, `s_hash_for…` | the table: slots, size, mask, load limit, entry count | insert with Robin Hood displacement, expand and move all entries; a SeaHorn branch of each that chooses freely | called by the library's `aws_hash_table_create` |
| Hash table iterator stubs | `aws_hash_iter_overrides.c` | an iterator: slot, limit, status; the table's entry count | begin, done, next, delete | `aws_hash_table_foreach`, the unit proofs of hash tables |
| Hash table helper and unit proofs | `seahorn/lib/{,klee_,fuzz_}hash_table_helper.c`, `seahorn/jobs/hash_table_*`, `hash_iter_*` | a map, its state, its slots, an iterator | 20 programs in up to three builds | iterator stubs, allocators, watched bytes |
| Hash function unit proofs | `seahorn/jobs/hash_*` | strings in aligned blocks | 9 programs | string helper, aligned allocation |
| Proof allocators | `seahorn/lib/allocator_override.c`, `proof_allocators.c`, `sea_allocators.c`, and those of KLEE and SMACK | the heap | acquire, calloc, realloc (emulated), release | everything that allocates |
| Ring buffer helper and unit proofs | `seahorn/lib/{,klee_,fuzz_}ring_buffer_helper.c`, `include/cbmc/ring_buffer_abstract_states.h`, `seahorn/jobs/ring_buffer_*` | ring (allocation, head, tail, end), byte buffer | six programs in up to three builds | allocators, library |
| Fuzzing driver and allocators | `seahorn/lib/nd_fuzz.c`, `fuzz_allocators.c` | global cursor into libFuzzer's input, a jump buffer | `LLVMFuzzerTestOneInput`, nd functions, `memhavoc`, assume, assert | libFuzzer, all harnesses |
| Watched bytes | `seahorn/lib/utils.c` | one saved byte and its index | save, compare | most unit proofs |
| Byte buffer and cursor helper and unit proofs | `seahorn/lib/{,klee_,fuzz_}byte_buf_helper.c`, jobs | buffers, cursors, their blocks | 29 and 24 programs | watched bytes, allocators |
| Array list helper and unit proofs | `seahorn/lib/{,klee_,fuzz_}array_list_helper.c`, jobs | lists, their blocks | 24 programs | watched bytes, allocators |
| String helper and unit proofs | `seahorn/lib/{,klee_,fuzz_}string_helper.c`, `sea_string.cc`, `seahorn/jobs/string_*`, `array_eq*` | strings, C strings, arrays | 15 and 4 programs | watched bytes, allocators |
| Priority queue helper, stubs, unit proofs | `{,klee_,fuzz_}priority_queue_helper.c`, `s_sift_*_override.c`, `s_remove_node_override.c`, jobs | two array lists and the nodes that point back | three stubs, 15 programs | array list |
| Arithmetic unit proofs | seven jobs (`add_size_*`, `mul_size_*`, `*_power_of_two`, `ptr_eq`) | none | 7 programs | – |
| Second-generation unit proofs | `seahorn/jobs2` | as jobs | 70 programs: the same set-ups and calls, asserted over SeaHorn's memory tracking | external tracking |
| Memory functions | `seahorn/lib/bcmp.c` | loop counters | bcmp, memcmp, memcpy, memmove, memset | builds without a libc |
| Verification pipeline | `verify.py.in`, `sea_*.yaml`, CMake files | the lines seen, two sets of locations | start SeaHorn, read its output, its exit code, the verdict | SeaHorn, through a pipe |
| KLEE's, SMACK's, Symbiotic's nondeterminism, experiment scripts, build | `nd_klee.c` …, `scripts/`, CI | none | – | – |

Components and their status, with the reason for every part left out, are in
`PROJECT.json` under `components`.

### Hard behaviours

Nothing in the C code runs in parallel and nothing is persisted: threads,
messages and crashes do not occur; the one pair of processes is the script and
SeaHorn. What is hard is

- *a free choice in the middle of a sequential program*: nd functions, malloc
  that may fail, pointers that point anywhere;
- *arbitrary programs in the middle*: a snapshot is compared after an unknown
  function has written what it liked;
- *long sequences of legal calls*: insertions into a table until it has been
  expanded twice, reallocations that shrink before they grow, iterations that
  delete what they visit, runs of the fuzzer that end by `longjmp`;
- *an intermediate state*: an entry that is in no table while it is displaced,
  a table half moved, a new block and an old one of the same owner;
- *one byte that stands for all*: the index of the byte that is compared is
  chosen before the call and used after it;
- *boundaries*: sizes that wrap, loads that are rounded, rings that are full up
  to their end, words at the end of a copy, inputs with no byte left;
- *several builds of one function* that have to agree;
- *two processes over a pipe*: lines in any order, a pipe that fills up, an
  exit code that is known only at the end.

Each is listed at its line under `hazards`, with the properties that would
notice it going wrong.

## 2. Modules

| Module | Models | Uses |
|---|---|---|
| `LinkedListHelper` | the library's linked list (external), and `linked_list_helper.c` as operators on heaps | |
| `LinkedListSnapshot` | build, snapshot, then any program that writes fields | `LinkedListHelper` |
| `LinkedListUnitProofs` | the 18 `linked_list_*` harnesses over correct and faulty operations | `LinkedListHelper` |
| `KeySet` | abstract: a set of keys | |
| `HashTableStubs` | abstract: the `__SEAHORN__` branches of the overrides | |
| `HashTable` | detailed: their `#else` branches ("original code"), a step per loop iteration | implements `KeySet` and `HashTableStubs` |
| `HashIterStubs` | abstract: the iterator stubs in the loop of foreach | |
| `HashIter` | detailed: the library's iterator (external) over real slots | implements `HashIterStubs`, but for deletions |
| `Allocation` | abstract: what `aws_mem_*` promises each caller | |
| `ProofHeap` | detailed: the override and the allocators of four builds over blocks and addresses | implements `Allocation` |
| `RingBufferHelper`, `RingBufferUnitProofs` | the helpers of three builds, the library's ring (external); the harnesses of both generations | |
| `FuzzDriver` | `nd_fuzz.c` and `fuzz_allocators.c` under any unit proof | |
| `WatchedBytes` | `utils.c`: save and compare, over all choices of the byte | |
| `UnitProof` | the course of a unit proof: set-up, call (correct, skipped, with one fault), check; what is modified | `WatchedBytes` |
| `ByteBufHelper`, `ByteBufUnitProofs`, `ByteCursorUnitProofs` | helpers of three builds, 53 harnesses, 18 and 20 of them again in the second generation | `UnitProof` |
| `ArrayListHelper`, `ArrayListUnitProofs` | likewise, 24 harnesses | `UnitProof` |
| `StringUnitProofs`, `HashFunctionUnitProofs` | 19 and 9 harnesses, `sea_string.cc`, the `strcmp` of one job | `ByteBufHelper` |
| `HashTableHelper`, `HashTableUnitProofs` | 20 harnesses of tables and iterators | `UnitProof` |
| `PriorityQueueHelper`, `PriorityQueueUnitProofs` | 15 harnesses, with the stubs or with the library's functions | `UnitProof` |
| `PriorityQueueStubs` | abstract: what the stubs do to the two lengths, and their assertions | |
| `ArithmeticUnitProofs` | 7 harnesses over numbers of a few bits | `UnitProof` |
| `MemCompare`, `MemMove` | `bcmp.c`: the comparisons and the copies, a step per iteration | |
| `VerifyScript` | `verify.py` and SeaHorn over a pipe | |
| `ByteBufJobs` | the unit proofs of byte buffers with maxima of their own: the part of `Jobs` that `ByteBufJobs_proofs` is about | `ByteBufUnitProofs` |
| `Jobs` | composes the families on `UnitProof`, one after the other, over shared variables | all of them |
| `*_proofs` | theorems about the module they name; `LinkedList_proofs` about `LinkedListSnapshot` and `LinkedListUnitProofs`, `UnitProofs_proofs` about `RingBufferUnitProofs`, `PriorityQueueStubs` and `WatchedBytes`, `Environment_proofs` about `FuzzDriver`, `VerifyScript`, `MemCompare` and `MemMove` | TLAPS |
| `MC*` | constants for TLC; `MCHashIter` and `MCMemory` also compose the modules that one run checks | |

### State and actions against the code

**Linked list.** A heap maps the nodes in use to their two links; pointers are
nodes, NULL, one non-NULL address that must not be followed (`Wild`), and `Fault` is what
a read through anything but a node yields. A length above two acts as three, since the
code tells 0, 1, 2 and "more" apart. The helper's mirrored pairs of functions
(to tail, to head) are one operator with the direction as an argument.
`LinkedListSnapshot` gives the operation under verification no shape at all:
`Write` is one field of one node, any number of times. In
`LinkedListUnitProofs`, each `…Setup` is a harness up to its call and each
`…Asserts` its assertions; between them the operation is called (`Call`),
skipped (`SkippedCall`), or followed by a wrong write or result (`StrayWrite`,
`WrongReturn`), with at most `MaxFaults` faults.

**Hash table.** `Create` and `CreateExpands` are the two ways
`aws_hash_table_create` calls this code; `Rehash` is an iteration of
`s_expand_table`'s loop, `EmplaceStep` one of `s_emplace_item`'s, `EmplaceDone`
and `ExpandDone` their ends. `hash_fn` is any function of the keys, chosen once.
A slot's hash code 0 means vacant, so 0 is replaced by 1 and NULL has 42, as in
`s_hash_for`. The 64-bit difference under a mask is a remainder. `MaxLoad` is
0.95 of the template's size, cut off, and capped. `SizeIsStored` says whether
`s_update_template_size` stores the size, as its SeaHorn branch and the
library do, or not, as its `#else` branch does.

**Iterators.** `HashIterStubs` is the loop of `aws_hash_table_foreach` with one
action per stub (`Begin`, `Done`, `NextSlot`, `Delete`) and a callback that
answers anything. `HashIter` is the same loop with the library's functions over
a table of slots, every table in which all keys are found; `visits` counts how
often the callback saw a key.

**Allocators.** `heap` maps addresses to blocks (functions from offsets to
bytes); each caller has a pointer and the size it will pass as `oldsize`. After
a shrinking realloc the block is longer than the owner believes. A C memory
error sets `memory_error`. `build` chooses what lies under `aws_mem_*`: the
override on top of `can_fail_malloc_havoc`, the library's functions on
`proof_allocators.c`, and the variants of KLEE and SMACK. (KLEE's malloc is a
switch with one case for each size up to a page, `PageSize`; a larger size it
passes on as it is.)

**Ring buffer.** Addresses are integers: the allocation starts at 0, NULL is
below it, `Outside` is the one other block. `…Rings` and `…ByteBufs` are what
the helpers of each build produce, `InRange` where they place a buffer.
`tool` is the build. An allocation of no bytes is NULL with KLEE, any with
libFuzzer may be. A fault skips the operation or changes one field, those of the
allocators included, or the answer. `written` says which structs have been
written to since the call: it is what `sea_is_modified` of the second generation
answers, and a write of what was there already (a stray write of the same value)
counts.

**Fuzzing driver.** `iterator` is the cursor as an offset, `copied` the last
`memcpy` with the room of its target. A run ends by `Return`, or by `longjmp`
(`EndOfRun`) out of an assumption or a test of the cursor. The bytes themselves
are left out: which bytes are read, and into how much room, is what matters.

**Buffers, lists, strings, tables and queues.** These families share
`UnitProof`. `obj` holds the structs an operation may write, by the name they
have in the harness, `mem` the blocks they point to, `arg` what is passed by
value, `old` both before the call, `want` what the operation should leave. A
pointer is a block and an offset. Each `…Setup` is a harness up to its call,
including which inputs its assumptions and early returns leave; `Outcomes` what
a correct function may do; `…Asserts` the assertions, `…2Asserts` those of the
second generation. Where SeaHorn chooses the watched byte freely, a proof passes
only if it passes for every choice, so an assertion is a condition on *all*
choices (`WatchedBytes`); a comparison that would read outside of its block
fails. `Fault` changes one field, one byte or the answer. `Modified` and
`BytesModified` are what SeaHorn's memory tracking answers in the second
generation; here, unlike in the ring's proofs, they compare values, so that a
write of what was there is not seen as one. Allocations fail freely wherever the
helper's malloc may: in SeaHorn's build that of a bounded array cannot, in
libFuzzer's (`FuzzMallocHavoc`) any can.

In the tables, of an entry only whether its slot is taken is kept; the count of
entries that the helpers build need not be right, as in the code. In the
queues, an item, a pointer and an index take one place each. `ret = "crash"` is
a read through a node pointer that was never set.

**Memory functions.** `MemCompare` has one action per loop: the part that is
unrolled `MaxBufferSize` times (`PreUnrolled`), and the rest. In `MemMove`,
memory holds for each address which byte it was, so that "the right byte
arrived" is one equation; `AlignByte`, `CopyChunk`, `LastByte` are iterations of
the loops that align, copy eight bytes and finish; `touched` collects the
addresses used. `WordSize` is the size of the `unsigned long` that the copies go
through: 8 in the repository's 64-bit builds and in the runs. `MCMemory` puts
these two and the fuzzing driver side by side; the group that runs is chosen at
the start.

**Script.** `SeaHornPrints` and `Exit` are the environment, any lines in
any order with any exit code; `ReadLine` is a round of the loop over the output
(the first test that holds takes the line), `EndOfOutput` the end of the file
and `process.wait()`, `Verdict` what is returned. Its `ScriptInit`, `ScriptNext` and `ScriptSpec` have names of their own, as those of
`FuzzDriver` have (`FuzzSpec`), so that `Environment_proofs` can extend both and
the memory functions.

## 3. Runs

| Run | Configuration | Distinct states | Shows |
|---|---|---|---|
| `ll_snapshot` | 4 nodes, 2 writes | 146 621 | snapshots are sound and complete |
| `ll_unit_proofs` | two lists of up to "more than two", one extra node, 1 fault | 78 265 | no false alarm; what passes is correct, up to the fields named in `Unwatched` |
| `ll_swap` | the same | (violation) | the swap harness passes on an operation that did nothing |
| `hash_table` | 4 keys, one of them NULL, 5 hash values, sizes 2, 4, 8 | 188 485 | all hash table properties, both refinements, termination |
| `hash_iter` | stubs: tables of 2, 4, 8 slots; library: every valid table of 4; deletions | 6 255 | every entry is visited once, the stubs allow what the library does, both loops end |
| `proof_heap` | 2 callers, 3 addresses, blocks of up to 3 bytes of 2 values, four builds | 7 360 (up to symmetry) | memory is what `Allocation` promises |
| `ring_buffer` | sizes up to 4, three builds, 1 fault | 2 155 463 | no false alarm, what passes is correct, what the tracking of writes adds, the next call is tried |
| `unit_proofs` | eight families in three builds, no fault; and the priority queue over the library's functions | 641 656 | no false alarm but those named, the next call is tried, the queue's stubs are right about the lengths |
| `unit_proof_faults` | the same families in SeaHorn's build, 1 fault | 2 506 569 | what passes is correct in all that is watched; what the second generation adds and misses |
| `memory` | comparison: memories of 6 bytes, lengths to 4, 2 unrolled; moves: lengths to 21, distances to 9, starts to 7, words of 8; fuzzing: inputs up to 9 bytes, a `size_t` of 32 values, alignment 4 | 81 294 | the results, which bytes are touched, and termination; the fuzzing driver's copies stay inside, no byte is used twice |
| `memory_words` | the moves of `memory` | (violation) | `memmove` for Symbiotic uses bytes behind both blocks |
| `verify_script` | 2 locations, 3 lines, a pipe of 2, exit codes 0, 1, 9 | 64 566 | verdict 0 means verified; no deadlock |

### Why these bounds

- *Lists*: the helpers distinguish lengths 0 to 2 from the rest and allocate at
  most two inner nodes, so `Lengths` loses nothing. Two writes suffice to change
  a link and to divert the walk of the check to another node; the proofs remove
  the bound.
- *Faults*: one fault is the hardest to notice that can be enumerated. With two,
  one may hide the other, which no assertion about the end state can exclude;
  `PassedMeansCorrect` claims nothing about them for most families. For the
  linked lists it holds with any number of faults, and is proved, except for the
  unit proofs of `next` and `prev`: with `MaxFaults = 2` TLC finds two wrong links
  that agree with each other.
- *Hash table*: with hash values 0, 1, 2, 3, 7 every size has collisions, wrap
  at the end of the slots, and entries displaced more than once; four keys
  expand the table from 2 to 4 and to 8. `MaxSize` is the size at which the allocation fails.
  The tables fill up to their load limits 1 and 3, with one slot vacant: the
  tightest case of `EveryKeyIsFound`, `EntryCountIsExact` and `LinearTime`.
- *Iterator*: four slots with three entries allow a deletion that moves two
  entries, also around the end of the table; the stubs look at no slot, so
  larger sizes cost little.
- *Allocators*: with `SizeMax` 3, `2 * 2` and `3 * 3` overflow; with `PageSize` 2
  there are sizes on either side of KLEE's last case; three addresses
  let two callers hold memory while one grows. Symmetry is over the
  addresses, which only malloc's free choice tells apart.
- *Ring*: size 4 admits each abstract state with at least one byte of slack on
  either side; sizes in libFuzzer's build are taken modulo the maximum, so
  inputs go to twice of it.
- *Fuzzing*: `MaxAlloc` exceeds `MaxInput` and some requests exceed both; the
  sizes 27 and 31 are near the end of the word, where rounding wraps to 0. A
  guard keeps aligned requests below that, as the unit proofs do.
- *Families of unit proofs*: the maxima are constants of `Jobs`, which has one
  instance per family. A buffer of two or three bytes has a first, a last and, where the
  proof needs one, a middle byte; `SizeMax` is a little above twice the maxima,
  so that lengths can exceed capacities and grow beyond the maximum, and sums
  can wrap. Lists have up to four items of up to two bytes; queues of five items
  have two levels below the root, as the sift functions need; tables have up to
  four slots. Widths 1, 2, 2 stand for those of 16, 32 and 64 bits. Arithmetic
  is on all pairs of numbers of 1, 3 and 4 bits. With faults, queues are of
  three items, array lists have at most two bytes (`ListMemory`) and tables two
  slots (`TableSize`), against five, three and four without.
- *Memory*: the loop of `bcmp` is split at `MaxBufferSize`, so lengths go below,
  to and beyond it, on memories of two values of which one is negative as a
  signed char. Copies of 21 bytes have two chunks of eight and a rest at every
  alignment of a word; distances from -9 to 9 make the areas overlap within
  half a word, a chunk and not at all.
- *Script*: three lines let each kind of line come before and after each other;
  the pipe of two fills up; 9 stands for being killed.

`CHECK_DEADLOCK FALSE` stands where the system stops by itself: a unit proof
that has passed or failed, a snapshot after the last of its bounded writes, a
table with all its keys added, a call or a script that has returned, a crashed
fuzzing target. `proof_heap` has no such state, and its run checks that.

### Fairness

- `HashTable`: `WF_vars(Running)`: once a call has begun, the code of that call
  goes on, as sequential code does. Nothing is assumed about the caller ever
  calling. `EveryCallReturns` under it, with `LinearTime`, is the comment on
  `s_emplace_item`'s loop: it "will always terminate in at most linear time".
- `MCHashIter` and `MCMemory`: weak fairness of the one loop or call that runs;
  each starts running and is sequential.
- `VerifyScript`: weak fairness of each action of the script, which the
  operating system schedules. None of SeaHorn: it may compute for ever, and
  then the script waits for ever, as it should.

### Properties

- `CheckIsSound`, `CheckIsComplete` (`LinkedListSnapshot`): the answer of the
  one-way checks is "unchanged" exactly when the saved segment is.
  `FullCheckIsComplete`: the full check at least raises no false alarm.
- `NoFalseAlarm`, `PassedMeansCorrect` (all unit proofs): the harness
  fails only on, and always on, an operation that is wrong. `Unwatched`, or
  `Watched`, is explicit about what no assertion looks at; changing it is how to
  find out what a harness could check in addition. `PassesIfUnnoticed`
  (arithmetic) is exact in both directions.
- `PreconditionsHold`, `NextCallIsTried`: the helper builds legal
  inputs, and the state one call leaves is an input some other run of a unit
  proof tries, which is what makes single calls say something of sequences. The
  exceptions it names are real: a ring's head at the end of its allocation is
  reachable by `aws_ring_buffer_acquire` and never an input; libFuzzer's helpers
  reduce modulo a maximum and so never build a full buffer or a list with room;
  an empty hash table, as `init`, `clear` and the last removal leave it, is never
  what `put`, `create`, `find`, `remove`, `clear`, `clean_up` and `iter_delete`
  start with, because `has_an_empty_slot` assumes an entry
  (`TriedWhereItNeedsAVacancy`).
- `WritesTellApart` (ring buffer), `FirstPassesToo`, `NoFalseAlarm2`: the two
  generations against each other on the same outcomes. With the ring, the second
  passes nothing that the first refuses, and refuses in addition only a write to
  a struct of what it held already. Elsewhere, what the second misses is
  named: a changed allocator, since `sea_is_modified(buf.allocator)` asks about
  the allocator and not the field, and fields of structs it does not track.
- `SecondNoticesMore`: an operation that is wrong in no place but those that only
  the second generation looks at (`OnlySecondLooksAt`, family by family) passes the
  first and fails the second.
- `LengthsAsWithStubs`: the queue's functions implement what the stubs of
  `s_sift_down`, `s_sift_up` and `s_remove_node` do to the lengths
  (`PriorityQueueStubs`).
- `ImplementsKeySet`: no displacement or expansion loses a key.
  `ImplementsStubs`: the SeaHorn branches allow all that the original code does.
  `EveryKeyIsFound`, `EntryCountIsExact`, `ReturnsTheNewEntry`,
  `EmplaceGetsAValidTable`: what callers rely on.
- `EachIsVisitedOnce`, `TableStaysValid`, `CoveredByStubs`, `EveryLoopReturns`:
  iteration with deletion. `CoveredByStubs` leaves out the step of a deletion and
  the one after it: the stub of delete keeps the slot where it is and gives up
  one of the limit, the library steps back and does the latter only if the last
  entry moved.
- `OwnedOnce`, `NoMemoryError`, `ImplementsAllocation`: no leak, no sharing, no
  copy outside of a block, and the promised content.
- `CopiesStayInside`, `NoByteIsUsedTwice`: the fuzzing driver. (The latter is about
  the bytes of one run; that each run starts at the input's first byte again is
  `LLVMFuzzerTestOneInput`'s own assignment.)
- `ResultIsFirstDifference`, `BytesAreMoved`, `EveryCallReturns` (`memory`).
  `BytesAreMoved` says what the code does with words of eight bytes: four bytes
  more behind each block are used, and blocks less than four bytes apart may be
  copied wrong. `AccessesStayInside` (`memory_words`) is what it should do.
- `ZeroMeansVerified`, `NeitherWaitsForEver` (`verify_script`).

Every property of a passing run has at least one mutant: a changed definition
(its name has a suffix, as in `GrowInto_FreesFirst`) under which the run finds
the property violated. The properties of `Jobs` have one for each family
that they speak of.

The type invariants of the modules that have proofs are theorems and not part of
a run; those of the unit proof families, which have none, are checked by
`unit_proofs`, the ring's within `PreconditionsHold`, the library iterator's
within `TableStaysValid`, the copies' within `BytesAreMoved`.

### Findings

`ll_swap`: `is_aws_list_unchanged_full` never reads its list argument, so
the last two assertions of the swap harness, which are to say that the
contents were exchanged, hold when nothing was done.

`memory_words`: the `memmove` of `bcmp.c` that is built for Symbiotic copies to a
higher address by `*(unsigned long *)(tmp_to-4)` (lines 108-113, 118), which
takes an `unsigned long` for four bytes. It has eight in 64-bit builds, so four bytes
behind both blocks are read, and those behind the destination written; if the blocks
are less than four bytes apart, the bytes copied may be wrong as well.

Other places where code and comments, or two builds, disagree. Each is a named
exception of a property or a constant of a module, so that changing it shows the
difference:

1. The `#else` branch of `s_update_template_size_override.c` does not store the
   size (`SizeIsStored = FALSE` violates `EmplaceGetsAValidTable`). The branch
   is compiled by no present build: every SeaHorn bitcode target defines
   `__SEAHORN__`, and the other builds do not link the file.
2. libFuzzer's ring helper may make the buffer's capacity 0 after having assumed
   that it is not (`FuzzReleasesNothing`).
3. Assertions of the fuzzing build are `assert`, which the repository's default
   build type compiles away (`NDebug = TRUE` in `FuzzDriver`). (That
   `RelWithDebInfo` defines `NDEBUG` is CMake's default, not a line of this
   repository.)
4. The unit proof of `aws_byte_buf_append` compares bytes of `to` with
   themselves after an error; the second generation sees them
   (`SecondNoticesMore`).
5. libFuzzer's unit proof of `aws_byte_cursor_read_u8` may hand over a
   destination of no bytes, which the call writes to (`DestIsWritable`).
6. The comment at `string_helper.c:95` says that the length is zero where NULL
   is returned; it is not written there. Its callers get along with any value.
7. The array list's sort unit proof asserts that no byte changes; with libFuzzer
   the real `qsort` runs (exception of `NoFalseAlarm`).
8. `fuzz_hash_table_helper.c:116` takes the iterator's status modulo the largest
   one, so that libFuzzer never reaches the call of `aws_hash_iter_delete`.
9. KLEE's helper of the priority queue builds items of at most
   `MAX_ITEM_SIZE`, and its unit proofs return unless the back pointers have the
   size of a pointer: only the two of `init` reach their calls (`Qualified`).
10. libFuzzer's unit proofs of the priority queue may follow a back pointer that
    was never set, as a comment there says (`ret = "crash"`).
11. The stub of `aws_hash_iter_delete` is no abstraction of the library's
    function (see `CoveredByStubs`).
12. Without `--vac`, `verify.py.in:154` returns 0 although assertion errors were
    reported, if the expected answer was printed too and the exit code is 0.
13. `bcmp` returns 1 for NULL and any pointer with a length of 0 (`bcmp.c:27`;
    its specification in lines 13 and 14 says 0 for `n == 0`).
14. `proof_allocators.h:17` says that `bounded_malloc_havoc` "deterministically
    allocates" memory; in libFuzzer's build (`fuzz_allocators.c:13`) it may fail. The
    unit proofs `byte_buf_from_array`, `byte_buf_from_empty_array`,
    `byte_cursor_from_array`, `string_new_from_array` and
    `array_list_init_static` do not look whether it did, and fail or crash then with a
    correct library (exception of `NoFalseAlarm`).
15. `has_an_empty_slot` is a predicate with a side effect: it assumes that there is
    an entry (`hash_table_helper.c:79`), which its name does not say and `put`, `create` and
    `find` do not need (see `NextCallIsTried`).

## 4. Proofs

All theorems are checked by TLAPS; none assumes a bound TLC used.

**`LinkedList_proofs`**, of the snapshot – `TypeCorrect`, `CheckSound`, `CheckComplete`,
`FullCheckComplete`: for every set of nodes, any nd pointers and any number of
writes. `IInv` says that heaps keep
their domain and types and that a one-way snapshot is the one `SaveTowards`
takes *of the old heap*; this is what ties the answer, computed from the
snapshot and the present heap, to `old`, which the code does not have. Each
action either leaves the snapshot alone or takes it while `current = old`. The
properties then follow from `IInv` without induction, by cases on the number of
nodes saved. `FullCheckComplete` also needs `FullInv`: `old` is what the
initialiser built, so that the full snapshot holds no node, one node, or `first`
and `second` whatever the middle of the list hides (`BothEnds`, `FullFields`).
Assumptions: `PointersDistinct`, `NdPtrIsPtr`, `ListNodes`.

**`LinkedList_proofs`**, of the unit proofs – `ListNoFalseAlarm`, `ListPassedMeansCorrect`,
`OneListFaultIsNoticed`: for any nodes and nd pointers, and any number of faults
except for `next` and `prev`, which are covered for one. `Chain` says that a heap
holds two ends and the nodes between them, each linked to its neighbours;
`ChainSnapshot` that the helper's snapshot of a chain fails a check exactly when a
link it saved has changed. Each unit proof has one lemma (`…Decides`): on the
inputs its set-up builds, the assertions hold exactly when heap and result are
what the operation should leave, up to `Unwatched`. `ListInv` carries
`Given` – that the old heap is one such input – past call and faults, after which
`EachDecides` gives the three theorems. The swap of contents is excluded, as in
the run, because of the finding. Assumptions: `PointersDistinct`, `NdPtrIsPtr`,
`NodesAreApart`, `MaxFaultsIsNat`.

**`HashTable_proofs`** – for every set of keys, hash function and maximal size,
with any `RoundUp` satisfying `RoundUpIsUp`, if `SizeIsStored`.

- `TypeCorrect`, `Refinement` (to `KeySet`), `Precondition`. `TypeOK` is not
  inductive, and `KeySet` says nothing of a half-moved table; `IInv` adds
  `MovedSoFar`: during an expansion, the keys of the new table and of the entry in
  hand are exactly the keys of the old slots already passed. `SwapKeepsKeys`
  (placing one entry and taking up another preserves the union) is the step of
  `EmplaceStep`; at `ExpandDone` all slots are passed and the tables' keys agree.
  `SearchEnds` justifies the `CHOOSE` in `FindProbe`. `Precondition` rests on a
  second invariant about load limits and counts.
- `KeysAreFound`: the library's search, which gives up at the first entry that is
  closer to its home than the search has come, finds every key. The invariant is
  the order of Robin Hood hashing: from a slot to the next one, the distance of an
  entry from its home rises by at most one, and after a vacancy it is 0; for
  the entry in hand, that all slots from its home to the present one hold
  entries at least as far away.
- `CountIsExact`: taken slots are counted as a set; each step that takes a
  vacancy adds one element. That a vacancy is left, on which `KeysAreFound` and
  `LoopIsLinear` rest, is the same count against the load limit.
- `LoopIsLinear`: the slots walked by one `s_emplace_item` are distinct, and none
  was vacant.
- `ReturnsNewEntry`: the slot returned is the one in which the new entry, and
  not a displaced one, was put.
- `StubsCover`: every step of the original code is a step, or a stutter, of
  `HashTableStubs`. During an expansion the abstract table is that of the old
  slots until the step in which the stub expands.

**`ProofHeap_proofs`** – `TypeCorrect`, `BlocksAreOwnedOnce`, `MemoryIsSafe`,
`AllocationIsImplemented`: for every set of callers, addresses and bytes, every
maximal size and each of the four builds, if the allocator of
`proof_allocators.c` does not fail (`~AllocatorCanFail`; otherwise `MemoryIsSafe`
is false). None of the first three is inductive alone: that a copy stays inside
needs the owner's size to be at most the block's length, which needs that no
other caller has the block. `Sound` is the conjunction: `Shaped` (blocks are
bytes from 0), `OwnedOnce`, and `Sized` (a caller's size is at most its block's
length). Every way of allocating is one lemma about the heap and the block it
returns; the actions are built from those. `AllocationIsImplemented` is the
refinement: what each caller sees of its block is what `Allocation` promises,
step by step, from `Sound`.

**`Environment_proofs`**

- Fuzzing driver: `FuzzTypeCorrect`, `CopiesInside`, `BytesUsedOnce`: for every word,
  alignment and input length with `WordIsLarge` (sizes an allocation can have,
  and inputs, do not wrap when added). `IInv` adds that what was copied last
  lies before the cursor. `RoundsUp` is the arithmetic of
  `AWS_ALIGN_ROUND_UP`; `TakeKeeps` is the one lemma about every copy.
- Script: `ScriptTypeCorrect`, `VerdictIsRight`: with every set of locations, any
  number of lines and any pipe, the verdict is 0 exactly when what was printed
  says so. `ScriptInv` splits the set of lines printed: each is still in the pipe or has
  left its trace in the variables of the loop, and `LoopEnds` says that the pipe
  is empty when the loop has ended.
- Memory functions: `TypeCorrect`, `ResultCorrect`, `ReadsCorrect`: for
  memories of every size, all lengths and all unrollings, the result is the sign
  of the first difference and no byte outside the two areas is read. `EqualSoFar`
  (all bytes below `i` agree) is the loops' invariant. `BytesMoved`: for all
  lengths, starts and distances, overlapping or not, `memmove` puts each byte where it belongs and
  touches nothing else (see below). The invariant names, at each of the loops, the region
  already moved, says that the bytes still to be read are the old ones, and ties
  the counters to each other. It is proved for words of four bytes and of eight; with
  eight, it says of blocks that are at least four bytes apart, and with four bytes more
  behind each, what `BytesAreMoved` does.

**`UnitProofs_proofs`**

- Ring buffer, for every maximal size, all three builds and every set of request
  sizes: `RingNoFalseAlarm`, `OneFaultIsNoticed` (with at most one fault: two may hide each
  other), `RingPreconditionsHold`, `RingNextCallIsTried`, `RingWritesTellApart`.
  `UnitInv` says that the input is one a set-up gives (`Given`) and that, before
  any fault, ring, buffer and answer are an outcome the operation may have
  (`OutcomesOf`); `FaultInv` that after one fault they differ from one in one
  place (`OneWrong`). The theorems are then statements about the ring's
  arithmetic, one lemma for each unit proof. `RingWritesTellApart` has an invariant
  of its own, with no bound on faults: a struct that nobody wrote to holds what it held
  at the call, and before any fault the structs written to are those a correct operation
  writes (`WriteInv`).
- Stubs of the priority queue: `QueueTypeCorrect`, `QueueAssertionsHold`: the
  assertions in the three stubs hold for queues of every length. `QueueIsValid`
  (the two lists have the same length, if there are back pointers) is what makes
  them inductive. Together with `LengthsAsWithStubs` this is what the unit proofs
  of the queue may rely on. Assumption: `ConstantsAreNat`.
- Watched bytes: `OneByteStandsForAll`, `MatchMeansTheSameBytes`: saving one byte
  and looking at it after the call passes for every choice of the index exactly
  if no byte of the array has changed; likewise for two arrays that are
  compared. They hold for arrays of any length, at any place of a block that can be read; they
  do not depend on how a block is reached, so they serve all families.

**`HashIter_proofs`**

- Stubs: `TypeCorrect`, `DoneAssertionHolds`, `LimitIsRespected`: the assertion
  in the stub of done (`DoneAgreesWithStatus`) holds for tables of every size,
  whatever the callback deletes. The three are inductive only together: a
  deletion may decrement the limit because the slot is below it, which is
  because done has answered no.
- The library's loop: `TableIsKept`, `VisitsAreExact`: with tables of every size,
  whatever is deleted, the table stays valid and every entry is visited once.
  A deletion moves entries back by one; `LibInv` says which entries have been
  visited by slot and limit alone, so that an entry that a deletion moves across
  the end of the table – the case the limit is corrected for – is neither missed nor
  seen again.
- `LibraryIsCovered`: the stubs allow every step of the library's loop but those around a
  deletion, as `CoveredByStubs` states.

**`ByteBufJobs_proofs`** and **`Jobs_proofs`** – `ByteBufTypeCorrect`,
`ByteBufNoFalseAlarm`, `ByteBufNoFalseAlarm2`, `ByteBufOneFaultIsNoticed`,
`ByteBufFirstPassesToo`, `ByteBufNextCallIsTried`: of the
29 unit proofs of byte buffers and the 18 of their second generation, in SeaHorn's,
KLEE's and libFuzzer's builds, for every `MAX_BUFFER_SIZE` and `MAX_STRING_LEN`, every
set of bytes and every size_t that holds twice the maximum. The first three speak
of a correct library (`faults = 0`), as `NextCallIsTried` itself does; the next two of
one with at most one mistake (`faults <= 1`), which is what the runs bound `MaxFaults` to.

- The invariant `BufInv` joins two facts by `pc`. *Inputs*: from its set-up on, a
  unit proof has an input of its kind (`BufGiven`, one conjunct for each kind of
  set-up); `BufSetupGives` proves that from lemmas about the helpers: what
  `ValidBufs`, the strings, cursors and arrays of the three builds can be.
  *Results*: what a correct function leaves satisfies the assertions of both
  generations and is a buffer again whose bytes are there (`BufRight`);
  `OutcomesRight` proves that, one lemma for each function.
- `BufGiven` is needed because an assertion that compares a byte fails where that
  byte cannot be read: that a buffer's block holds all bytes up to its length is
  what the set-up alone can say.
- `OneByteStandsForAll` is not enough here, since most of these assertions
  compare a byte that was saved of one block with the same byte of another;
  `SavedMatches` and `BytesMatchIs` are the lemmas for that.
- `ShapedIsBuilt` gives `ByteBufNextCallIsTried`: for every capacity and
  length it names the choices (the random number, the length, the block) with which
  the helper of each tool builds that buffer. With libFuzzer, both are taken modulo a
  maximum, which is why the largest ones are exceptions.
- *Single mistakes*: `FaultInv` says, from the return of the function on, that what a
  correct one leaves (`want`) has the watched places right (`Wants`, a conjunct for
  each unit proof), and that the result differs from it by at most one mistake:
  nothing was done, one field, one byte, or the answer alone is wrong
  (`OneMistake`). It rests on `BufInv`. The lemmas `...Sees` then say, unit proof by
  unit proof, that a mistake at a watched place fails an assertion: a wrong byte because the byte
  compared may be any of them, a wrong answer because the fields tell success from failure.
- *Second generation*: `KindKept` names all that it overlooks, the allocator and, in
  advance, the pointer. If that is kept, both generations agree (the lemmas
  `First...`); if it is not, the one mistake is there and nowhere else (`OnlyKindIsWrong`).
- Assumptions: `BufMaximaMakeSense`.

**Only model-checked**:

- liveness (`EveryCallReturns`, `EveryLoopReturns`, `NeitherWaitsForEver`) and
  everything about `ENABLED`, which is beyond the prover;
- `TypeOK`, `NoFalseAlarm`, `NoFalseAlarm2`, `PassedMeansCorrect`, `FirstPassesToo` and
  `NextCallIsTried` of the families on `UnitProof` other than byte buffers,
  `SecondNoticesMore`, and `LengthsAsWithStubs`: the same case distinctions, for each of their unit proofs;
- what the paths of the sift functions of the queue (recursive functions over indices) and
  powers of two (arithmetic) come to for all inputs: both need an induction over data.

## 5. What is not modelled

- *Data of the harnesses*: item contents of linked lists, the bytes of ring
  buffers, the entries of hash tables in their unit proofs.
- *Values of the nd functions* in the fuzzing build: only which bytes make
  them. `nd_bool` compares an `int` of which one byte is written; both results
  are possible anyway. `nd_klee.c`, `nd_smack.c` and their like forward one
  choice per type and have no state.
- *Blocks left behind by `longjmp`*.
- *`sea_realloc`, `sea_strlen_unused`* and `s_safe_eq_check_override.c`, which
  nothing calls or links.
- *`AllocatorCanFail = TRUE`*: with it `NoMemoryError` fails in
  `s_realloc_allocator`; the build option is off by default and nothing in the
  repository claims otherwise, so it is recorded as a hazard.
- *The checked memory functions and other tools' variants in `bcmp.c`*: a builtin
  after an assertion.
- *The job `mem_realloc_unsafe`*: one call that is meant to fail.
- *The command line that `verify.py` builds, the configuration files, the
  experiment scripts, the build*: text and configuration without state.
- *The library*: external everywhere, and as the unit proofs use it.

## 6. Plan

Done: first the linked list (the snapshot is the device most harness families
rest on, in one form or another), the hash table code (the only sizeable
algorithm the repository carries), the allocators, the ring buffer, the fuzzing
driver; then the watched byte and the families of unit proofs that rest on it,
both generations, the stubs of queue and iterator, the memory functions and the
script.

What is left are proofs about the other families of unit proofs on
`UnitProof`, in the way of `ByteBufJobs_proofs`: a module like `ByteBufJobs` for one
family, what its helpers give, what a correct function leaves, the invariant of the
two, and then that of single mistakes; cursors first, which share the helpers of buffers.
