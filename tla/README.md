# Tiny.Library: models, checks and proofs

TLA+ models of the parts of Tiny.Library whose correctness depends on
interleavings, on memory that is handed from one owner to another, on
overlapping memory, or on long sequences of calls: the synchronization
primitives and the tagged-pointer stack, the buffered reader and writer, the
reference-counted strings of the C code, its memory move, and the functions by
which its RTTI copies and finalizes values.  TLC checks each on small instances;
TLAPS proves what matters most for every value of the constants.
Source paths below are relative to `src/`.

Contents: 1 the system, 2 the modules and how they correspond to the code,
3 the runs, bounds and fairness, 4 the proofs, 5 what the code does otherwise
than documented, 6 what is not modelled, 7 the plan.

## 1. The system

| component | state it keeps | operations | what makes it correct |
|---|---|---|---|
| `TSyncSpinlock` (Tiny.Types.pas 3626-3782) | one byte | TryEnter, Enter with and without timeout, Leave, Wait | at most one thread inside; refusals and Waits answer truly; no livelock |
| `TSyncLocker` (3787-4054) | one Integer: bit 0 the writer, the rest twice the number of readers | TryEnter/Enter/Leave for Read and Exclusive, Wait | a writer is alone; the count is exact; a marked writer is not overtaken and gets in |
| `TSyncSmallLocker` (4059-4364) | the same in one byte, 127 readers at most | the same | the same, and the byte never overflows although any number of threads may call |
| `TaggedPtr` (c/tiny.types.taggedimpl.inc) | pointer and counter; the link in the first word of each item | Push, PushCalcList, PushList, Pop, PopList, PopReversed, Change, Invalidate, Validate | every routine is one atomic operation of a stack; no item has two owners or is lost; no ABA |
| `TCachedWriter` (Tiny.Cache.Buffers.pas) | a memory block, pointers into it, position, limit, EOF | Write, WriteData, Flush, DirectWrite, Limit, EOF, destruction | the callback receives what was written, in order, completely, and within the limit |
| `TCachedReader` | the same and Finishing | Read, ReadData, Skip, Flush, DirectRead, Limit, EOF | the client receives the source's bytes in order; nothing behind the limit is fetched; the end is neither early nor missed |
| C strings (c/tiny.types.c, .h, .new86.c, .old86.c; c/rtti/tiny.rtti.c) | blocks with a counter and a length in front of their characters, shared by variables of several threads | Clear, Init, Reserve, SetLength of four string types; copy and finalize | the counter is the number of references; freed once; one variable's string does not change through another; characters and terminator fit |
| Memory moves (c/tiny.types.c 566-790) | the memory | TinyMove | the bytes arrive, overlapping or not; nothing else is touched |
| RTTI, values without references (c/rtti/tiny.rtti.c) | the memory | the copy functions by size, short strings, aggregates; clearing | the same, for every size there is a function for |
| RTTI, managed values (c/rtti/tiny.rtti.c) | variables, objects with a counter, the run-time library's table of weak references | copy and finalize of interfaces, counted objects, weak references, values, dynamic arrays; the tables init_library fills | counters are exact while destructors call back; nothing refers to a destroyed object; copies are equal |
| Invoke (c/rtti/tiny.invoke.c) | images of registers and stack | call thunks, intercepting thunks | the calling convention |
| File, memory, resource, re-buffers | a handle, or the memory itself | callbacks of the cached classes | the callback honours its contract |
| `TTinyObject` (Tiny.Types.pas 4401-5189) | a reference count with flags | AddRef, Release, DisposeOf, Free, preallocated creation | freed once, never while referenced |
| Thread buffer, `PreallocatedExecute` (4608-4711) | a per-thread block used like a stack | nested calls | what a call took is given back, also when it raises |
| `TTinyBuffer`, `TBuffer`, `TEntireBuffer` (5210-5818) | lists of memory chunks | Alloc, Increase, Reset, Clear | no overlap, no chunk lost |
| `TOSTime`, sync yield (3469-3621) | tick base, spin counter | Now, TickCount, Execute | time does not go back |
| Text conversion, cached text | tables, conversion contexts | per-character loops | agreement with the encodings |
| Generics, Marshalling, Namespace | collections | - | - |

How they interact.  The locks and the stack are shared memory between threads;
a thread that must wait spins and yields (`TSyncYield`) and nobody is woken by
anybody.  A cached reader or writer belongs to one thread; it calls out to a
*callback* that fills or takes its block, and to `OnProgress`, which may cancel
by returning False.  Both run in the middle of a call, so a call is cut
into steps there.  `Export` and `Import` couple a reader to a writer; a re-reader
or re-writer is a cached buffer whose callback is another cached buffer.
The C strings are the compiler's own: Pascal code holds the variables, the C
functions change them, and blocks go from thread to thread by copying.  The RTTI
functions call the run-time library (`IntfCopy`, `DynArrayClear`, ...) and
through it destructors, which are user code and call the same functions again;
most of them move their bytes with TinyMove.

What is hard.  Interleavings of single memory accesses (locks, stack, string
counters, where a plain store of 2 stands between two plain reads and the
atomic additions of others); the interesting schedules need three threads or an
item that leaves and comes back;
a call of the buffers that is cut short by an exception of the callback, by a
short answer, by a cancel, by the limit, or by several of these in one call; the
bookkeeping of six pointers over sequences of Flush, limits, reads around the
block and replaced blocks; memory moves whose areas overlap by less than the
unit of the move; releases that nest through destructors and reach the variable
the outermost release is busy with.  There is no persistence and so no crash
recovery.  The hazards are listed one by one in `PROJECT.json`; those the code
does not meet, or no modelled client runs into, have no property there but a note,
and section 5 describes them.

## 2. Modules

Every component has a module with its state, one action per operation or step,
and its properties; where what it promises is a machine of its own an abstract
module says so; an `MC` module
and its `.cfg` files instantiate it; a `Proofs` module holds the theorems.
Definitions named `X_Something` next to `X` are variants of `X` with one
plausible slip; they are used to see that each property can fail.

| component | model | abstract module | model checking | proofs |
|---|---|---|---|---|
| TSyncSpinlock | SyncSpinlock | Mutex | MCSpinlock | SyncSpinlockProofs |
| TSyncLocker | SyncLocker | RWLock | MCLocker | SyncLockerProofs |
| TSyncSmallLocker | SyncSmallLocker | RWLock | MCSmallLocker | SyncSmallLockerProofs |
| TaggedPtr | TaggedStack, TaggedStackHistory | AtomicStack | MCTaggedStack | TaggedStackProofs |
| TCachedWriter | CachedWriter | WriteStream | MCWriter | CachedWriterProofs |
| DirectWrite | DirectWriter (extends CachedWriter) | - | MCDirectWriter | CachedWriterProofs |
| TCachedReader | CachedReader | ReadStream | MCReader | CachedReaderProofs |
| C strings | RtlString | - | MCRtlString | RtlStringProofs |
| TinyMove | TinyMove | `Moved`, a reference definition | MCRttiBytes | RttiProofs |
| RTTI, without references | RttiBytes (extends TinyMove) | `Image`, the same | MCRttiBytes | RttiProofs |
| RTTI, managed values | RttiValues | - | MCRttiValues | RttiProofs |

### Locks

`value` is `FValue`; `pc[t]` says which memory access thread `t` performs next
and `call[t]` which entry point it is in.  Every access to `FValue` is an action
of its own: the test and the swap of `TryEnter`, the test, the addition and the
undoing of a reader, the test, the swap and the drain of a writer.  The
client-side behaviour is that of the library's contract: a thread calls while
it holds nothing and leaves what it was granted.  A timed call may give up after
any failed attempt; what the clock says is a nondeterministic choice, so the
results hold for every timeout.  Yielding changes nothing shared and is no step.

`SyncSpinlock` and `SyncSmallLocker` have a constant `CompareAndSwap`: TRUE is
the build that uses `AtomicCmpExchange`, FALSE the Intel assembler, which
compares, then exchanges unconditionally, and returns the result of the comparison.
All passing runs and theorems are about the first; see section 5 for the second.

### TaggedPtr

All routines share one shape - read the head, perhaps refuse it, prepare a new
one, swap, or start over - so the actions are those steps and `op[t]` says which
routine runs.  On Intel (`Counted`) the head is read by two loads, pointer then
counter, and the swap compares and replaces both; on ARM only the pointer takes
part.  A routine in assembler goes on with the head its failed swap
delivered, the others read again.  `owned[t]` is a ghost: what a
thread may touch.  `Change`, `Invalidate` and `PopList` hand the whole list to
the caller; `Validate` and `Change` may install a list or a null pointer.
Lists passed in have one or two items.  TaggedStackHistory adds a history variable,
the list a PopReversed detached, which no step reads.  Items are never unmapped, as the
routines require: `Pop` may read the link of an item that is no longer there.

### Cached buffers

Pointers are offsets from `FMemory.Data`; the bytes of the client (writer) or of
the source (reader) are numbered, so that order, loss and repetition can be read
off `out` and `got`.  An action is the part of a call up to the next place where
foreign code runs (callback or OnProgress).  `dropped` is a ghost:
the stream was broken off by an error, a cancel or `EOF := True`.

| code | writer | reader |
|---|---|---|
| Create, AfterConstruction | Init, AfterConstruction | Init, AfterConstruction |
| Write / Read that fits | Write | Read |
| WriteData / ReadData | WriteData | Read |
| OverflowWrite / OverflowRead | OverflowWrite, Direct, DirectFails, Remainder | OverflowRead, Direct, DirectFails, Remainder, ReadTail, ReadTailFails |
| Skip, OverflowSkip | - | Skip, OverflowSkip, SkipOn, SkipFails |
| Flush, DoFlush | CallFlush, FlushRaises, FlushAtEOF | CallFlush, Overrun, FlushRaises, FlushAtEOF, IdleFlush |
| DoWriterFlush / DoReaderFlush | Flush, FlushFails | Flush, FlushFails |
| SetLimit, SetEOF | SetLimit (Narrow), SetEOF | SetLimit, SetEOF |
| DirectWrite / DirectRead | DirectWrite, DirectWriteFails, DirectWriteGrows | DirectRead |
| BeforeDestruction | Destroy | - (frees the block) |

The callback of the writer may take fewer bytes than it is given or raise; that
of the reader may raise, and answers short exactly when its source is exhausted.
`onProgress` (writer) and `who` (reader) are constants of a behaviour, chosen in
`Init`: how OnProgress is used and what kind of client it is.
When a block is replaced, a pointer into the old one is seen from the
new one at a distance the allocator chose: `OldBlocks` are those distances.

### C strings

`kind` is the layout of a behaviour: a row of the table `Layout`, which says how
wide a character is, how wide Init takes it to be, and whether the counter is
tested before it is changed (the literals of the program's image have -1).  The C code has one
function per string type and compiler, all from the same macros; the model has
the functions by name (`AStrInit`, `UStrInit`, ...) over one definition each,
and the layout picks the rest.  The files for old and new 32-bit Delphi repeat
them.  Wide strings of Windows are never shared and have actions of their own (`WStr...`).

Every access to the counter of a block other threads can reach is a step:
`Drop` (is it 1?), `DropTest` (is it positive?), `Decrement`, `FreeMem`; in a
copy the test in `copy_string`, then `Share` (is it 1?), then `StoreTwo` or
`Increment`.  What a thread does to memory only it can reach belongs to
the step next to it.  `hand[t]` is the block whose reference `t` is giving back.
Allocation may fail at each place the code asks for memory.  After Init without
characters and after Reserve the caller writes them (`Fill`), and after
Reserve calls SetLength (`Cut`), as the Pascal units do.  A text is abstracted to who
wrote it and how many characters of it are defined.

### Memory moves and values

`TinyMove` and `RttiBytes`: a byte is the address it was at when the call began,
so that "moved" is a statement about addresses.  A step is one group of loads followed by
its stores: a small move is one, in a large move every 16-byte block is one, and
the tail with its two overlapping loads is one.  The pointers move past a run of
blocks before the run, as in the code, and the table of eight labels is the
number of blocks the run starts with.  `RttiBytes` extends TinyMove by the
functions of tiny.rtti.c that copy by other means.

`RttiValues`: a slot is a variable of a managed type, in a root or in an object;
`stack` holds the calls under way.  Giving back the last reference pushes the
destructor (user code, which may perform any operation of its own, which in
turn pushes) and the finalization of the fields.  `told` is the run-time
library's table of weak references.  The counting of interfaces and objects and
the destruction are the run-time library's and marked as external in `map`; that a
slot is forgotten before its reference is given back, and that the new reference is
counted and stored before the old one is released, is tiny.rtti.c's.
`CopyFunc` and `FinalFunc` are the tables `init_library` fills, by compiler and
by `WEAKINTFREF` and `WEAKINSTREF`.

## 3. Runs

Each run is one question.  All passing runs finish within two minutes.

| run | instance | shows |
|---|---|---|
| spinlock | 3 threads, all entry points | refinement of Mutex (so mutual exclusion), AnswersAreTrue, SomebodyEnters |
| locker | 3 threads, all entry points | Accounting, refinement of RWLock (so exclusivity), WriterStopsReaders, DrainEnds, SomebodyEnters |
| small_locker | 3 threads, room for 2 readers | Accounting, refinement of RWLock, RefusedForCause |
| stack | 2 threads, 2 items, all routines (PushCalcList for the single push), 3 swaps | OneOwner, NothingLost, ReversedInOrder, refinement of AtomicStack, EveryCallReturns |
| writer | Data 4, Additional 4, values of 1 and 3, blocks of 1, 2, 5, 9, limits 6 and 11, 16 bytes | OutputInOrder, PositionIsHonest, PointersStayInside, LimitKept, refinement of WriteStream |
| direct_patch | Data 3, Additional 3, 9 bytes, patches of 1 and 2 at 0..5 | OnlyPatchesChange |
| reader | Data 4, Additional 2, Previous 2, sources of 0, 3, 8, 11 bytes, four kinds of client | ReadInOrder, WindowIsTrue, PositionIsHonest, FillsInside, LimitKept, refinement of ReadStream, CallsReturn |
| strings | 2 threads, 3 variables, 2 blocks and a literal, 5 layouts | ReferencesAreTrue, TextFits, OthersKeepTheirText, CallsDeliver |
| move | sizes 0..70 and around 80, 144, 160, 176, 288; 15 distances; every function of RttiBytes for its sizes, short strings up to 30 | StaysInside, MovesBytes, ValuesCopied, Returns |
| values | 3 objects and an array that can refer to each other in a circle, 5 variables, Delphi with both kinds of weak references | CountsReferences, NothingDangles, CopiedValuesAreEqual |
| spinlock_intel, shortstring | as above | a documented promise the code does not keep: section 5 |

**Why the bounds are enough.**  Locks: two threads race for a word and a third
changes it in between; every comparison in the code is between one thread's
reading and the current word, and the proofs cover any number of threads.
`Full = 4` makes the reader limit reachable with three threads; the
code's value is 254.  Stack: with two items and three swaps every pair of routines overlaps in
every way, including an item that leaves and comes back with another link
beneath it; OneOwner and NothingLost are proved for any number of either.
Buffers: the paths of the code depend on how a
block compares with the margin, with `Size` and with multiples of `Size`, and on
whether a source or limit ends inside, at the end of, or one byte behind a window; with
`Size = 4` the chosen lengths hit every one of these, and 16 (11) bytes are four
(three) windows, so that the state after one flush is the start of the next.
Strings: two threads that release, copy and change one block while a second
variable of the first thread shares it are the races of the counters; ReferencesAreTrue is
proved for any number.  The lengths 40 and 100 are on both sides of
`HintRealloc`; 0 empties.  Moves: every size up to 70 is every row of the small
table; the larger ones are one byte around each place where the number of runs or the entry
of the last one changes; the distances are on both sides of 0, 1, 16, 128 and
the size; the theorems cover the rest.  Values: a release that nests three deep,
comes back to the object it started from, and finds a weak reference on the way.

The counters that are cut are `MaxCounter` (no call starts once that many swaps
succeeded) and `MaxBytes` (the client writes no more than that); both stop new
calls only, what runs goes on to its end.  Symmetry is over threads (spinlock_intel)
and over blocks and the variables of one thread (strings), in runs without liveness.

**Deadlock.**  Checked for the locks, the strings, the moves and the values:
somebody can always go on.  The stack stops at `MaxCounter`; a writer that was
closed and a reader at its end have nothing left to do; these runs do not check it.

**Fairness.**  `WF(CallStep(t))` and `WF(Leave(t))` for the locks: a preemptive
scheduler runs every thread that is inside the lock's code, and a holder leaves.
Nobody is obliged to call.  This is weak fairness per thread and gives what spin
locks can give - somebody enters - not freedom from starvation.
`WF(RoutineStep(t))` for the stack, where `MaxCounter` makes the number of
successful swaps of others finite: EveryCallReturns is lock freedom, a call is
held up only by successes of others.  `WF(Steps)` for the reader: one thread,
whose callback returns.  `WF(Next)` for the moves: one thread that runs.

**Restrictions of the checked clients**, each of which stands for something the
code does not support (section 5): the writer's client stops after an error and
does not raise a limit that already cut the window; no client pokes bytes behind
Overflow; the client of `direct_patch` writes only to what it already wrote;
the reader's Skip ends at the end of a window when it crosses one; a client
that flushes with a rest sets no limit, and Position is not asserted for it;
what DirectRead finds is asserted for clients that read less than a block at a time.
Two threads do not copy from one string variable at the same time
(`SharedReads = FALSE`); a variable is changed by its own thread, and not
while another copies from it.  Short strings have up to 30 characters.  CallsDeliver
leaves out WStrSetLength.  No property is about what `init_data` clears (RttiBytes
has the step: it touches nothing outside the value, and ends).

## 4. Proofs

Everything below is checked by TLAPS.  The assumptions are the named `ASSUME`s of
the modules, which the runs evaluate, and where a theorem states it the build
(`CompareAndSwap`, `Counted`, `Supported`), an Additional area that is not empty (`Extra > 0`),
or a restriction of the clients or values (`~SharedReads`, `ShortStringsAreShort`).
The reader's clients that flush with a rest set no limit (ClientAssumption).

* **SyncSpinlockProofs.**  TypeOK; for the compare-and-swap build mutual
  exclusion, that the byte is 1 exactly while somebody is inside, and the
  refinement of Mutex.  The last two facts are inductive together:
  exclusion alone is not, because a thread in front of its swap says nothing.
  From them too: AnswersAreTrue, for every step of every thread.
* **SyncLockerProofs**, any finite set of threads.  The invariant is TypeOK,
  Accounting (the word is twice the number of counted readers plus one for a
  marked writer), at most one marked writer, that the value a writer compares
  with is even, and Exclusivity.  Exclusivity is not inductive alone: a writer
  leaves its drain because the word says so, which is an argument about cardinalities.  From it
  follow Exclusivity, Accounting, WriterStopsReaders (as an action property)
  and the refinement of RWLock.
* **SyncSmallLockerProofs**, any finite set of threads, any even limit,
  assuming `CompareAndSwap`.  In addition SeenRoom: a reader in front of
  its swap saw a free place.  With it the byte never wraps, although the
  test and the addition are apart.  Also RefusedForCause and the refinement.
* **TaggedStackProofs**, any threads, any finite set of items, `Counted`.  The
  invariant says that the items nobody owns form the list from the head
  (StackInv); that a list about to be given away is the caller's and linked (ListInv);
  what a thread will install (SwapInv); that a detached list being
  reversed is closed (DetachedInv); and, against ABA, that a thread never saw a
  counter newer than the head's and, if what it saw is the head, the link it
  read is still the link (HeadInv) - links of items in the stack do not
  change and the counter only grows.  The counter has no width there.
  From it: TypeOK, OneOwner, NothingLost, PopInstallsTheLink, and the refinement
  of AtomicStack.  There the list is `Chain(head.value)`, a recursive function over
  the links; ChainIsList shows that it finds the list StackInv speaks of, by the
  smallest step at which two such walks could differ (Smallest, from the library's
  well-founded orderings).  SwapList says for every routine what its swap
  makes of that list, SwapAtomic that this is the operation of the abstract stack, and
  OwnLinks that every other step writes only links of items the thread owns and so
  leaves the list alone.  ReversedInOrder is about the history variable: while a thread
  reverses, the first j items of the list it took are turned and the others are as they
  were (HistoryInv), and nobody else writes a link of an item the thread owns.
* **CachedWriterProofs**, any sizes, clients and callbacks.  The invariant has
  two halves.  Frame says where everything is: Numbers (types), Window (how the pointers,
  limit and EOF hang together), Place (what holds at each step of a call, for example
  that the whole-page loop starts with an empty block), Broken (where an aborted call
  leaves the object) and Counted (how many bytes went where).  Data says what the bytes
  are: what is buffered continues what was delivered.  From them: OutputInOrder,
  PositionIsHonest, PointersStayInside (assuming an Additional area of at least a byte),
  LimitKept, that a writer closed in order has delivered everything (ClosedIsDelivered),
  and the refinement of WriteStream.  With DirectWrite the bytes are no longer numbered in
  order, and Data is replaced by Order(P) for the set P of patches: each position holds
  its last patch, or the byte written there.  DirectWrite keeps Frame, so that
  PositionIsHonest and ClosedIsDelivered hold with it, and OnlyPatchesChange follows from
  Order.  PatchAssumption: patches are told apart from written bytes.
* **CachedReaderProofs**, any sizes, sources, callbacks and clients.  The invariant is
  Held and Place.  Window: the pointers are ordered, a window that goes on is a full
  block, an ended one is empty.  Feed: what the callback returned was received or waits
  in the window, to the byte - more is there only where SetLimit cut the window - and the
  last window ends at the limit or at the end of the source.  Right: the bytes received
  are the source's, those of the window come next, and a fill ends inside of its block.
  Place: loops enter Flush with an empty window, Skip passes over whole windows, a
  running call stays within the limit.  A client that flushes with a rest sets no limit
  (section 3); LimitKept says nothing of it.  Everything the run asks of the reader but its liveness follows:
  ReadInOrder, WindowIsTrue, PositionIsHonest, FillsInside, LimitKept, the refinement
  of ReadStream.  TLC checked the invariant first, on the run's instance and one with a
  client that combines rests, places and cancels (300 750 states).
* **RttiProofs, moves**, any memory, sizes and distances.  The invariant says where
  the pointers are (count bytes from the end they run to, the number of blocks still to come
  ahead of themselves), that the direction fits the overlap (forward with the target
  below the source or clear of it, backward with it above), how many bytes are
  left at each place (more than 32 before a run, 17 to 32 in the tail), and which
  part of the target has its bytes - everything else being untouched, which is
  what makes the next load right.  MovesBytes alone says nothing before the end.
  Two lemmas carry the arithmetic: the pieces of a small move are the whole, row by
  row, and the last run is entered at one of the eight labels and leaves 17 to 32
  bytes.  From it: StaysInside, MovesBytes, TypeOK.  The same three, and ValuesCopied,
  hold of the functions of RttiBytes, of which each does its work in one step or
  calls TinyMove and stores a length afterwards.  They are assumed to be called for the
  sizes the library has a function for and for values that do not overlap
  (ValuesAssumption), and ValuesCopied for short strings of less than 31 characters: it is
  false for longer ones (section 5).
* **RtlStringProofs**, any threads, variables, blocks and lengths, assuming
  `~SharedReads` (with it TLC finds a lost increment, section 5).  The counter
  of every block is the number of variables and hands that refer to it.  That is not inductive
  alone: the plain store of 2 is right because of Lends (between the test and the store
  the counter is still 1, because the variable copied from is not changed and not copied
  from by another), the free without a decrement because of Gives (a
  thread about to free has the only reference, or has just taken the last one away),
  literals because their counters stay at -1 (LiteralsStay), wide
  strings because each has one variable (WideAlone).  `Moves` and `KeepsCounts` do the counting,
  once: when one variable and one hand change, the references to a block
  change by what the two have to do with it.  `Relied` shows that no step of one thread touches a
  counter another relies on.  From the invariant: ReferencesAreTrue, TypeOK.
  TextFits needs a second invariant, Room, on top of it: every block has room for
  the length it states and every call that may still allocate asks for characters
  as wide as its terminator, which is false for UStr_new86 only and assumed away there.
  OthersKeepTheirText needs Private: the block a caller is about to write into is in his
  variable and nowhere else, and stays so while others take and drop
  references, because none of them can reach it.  The property excepts Init for the length
  the string has, which writes into the block whoever shares it (section 5).
  `Tidy` says what one step of a call may change, once for all operations.
  CallsDeliver needs AllKept on top: how far each call has got with its result
  at each place (`At`), while the block it replaced is still to be given back.  TLC
  checked Private and AllKept first, on the run's instance (495 847 states).

* **RttiProofs, managed values**, any objects, fields, variables and data, destructors that do any
  operation at any time.  References are in two places, slots and frames of the stack,
  and Counted adds them up: the counter of a living object is the number of live strong
  slots that refer to it and of calls under way that will give it back.  A slot is live
  in a root, in a living object, or in a dying one until it is finalized.  That is not
  inductive alone.  Neat: an object is destroyed by one frame only, and a destructor
  stands right in front of it while no field is finalized yet, so that popping one of
  them makes no slot live or dead twice.  Standing: what a frame is about to give back
  is alive and what it destroys is dying, so that no counter is touched after the last
  release.  Known: a live slot refers to living objects only, and the table of weak
  references knows it if it is weak, which is why the last release finds them all; that
  no strong slot is left then is the count itself.  Kinds: a slot refers to objects of
  its own type, so that the copy and final functions agree whether it counts.  The lemmas
  say once what an assignment to a slot (`Assigns`, `AssignsWeak`) and a change of the
  top frame (`Pushing`, `ConsCount`) do to the sums.  From it: CountsReferences and
  NothingDangles.  `Supported` leaves out class instances where the compiler does not count
  them (a variable is a plain pointer there and nothing is promised of it), and compilers
  with weak interfaces but without weak objects, for which NothingDangles is false (section 5).
  FieldsAssumption: a field belongs to one object.  TLC checked the invariant first, on
  the run's instance (138 030 states).  CopiedValuesAreEqual needs only that every value
  has a type and a buffer, and holds for every compiler.

Only model-checked: the liveness properties (SomebodyEnters, DrainEnds,
EveryCallReturns, Returns and the reader's CallsReturn: out of the prover's reach).
Every safety property of a passing run is a theorem.

## 5. What the code does otherwise than documented

Two disagreements are runs that must find a counterexample:

1. `spinlock_intel` - `TSyncSpinlock.TryEnter` for Intel (Tiny.Types.pas
   3642-3662) lets two threads in.  `SmallLockerCAS` (4059-4080) has the same
   shape, with the same effect: with `CompareAndSwap = FALSE` exclusivity of
   SyncSmallLocker fails.
2. `shortstring` - `copy_shortstring` (c/rtti/tiny.rtti.c 762) goes back to the
   first byte by `length & sizeof(data16)` and not by the bytes it moved in 16-byte
   pieces: the length is stored over the character at offset 32, 64,
   96, ... instead.  With 31 characters the byte hit lies behind them, in the unused
   part of the value or, if 31 is the most it can hold, outside of it; from 32 on a
   character is lost, and a string that is cut keeps the length of its source.  In the
   run 33 characters are copied into a `string[50]`: the last but one becomes the length.

Further observations, made while modelling.  Those about pointers, limits,
positions, counters and texts are what TLC reports when the matching restriction
of section 3 is lifted; the others were read off the code.

* TaggedPtr on ARM compares the pointer only: with `Counted = FALSE` and three
  items OneOwner fails (ABA).
* TaggedPtr: the counter of the Intel build wraps after 2^32 (2^64) swaps; a thread
  suspended for exactly that many would succeed with an old head (48).
* Writer: a DirectWrite behind the window stores its bytes too low by their own
  count and loses earlier patches above Current (2298-2316).
* Reader: a Skip across windows passes over the whole last window (2150).
* Writer: bytes poked behind Overflow through `Current` and followed by a large
  Write come out after its pages (2345), and are lost when the object is
  destroyed next, since BeforeDestruction flushes once (696).
* Writer: raising a limit does not restore FOverflow (783); the next Flush takes
  the shortened window for the last one.
* Writer: pages written around the buffer move the position without
  cutting FOverflow, so that values are accepted beyond the limit and the
  next Flush raises (2371).  LimitKept holds: they are not delivered.
* Writer: after the Flush inside OverflowWrite FEOF is not tested; a cancel
  there does not stop the pages of the same block (2348).
* Without an Additional area (fixed memory writer) FOverflow is where the test
  of DoFlush does not allow it: every Flush raises (828).
* A DirectWrite ahead of Current makes Position too small after the next Flush,
  because FPositionBase is computed before Current is moved up to FHighWritten (865).
* After DoDirectFollowingWrite FStart points into the freed block; a further
  DirectWrite computes its window from it (2304).
* Reader: after a Flush with a rest, Position is too small by the rest (865);
  with a limit, that many bytes behind it are fetched (972); when the
  rest needs a larger block, the limit is computed from a pointer into the old
  one (972).
* Reader: after a Read around the buffer, DirectRead finds old bytes cached
  under new positions (1616).  Before the first Flush, DirectRead raises.
  OverflowRead calls the callback again after a short answer.
* Locks: TryEnterExclusive and the timed EnterExclusive wait for
  the readers to leave without looking at their timeout; readers that are about
  to undo their addition make Wait and Locked report a busy lock; the locks are not
  reentrant and a reader that asks for Exclusive waits for itself.
* `TCachedMemoryWriter.CreateTemporary` never sets FTemporary (3048).
* Strings: two threads that copy from one variable at the same time both read a
  counter of 1 and both store 2 (c/tiny.types.h 464): three references, a
  counter of 2, and a block freed in use.  `SharedReads = TRUE` shows it.
* Strings: Init with the length the string has writes into the block without
  looking at its counter; another variable that shares it sees the new
  characters (c/tiny.types.c 1005, called so by Tiny.Text.pas 17913).  No comment of the
  code rules it out; OthersKeepTheirText excepts these steps and holds of all others.
* Strings: `UStrInit` of the new 32-bit Delphi (c/tiny.types.new86.c 155) sizes
  the block by one byte per character and terminates it as two.  `TextFits` fails in
  the configuration `MCRtlStringNew86.cfg`.
* Strings: `WStrSetLength` (c/tiny.types.c 891-924) raises an error when the
  block was resized and none when it could not be.
* RTTI: without WEAKINSTREF `init_library` puts the plain pointer copy into the
  entry of weak interfaces (c/rtti/tiny.rtti.c 1542) and not into that of weak
  objects; such a reference is not told to the run-time library and dangles.
  NothingDangles fails with `WEAKINTFREF = TRUE`, `WEAKINSTREF = FALSE`.
* RTTI: for FreePascal's dynamic arrays (c/rtti/tiny.rtti.c 949-1030) the test for a
  constant array reads the counter where the elements are and not in the header
  in front of them, and the new block is one header too far, since `rtl_rec_alloc`
  has already passed it.
* RTTI: on POSIX Delphi wide strings are copied as full dynamic arrays (1517) and
  finalized as plain ones (1354).
* `tm_to_timestamp` adds up its seconds in 32 bits (c/tiny.types.c 1933), which end in 2038.

## 6. What is not modelled

The components table of `PROJECT.json` gives the reason for each.  In short:

* Invoke prepares an image of registers and stack and moves it to the machine
  and back in assembler; what would have to be right is the calling convention,
  which is not in the repository.
* TTinyObject, the thread buffer, the chunked buffers, TOSTime, Import/Export and
  the file and memory callbacks are Pascal code around allocators and the
  operating system; the plan lists what of them is worth a model.
* Of the RTTI: variants and methods (handed to the run-time library),
  argument arrays, the copies FreePascal makes of constant arrays, and the
  reading of the compiler's type descriptions.
* Of the C code: string lengths, the call with a preallocated buffer, time
  stamps: no state is kept.
* Text conversion and cached text are tables and per-character loops without a protocol; the
  demos, code generators, utilities and third-party sources are not the library.
* Of the modelled classes: the timing of the yields; the overloads of WriteData
  and ReadData for strings, arrays and variants, which are a length and a block;
  32-bit overflow of sizes and of the locks' and strings' counters.

## 7. The plan

Done: locks, stack, buffers, strings, moves and values, as described.  Next, in this order:

1. `TinyObject`: AddRef/Release (plain arithmetic while the count is the mark
   of one owner, interlocked otherwise: Tiny.Types.pas 4419), DisposeOf and Free,
   AddRef/Release pairs inside a destructor (5088); properties: freed once, no
   release after the free, memory of a disposed object kept until the last reference.
2. `BufferPipe`: CachedReader and CachedWriter composed through Export/Import
   and the re-buffers; abstract specification: the composition of ReadStream and WriteStream.
3. `PreallocatedExecute` and the thread buffer: nested calls, raising calls,
   a buffer that is missing; property: what a call took is given back.
4. A hash table and the sort of Generics against a reference definition.
