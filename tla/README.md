# upp: models and proofs

`upp` is a collection of C++20 libraries: containers and value types (`core`),
hierarchical logging (`logs`), coroutine helpers (`coro`), files (`fs`), Linux
wrappers (`linux`), an FFmpeg wrapper (`codec`) and matrices (`math`). This
directory holds TLA+ models of the parts that have state worth reasoning about,
the TLC configurations that check them on small instances, and TLAPS proofs of
what matters most, for every instance. `PROJECT.json` maps every definition to
the lines it models and lists the hazards each property is for.

Run everything from this directory:

    tlc -workers 2 -config ContextsSorted.cfg MCContexts.tla
    tlapm ContextsProofs.tla

## 1. Inventory

| part | state | operations | what is hard | what makes it correct |
|---|---|---|---|---|
| **logs**: contexts (`logs.cpp`, `contextutils.hpp`, `logs.hpp`) | one doubly linked list of all contexts (`m_next`, `m_prev`), `m_parent`, `m_lvl`, `m_inherited_level`, `g_organized`, all under `g_mut`; the levels are atomics | constructor, destructor, `set_level` with `organize` and `sync_inherited_log_levels`, `effective_level` | an in-place sort of the list with pointers into it; a recursion that returns list positions through its levels; static contexts constructed and destroyed in any order | the list is complete and inverse at all times and in preorder once sorted; a level reaches exactly the descendants not shielded by a level of their own; nothing dangles |
| **logs**: logging (`UPP_LOG`, `push_log`, default consumer) | `g_consumer` (atomic) | the level test, `push_log`, the walk to the root that composes the context path, one line of output, `set_consumer`, `quick_init` | runs with no lock while a `set_level` changes the two atomics it reads; relaxed loads; walks parent pointers | the level compared with is one the context had; logging never waits for the mutex; the walk meets no null parent; the line names its context and leaves the terminal as it was |
| **core**: `queue` | chain of fixed size chunks, an index into the first and one into the last | `push`, `pop`, `empty`, `size`, destructor | the boundary of a chunk; copies that throw | first in, first out; nothing is leaked or used after it was freed |
| **core**: `ring_buffer`, `flexible`, `fam` | capacity, offset, count, slots in one block | `push` (overwrites the oldest when full), `pop`, `front`, moves | wrap around; the layout of the block | the newest `capacity` elements, in order; every element is destroyed once |
| **core**: `intrusive_list` | `m_front`, `m_back`, links inside the nodes | `push_back`, `pop_front`, iteration | emptying the list; nodes that are in no list any more | first in, first out |
| **core**: `guard`, `nop_mutex`, `cleanup` | a value behind a mutex; an armed callback | lock, move and destroy a lock; run on scope exit | ownership across moves; exceptions inside exceptions | mutual exclusion; the callback runs exactly if it should |
| **core**: value types (`maybe`, `bitset`, `bitmask`, `enum_*`, `int`, `frac`) | a value | pure operations | index arithmetic at boundaries | each equals its mathematical definition |
| **core**: strings and helpers (`cstr`, `strlit`, `template_str`, `terminal`, `matcher`) | views of characters, references to arguments | construction, conversion, comparison | null characters; arguments that change | what is read is what was meant |
| **codec**: `demuxer` | FFmpeg format context, I/O context, position in a memory buffer | open, read and seek callbacks, move, close | callbacks from FFmpeg with a pointer back into the object; partial failure of a constructor | positions are those of a file; every resource is freed once |
| **codec**: `decoder`, `frame`, `packet`, `hwaccel`, `decode_image` | codec context; queues inside FFmpeg; reference counts | send, receive, copy, move, the range of accelerators | the send/receive protocol (EAGAIN, EOF); copies that share or duplicate | every frame comes out, once; every reference is given back |
| **coro**: `asio_scheduler`, `run`, `detach`, `yield` | an `io_context` and worker threads; a run loop and a scope | post, resume, complete | handing a coroutine to another thread | what is posted is run; the waiting thread wakes |
| **fs**: `file`, `tmpdir` | an owned descriptor, an owned directory | open, move, seek, read, write, remove on destruction | ownership under moves; other processes; short reads | closed and removed exactly once; a read returns the whole rest |
| **linux**: `pipe`, `signal_listener`, `dynamic_library` | descriptors, the signal mask of threads, a handle | create, wait, look up, close | the mask is per thread; error messages are per thread | a signal is delivered to the listener only; a failure tells its own reason |
| **math**: matrices, views | an array and its extents | element access, sums, products, rows and columns | index arithmetic; operands that are the same object | the definitions of linear algebra |

The parts meet in few places. A logging call reads, without a lock, what
`set_level` writes under `g_mut`, and walks the `m_parent` pointers that only
constructors and destructors change: `Logging` composes with `Contexts` for
this. `decode_image` and the player of the examples drive a demuxer and a
decoder: `Decoding` is their composition. `ring_buffer` allocates its block with
`flexible`, whose layout is module `Layout`; `pipe` returns two `file`s, which
are objects of `Handles`. The rest are independent libraries.

The hazards of this code are in `PROJECT.json` at the line where they bite, the
lesser ones in section 4.

## 2. The modules

| module | models |
|---|---|
| `Contexts` | the list of contexts: constructor, destructor, `set_level` one pointer step at a time |
| `LevelTree` | what `Contexts` promises: a tree whose levels flow down, with no list |
| `Logging` | logging threads over `Contexts` |
| `LogLine` | the line the default consumer writes for one message |
| `ChunkQueue` | `upp::experimental::queue`: chunks, indices, throwing copies |
| `Fifo` | what a queue, and an intrusive list, promise |
| `RingBuffer` | `ring_buffer`: header, slots, blocks and their owners |
| `Recent` | what a ring buffer promises: the newest elements, in order |
| `IntrusiveList` | `intrusive_list` with the links inside the nodes |
| `Layout` | the blocks of `flexible` and `fam`: header, padding, elements |
| `Guard` | `basic_guard` and `raii_lock` between threads that update the value |
| `Cleanup` | `cleanup`, `cleanup_throw`, `cleanup_success` on a stack with exceptions |
| `Bits` | `bitset`, `enum_set`, `enum_array`, `bitmask`, `count_set_bits` |
| `Values` | `maybe` and `frac` |
| `Text` | `cstr`, `strlit`, `template_str`, escape codes |
| `Matcher` | `any_of`, `all_of`, `none_of` with references to variables |
| `Handles` | the owning classes `file`, `tmpdir`, `dynamic_library`, `packet`, `decoder`, `frame`, `hwaccel`, and `pipe` |
| `FileIO` | seeking, reading and writing, `read_bin` as system calls among other processes |
| `Symbols` | loading a library, looking up symbols, `dlerror` |
| `Signals` | `signal_listener`, masks, threads and pending signals |
| `Demux` | constructors, moves and the I/O callbacks of `demuxer` |
| `Decoding` | the loops of `decode_image` and of the player over demuxer and decoder |
| `HwRange` | the range over hardware accelerators |
| `AsioRun` | `run` on an `asio_scheduler` with worker threads |
| `Detach` | `detach` and `yield` in a task on a run loop |
| `Matrix` | `mat` and `static_mat` with their operators and views |
| `MCContexts`, `MCLogging`, `MCContainers`, `MCResources`, `MCThreads`, `MCValues` | instances for TLC |
| `ContextsProofs`, `ContextsOrderProofs`, `LoggingProofs`, `ContainersProofs`, `ResourcesProofs`, `ThreadsProofs`, `GuardProofs`, `ValuesProofs` | theorems and proofs |

`MCContainers`, `MCResources`, `MCThreads` and `MCValues` each put several
independent components into one instance. Those share no state: `subject` is
chosen in the initial state and says which component the behaviour is about, and
the variables of the others stay as they are. So nothing is interleaved that the
code does not interleave, and the number of states is a sum, not a product.

A definition `XMutant` next to `X` is a plausible mistake in `X`, used to show
that some property depends on `X`.

### Contexts

A context is `Root` or a member of `Ctx`. `life` says whether its constructor or
destructor has run, `parent`, `next`, `prev`, `lvl` and `inh` are the members of
`context_base`, `organized` is `g_organized`. Levels are numbers up to
`MaxLevel`; `Unset` is the one after, as in the enumeration.

Constructors and destructors run under `g_mut` from beginning to end and change
nothing a logger reads of an existing context, so `Construct` and `Destroy` are
one step each. `set_level` releases the mutex at its end only, but loggers read
the levels while it runs, and its loops are the delicate part, so it is a
sequence of steps with `pc` as program counter ("idle": the mutex is free):

- `SetLevel` is the call up to its first loop; if the list was never sorted it
  starts `organize`: `PassOver`, `KeepInPlace` and `Relocate` are the three ways
  through an iteration of `organize_next_child`, `NextParent` is the outer loop.
- `NextChild` and `Advance` are the loop of `set_level` over the children.
- `Shielded`, `Inherit`, `FindSibling` and `Return` are
  `sync_inherited_log_levels` and `find_next_sibling`. The C++ recursion needs no
  stack in the model: the while loop that called for `branch` is that of the
  parent of `branch`, so `frame` names the branch whose loop is running and
  `parent[frame]` is where it returns to. `frame = target` means the recursion
  has returned to `set_level`.

A null pointer that the code dereferences ends in `pc = "segv"`, a failing
`assert` (with `Debug`) in `pc = "aborted"`. `touched` is a history variable: the
contexts that the running call has written to.

What the program may do is a set of constants, because the documentation leaves
it open. `Parents[c]` are the contexts `c` may be declared under and `Settable`
the ones whose level is set. A parent may be a static object not constructed yet
as long as the list is unsorted: constructing a child under it reads nothing of
it then (`logs.cpp:142-154`); afterwards it would read its level and its links.
With `StaticsFirst` the program calls `set_level` for the first time when every
parent is constructed, with `ChildrenFirst` it destroys children before their
parents, as `logs.hpp:48` recommends. A destroyed context may be constructed
again (the same address used again) when no living context points at it.

`LevelTree` is the same tree with no list: `SetLevel` starts a call, `HandDown`
gives the level to a context whose parent has it from this call and which has no
level of its own, `Finish` ends the call. How many contexts a call reaches is left
open: `LevelSpreads` of `Contexts` says that. `Promise == INSTANCE LevelTree`
maps the variables of the same names.

### Logging

A thread in a call of `UPP_LOG` is at one of the places `lvl`, `inh` (the two
loads of `effective_level`), `compare`, `push`, `path` or `done`. The loads are
relaxed, so each returns any value the variable was given since the context was
constructed (`lvlWrites`, `inhWrites`); this allows more than the memory model
does, so what is proved of it holds for every build. `fresh` records whether the
loads happened to return the latest values. `Push` is `push_log` and the default
consumer up to its path, `WalkUp` one step of `ctx_buf_size` or
`context_path_recurse`: both walk up the same pointers, and one walk stands for
the two. `ContextStep` is any step of `Contexts`, except that no program may
destroy a context whose levels or name a running call reads (`Busy`).

The root is never destroyed in the model: its destructor returns at once
(`logs.cpp:163-166`), and it is initialised at compile time.

What the line looks like is module `LogLine`: `Consume` builds the path, the
colours and the text as the consumer does, and a small terminal interprets them.
One call of `fputs` writes a line, so lines of several threads do not mix.

### Containers

`ChunkQueue`: `heap`, `next` and `data` are the memory of the chunks, `m_front`,
`m_back`, `m_idx_front`, `m_idx_end` the members. An address is an element of
`Chunk` and may be handed out again once it is freed; when none is left the
allocation fails, which changes nothing in the code either. `Push` and `Pop` are
the whole functions; `PushThrows` is `push` with a copy constructor that throws,
after the chunk it needed was linked in. `QueueDestroy` is the destructor, `Built`
the end of the list constructor. The index type (8 or 16 bits) holds
`chunk_elements` itself in every instantiation, so indices do not wrap. `misused`
records an access to freed memory and an element destroyed twice or overwritten
alive. `Fifo` is the sequence of elements. The refinement mapping reads it off
the slots that hold a living element, chunk by chunk, and not off the indices,
so that a wrong index shows.

`RingBuffer`: a buffer is a pointer to a block with `header` (capacity, offset,
count) and `slots`. A push computes its slot with `%` and is the only operation
that wraps the offset; `corrupted` records an access outside the slots, and an
element destroyed twice or built on top of a living one. `Recent` is the sequence
of at most `room` elements; the mapping reads it off the slots from the offset
on, for each block, so a move of a buffer must be a stutter of it.

`IntrusiveList`: `link` belongs to the nodes and starts arbitrary, since nodes may
be built without a value for it; popped nodes keep it and take it along into
another list. `Members` follows the links as iteration does.

`Layout` has every pair of types for header and elements whose sizes are
multiples of their alignments, and puts a block at the addresses an allocator may
return.

### Resources

`Handles` has one set of actions for seven classes, because they are written from
one pattern and differ in few decisions: whether the default constructor acquires,
whether a failure throws, whether a move assignment destroys its target, what the
destructor leaves behind, what a copy is. A class is the record of those
decisions, read off its source; a behaviour is about objects of one class. `held`
counts the open references to a resource, so that a double close or a leak is a
wrong number; a resource that is closed may be handed out again at once, as
descriptors are. `picture` and `users` are the reference counted pictures frames
show.

`FileIO` splits `read_bin` (and `read_text`, the same lines) into its system
calls, each of which may fail, `read()` too. `Disturb` is another process that
appends or truncates in between; `quiet` remembers whether it did. The whole rest is
promised to undisturbed calls only: when the file shrinks between `seek_end` and the
read, the buffer keeps its zeros (`file.cpp:71`).

`Demux`: `contexts`, `ios` and `buffers` are what FFmpeg has allocated, `pb` and
`opaque` the pointers through which a callback reaches the demuxer again.
`OpenBuffer` is the delegating constructor with each way it may end. `position` is
where FFmpeg takes the callbacks to be, computed from what they return; the
offset of the object is the other side.

`Decoding`: the codec is FFmpeg's: it holds frames back until it has more than
`delay`, and may refuse a packet while frames wait. `SendPacket` and
`ReceiveFrame` are `operator<<` and `operator>>`.

`Symbols`: `dlmessage` is what `dlerror()` would say, about whatever failed last;
`Distract` is other code of the thread that fails and does not ask. An exception gets
the message that is there when it is constructed, which may be none: a symbol that
is found and whose value is null makes `raw_symbol` construct a `std::runtime_error` from
a null pointer (`undefined`), and the behaviour ends. `HwRange`: the iterator over what a build of
FFmpeg supports, any subset of the known types.

### Threads

`Guard`: each thread has variables (`Slot`) for locks; `m_parent` is the guard a
lock has, or null after a move. A thread reads the value behind a lock and writes
it later (`Load`, `Store`), between which it may move the lock around and the
others run. A lock that is assigned to itself unlocks its mutex and claims it
still (`AssignsItself`).

`Cleanup`: `scopes` is the stack of cleanups, `try` blocks and callbacks that run
during unwinding; `Uncaught` is `std::uncaught_exceptions()`.

`AsioRun`: `posted` is the queue of the `io_context`, which stops when it has neither a
handler nor a work guard. `keep` is whether the program holds a guard: the run explores
programs without one, as the tests of `coro/test/asio_scheduler.cpp` are, and with one.
`Call` is the handler: it calls the work and wakes the
client. `Detach`: one thread with a run loop; a task spawns jobs and waits for
its scope to be empty. `Signals`: a mask belongs to a thread and is inherited;
`Deliver` is the default action in a thread that does not block a pending signal.

### Values

`Bits`, `Values`, `Text`, `Matcher` and `Matrix` follow one object (or two that are
operands of each other) through sequences of operations, and keep next to the
members what the program meant: the set of bits, the number, the text, the
matrix. The properties compare the two. Bytes are sets of bits, strings sequences
of model values with the null character at the end, matrices one array with
two extents. The loops of the matrix operators are recursive functions `after` that
give the matrix after each iteration, in the order of the code, since `a += a` and
`a *= a` read what they have written.

`LogLine`: the string the default consumer builds for one message, and a terminal
that shows it: `screen` is the line the cursor is in with the options that are on,
`shown` the last complete line. `NamesIn` reads a shown line back.

## 3. Properties and runs

A property is often a conjunction of named parts, each with its own comment: for
instance `HandlesAreSound` is `HandlesTypeOK`, `OwnedByHolders` and
`PicturesCounted`.

| run | question | bounds |
|---|---|---|
| `ContextsSorted` | disciplined program, any level set: types (`TypeOK`), the list is complete (`ListIsComplete`), sorted (`Preorder`), no null is followed (`NoFault`), children and unshielded subtrees take a level over (`LevelSpreads`) | 4 contexts, 1 level |
| `ContextsInherit` | only the root's level is set: a context always has the level of its parent (`InheritsParent`); the call returns (`CallReturns`) | 4 contexts, 2 levels |
| `ContextsAnyOrder` | no discipline, debug build: links are inverse (`DoublyLinked`), no parent dangles (`NoDanglingParent`), refinement of `LevelTree` (`KeepsPromise`) | 3 contexts, 2 levels |
| `LoggingLevels` | a logger with the inner of two contexts, which the root's and its own level reach, against every interleaving with `set_level`: the level it used was effective (`LevelWasEffective`) | 2 contexts, 2 levels, 1 logger |
| `LoggingPath` | two loggers, with the root and with a context two below it: the path walk stays below the root (`LogTypeOK`), logging returns although the mutex holder may stop (`LogReturns`) | 2 contexts, 2 loggers |
| `Containers` | queue: indices stay in their chunk (`QueueTypeOK`), nothing freed is touched and sizes are right (`QueueIsSound`), refinement of `Fifo`, chunks are freed (`QueueKeepsPromise`); ring buffer: slots and blocks (`RingIsSound`), refinement of `Recent` (`KeepsNewest`); lists: `ListsAreSound`, refinement of `Fifo` (`ListServesInOrder`) | 3 chunks of 3 slots, 2 values; 2 buffers on 2 blocks, capacities 1 and 3; 2 lists, 3 nodes |
| `Resources` | every reference is given back once (`HandlesAreSound`); an undisturbed read returns the whole rest, a disturbed one zeros behind the offset it leaves, and one that throws before it reads has not moved the offset (`ReadsOrRestores`); FFmpeg's position and the offset agree (`PositionsAgree`); demuxers free once and callbacks reach them (`DemuxIsSound`); frames come out in order (`FramesComeOut`); the message of an exception is about what was asked for, and is lacking for null symbols only (`ErrorIsItsOwn`); the range ends and meets each accelerator once (`VisitsEachOnce`) | 3 objects, 3 resources, 2 pictures; files of 3 bytes; 2 demuxers, a buffer of 3 bytes; files of 3 packets with 0 to 2 frames, delays 0 to 2, 2 streams; a library, 3 symbols; 3 accelerators |
| `Threads` | mutual exclusion (`OneHolder`), no update is lost (`NoLostUpdate`), callbacks run as named (`RunsAsNamed`), the work of a run is called once, and every run that posts before the context stops returns (`RunsInTimeEnd`), detached jobs run late and all (`DetachedRunToEnd`), signals reach the listener (`ListenerGetsSignals`) | 2 threads, 2 locks each, 2 guards; 4 nested scopes; 2 clients with 2 runs, 2 workers, with a work guard and without; 2 jobs; 3 threads, 2 signals, 2 sends |
| `Values` | `BitsAsMeant`, `ValuesAsMeant`, `LayoutIsSound`, `TextAsMeant`, `LineAsMeant`, `MatcherFollows`, `MatrixAsMeant`: the members stand for what the program meant | 10 bits, 8 digits; fractions up to 6; alignments to 8, 3 elements; strings of 3; paths of 3 names; 3 arguments; 2 matrices up to 2 by 2, 4 operations |

Why the bounds are enough:

- `MCContexts` lets context `c_i` be declared below the root or any `c_j`, `j < i`,
  which are all forests up to renaming, and the constructors run in any order.
  Three or four contexts are enough for the cases the code tells apart: a context
  with a sibling before and after it, a child of each, a last child, and a
  grandchild whose aunt follows it. The list code compares only pointers and
  levels only with `unset`, so one level is enough for its shape; two are needed
  where an old and a new level must differ.
- Three chunks of three slots have a first, an inner and a last of each. A ring of
  three slots wraps and has a slot that is neither end, one of one slot is full
  and empty at once. Three nodes in two lists make an emptied list, a list of two,
  and stale links between lists.
- Three objects and resources let a resource be moved while another is closed
  and its number used again, and an object be the target of two others. Three
  bytes have a begin, an inner and an end position, and read sizes that fit and
  that do not.
- Three packets with up to two frames cover a codec that holds back more than one
  packet gives, and a packet that gives more than one frame; with two streams, one
  is skipped.
- Ten bits fill one byte and begin the next; nine digits are where a literal
  goes wrong. Two by two is the smallest matrix whose product mixes rows and
  columns; four operations build two operands and combine them twice.

Every property of these runs fails for some mutant of the code, listed in
`PROJECT.json`; several have more than one.

Runs that refute what the documentation, a test or an assertion says of the code:

| run | statement | what happens |
|---|---|---|
| `ContextsPivot` | `assert(curr == pivot)` (`contextutils.hpp:31`) | p and q below the root, a child of q, a child of p, in this order, each after its parent (the run is constrained to `ParentsFirst`): `organize` relocates the pivot and leaves it behind, so that it finds the next context in place further down the list than the pivot; the assertion fails in a debug build |
| `RingLap` | the front of a buffer is the element pushed first (test `PushPop` of `core/test/ring_buffer.cpp`) | after a pop the offset is one past the slots; a push wraps its own index, `front()` does not |
| `MatrixProduct` | indices are in range (the assertion of `mat.hpp` in `operator[]`) | `operator*` loops to the height of the product where it means its width, and leaves the range when it is taller than wide |

`CHECK_DEADLOCK FALSE` is used where the program may abort or crash, where the
objects are gone, where a loop has ended, or where a bound on operations is used up.

## 4. What the code does not survive

The passing runs keep clear of the cases below by a constant that is named after
what the program refrains from; giving it the other value makes TLC find the
property violated. They are mistakes of the code, or uses it does not document as
forbidden.

| constant | case | violated |
|---|---|---|
| `DrainsAtEnd = TRUE` | a pop that takes the last element out of the last slot frees the chunk, `m_back` keeps pointing at it, and the next push writes to it (`queue.hpp:124-128, 140-143`) | `NotMisused` |
| `SecondLap = TRUE` | the offset of a ring buffer passes the end (`ring_buffer.hpp:95`) | `RingNotCorrupted`, `FrontIsOldest` |
| `FALSE \in Constructs` | an element constructor throws after it was counted (`ring_buffer.hpp:87`) | `KeepsNewest` |
| `SelfMoves = TRUE` | a ring buffer is move assigned to itself | `OneOwner` |
| `Overwrites = TRUE` | a `tmpdir` is overwritten; its directory stays (`tmpfile.hpp:25`) | `OwnedByHolders` |
| `SelfAssigns = TRUE` | an object closes its handle and keeps it (`file.hpp:46` and others) | `OwnedByHolders` |
| `FALSE \in Referenced` | `dup_frame` loses the new frame (`frame.cpp:14`) | `OwnedByHolders` |
| `ShortReads = TRUE` | the exception for a short read is built and not thrown (`file.cpp:71`) | `ReadsWholeTail` |
| `MovesBuffers = TRUE` | the I/O context stays with the demuxer moved from (`demux.cpp:99`) | `CallbacksReachable`, `DemuxOwnsOnce` |
| `"not_opened" \in Outcome` | the I/O buffer is freed twice (`demux.cpp:83, 114`) | `DemuxOwnsOnce` |
| smaller `IntWidth` | the size left is cast to `int` (`demux.cpp:29`); `1 << i` has the width of `int` (`int.hpp:28`) | `DemuxTypeOK`; `AllFlagsSeen` |
| `MixedImages = TRUE` | packets of two streams reach one decoder, whose assertion fails (`decoder.cpp:61`) | `DecodingTypeOK` |
| `ThrowsInside = TRUE` | the exception of an outer scope counts (`cleanup.hpp:42`) | `RunsAsNamed` |
| `AssignsItself = TRUE` | a lock is assigned to itself: the mutex is unlocked, and again by the destructor (`guard.hpp:44-48`) | `OneHolder` |
| `MainFirst = FALSE` | a thread created before the listener takes the signal (`signal.cpp:20`) | `NotKilled` |
| `MaxDigits = 9` | the ninth binary digit (`bitset.hpp:38`) | `BitsAsWritten` |
| `GivesNull = TRUE` | the null value is stored as a value (`maybe.hpp:53`) | `MaybeRemembers` |
| `MultipliesNaN = TRUE` | a fraction with denominator 0 is multiplied: `num % 0` (`frac.hpp:42`) | `FracIsExact` |
| `SharesNodes = TRUE` | a list with nodes is copied, implicitly: both change the same links (`intrusive_list.hpp:16-22`) | `ListsAreSound` |
| a null character in `Message` | the line is cut (`logs.cpp:268`) | `TerminalRestored` |
| `Aliased = TRUE` | `a *= a` reads replaced rows (`operations.hpp:69`) | `ElementsAreRight` |
| `"*=" \in Rectangular` | rows as wide as `b` are written into `a` (`operations.hpp:73`) | `AccessesInRange`, `ElementsAreRight` |
| `StaticsFirst = FALSE` | `set_level` runs while a parent is unborn: a null successor is dereferenced (`contextutils.hpp:45`), newcomers find the wrong place and level | `NoFault`, `Preorder`, `InheritsParent` |

Two cases are part of the passing runs, whose properties say what is left of the
promise. A handler that is posted after the `io_context` has stopped is never run, and
`run()` waits for ever: nothing in `coro/test/asio_scheduler.cpp:15-58` keeps the worker
from leaving `ctx.run()` before the post, so `RunReturns` speaks of calls that post
before, and `GuardKeeps` says that a work guard makes that all of them. And a
symbol whose value is null ends in undefined behaviour (`dlopen.cpp:23`); `ErrorIsItsOwn`
says that no other does.

Of the levels, four statements of the documentation hold with exceptions
only, and the properties leave those out: unset does not restore the inherited
level where a stale one was kept behind an explicit level (`logs.hpp:45`,
`logs.cpp:108`); an explicit level on a last grandchild makes
`find_next_sibling` return null, which ends every enclosing loop before the
next children (`logs.cpp:106-120`); an orphan between two siblings ends the loop of
`set_level` (`logs.cpp:197`); and the assertion against logging with
orphans tests the direct parent only (`logs.cpp:254`).

Mistakes that show without a model: `contains_broken_links`
(`contextutils.hpp:95`) returns false on every path; the destructor of a queue
leaks the only chunk when there is one only (`queue.hpp:94-99`), a list constructor
that throws leaks everything (`queue.hpp:82`); `chunk_index_type` does not
compile for elements of more than four bytes (`queue.hpp:20`); the destructor of
a ring buffer does not destroy its elements (`ring_buffer.hpp:48`), and a capacity
of zero divides by zero; `bitset::all` is false for a full set whose size is not a
multiple of eight (`bitset.hpp:86`); `operator*` of a guard's lock returns a copy
(`guard.hpp:55`); `flexible::create` ignores an alignment beyond that of `operator
new` (`flexible.hpp:39`); `span_cast` keeps the number of elements when their size
changes (`cast.hpp:32`); a throwing element constructor leaks a matrix
(`mat.hpp:42`), and `height()` of one that was moved from reads through a null
pointer; a `mat` cannot be copied: neither its copy constructor compiles, which asks a
constant store for a span to write through (`mat.hpp:52`, `mat.hpp:91`), nor its copy
assignment, which hands the pointer to a function of the store (`mat.hpp:93`), nor
therefore `operator+` of `mat`; `operator-` compiles for no matrix, since it asks whether
`a += b` throws for a constant `a` (`operations.hpp:51`); the conversion of a fraction to a
floating point number returns nothing unless the denominator is 0 (`frac.hpp:18-21`).

## 5. Fairness

`Spec` of `Contexts` assumes `WF_vars(Holder)`: the thread inside `set_level` keeps
running. It needs nothing else: the call waits for nobody once it has the mutex.
Nothing is assumed of the callers, which may never call. `LogSpec` assumes weak
fairness of each thread inside its own logging call and nothing about the holder
of the mutex: `LogReturns` says that a logger does not wait for it.

In `MCThreads`: clients of `AsioRun` go on and finish, since the program joins the
workers only after them; each worker thread keeps running inside `io_context::run`.
The one thread of `Detach` keeps running its loop. Of `Signals`, the main thread
keeps calling `wait()`, as the program the listener is made for does, and a
`sigwait` with a pending signal returns. All of it is weak fairness of running
threads. The guard has no liveness property: a thread may keep its lock for ever.

## 6. What is proved

Assumptions: the named `ASSUME`s of the modules (the root is not a member of
`Ctx`, null is no node, `MaxLevel` is a natural number, no context is its own
parent, the empty values differ from the real ones, and so on). TLC evaluates
them in every run. The number of contexts, threads, levels, objects, chunks and
elements and the sizes of chunks, buffers and files are arbitrary.

Where the code survives only a careful use (section 4), the theorem has a
hypothesis that says so: `Hypothesis => (Spec => []Invariant)`. The hypotheses are
about the same constants that the passing runs set, so every one holds in a run.

| theorem | property | hypothesis |
|---|---|---|
| `TypeCorrect`, `LinksInverse`, `ParentsCleared`, `ListComplete` | `TypeOK`, `DoublyLinked`, `NoDanglingParent`, `ListIsComplete` | none |
| `Refinement` | `KeepsPromise` | none |
| `NeverFaults`, `SortedInPreorder`, `LevelReachesBelow` | `NoFault`, `Preorder`, `LevelSpreads` | `Sensible` |
| `LevelInherited` | `InheritsParent` | `Sensible`, `RootOnly` |
| `LoggingIsFaithful`, `LoggingTypeCorrect` | `LevelWasEffective`, `LogTypeOK` | none |
| `IndicesInChunk` | `QueueTypeOK` | none |
| `QueueSound`, `QueueServes` | `QueueIsSound`, `QueueKeepsPromise` | `~DrainsAtEnd` |
| `RingSound`, `RingKeepsNewest` | `RingIsSound`, `KeepsNewest` | `FirstLapOnly` |
| `ListsSound`, `ListsServeInOrder` | `ListsAreSound`, `ListServesInOrder` | `~SharesNodes` |
| `HandlesSound` | `HandlesAreSound` | `UsedAsMeant` |
| `ReadBinIsSound` | `ReadsOrRestores` | `~ShortReads` |
| `OffsetsAgree`, `DemuxersAreSound` | `PositionsAgree`, `DemuxIsSound` | `StaysPut`, `SizeFits` |
| `MessageIsItsOwn` | `ErrorIsItsOwn` | none |
| `RangeIsWhole` | `VisitsEachOnce` | none |
| `FramesInOrder` | `FramesComeOut` | `~MixedImages` |
| `MutualExclusion`, `UpdatesKept` | `OneHolder`, `NoLostUpdate` | `Excludes`, `~AssignsItself` |
| `CleanupsRunAsNamed` | `RunsAsNamed` | `~ThrowsInside` |
| `ListenerIsSafe` | `NotKilled` | `MainFirst` |
| `WorkIsCalledOnce`, `DetachedRunsLater` | the safety parts of `RunsInTimeEnd` and `DetachedRunToEnd` | none |
| `BlocksAreSound`, `MatcherIsTrue`, `TextIsRead` | `LayoutIsSound`, `MatcherFollows`, `TextAsMeant` | none |
| `ValuesKept` | `ValuesAsMeant` | `~GivesNull`, `~MultipliesNaN` |
| `BitsHeld` | `BitsAsMeant` | `ShortLiterals`, `NarrowFlags` |
| `MatrixIsRight` | `MatrixAsMeant` | `~Aliased`, `Rectangular = {}` |
| `LineIsRight` | `LineAsMeant` | `PlainMessages` |

### Contexts and logging

`ContextsProofs`, with no discipline of the program assumed: the inductive
invariant is

    IInv == TypeOK /\ ListInv /\ SortInv /\ SyncInv /\ FreshInv

`ListInv` is `DoublyLinked` with the facts about the root and about parents that
a relocation needs (`Relocate` rewrites six pointers of up to five nodes, some of
which may coincide: `par` must not be `curr`, and `curr` must not be the root).
`SortInv` says that the pointers of `organize` are null or in the list, so that
what it relinks is linked. `SyncInv` says where the pointers of a sync are, and
that every context written by the call hangs from the target by contexts written
by it: the refinement needs this, since `HandDown` requires a parent that has
the level from this call. `FreshInv` says that no level is set before the list
is sorted, so that a newcomer's unset level is the effective level of its parent
then too.

- `TypeCorrect`, `LinksInverse`: conjuncts of `IInv`.
- `ParentsCleared` (`NoDanglingParent`): from `IInv` and an invariant on parents.
- `Refinement` (`KeepsPromise`): `Init` maps to `LevelTree`'s, and each step under
  `IInv` to a step or a stutter of it; one lemma per kind of step.

`ContextsOrderProofs` is about the order of the list, which `IInv` does not
mention. The order is made explicit by a numbering `pos` of the living nodes; it
is no variable of the model: the invariants say that some numbering exists, and
each step is proved by giving the next one (a relocated node gets the number
after the pivot's and those behind move up).

- `Numbered(pos)`: the numbers increase along the list and no node is passed
  over. With that alone, and no hypothesis, `ListComplete`: whoever follows `m_next`
  from the root meets every living context and stops.
- `Sensible == StaticsFirst /\ ChildrenFirst /\ Hierarchy`: parents are constructed
  before the first `set_level` and destroyed after their children, and no context
  is its own ancestor. Under it `InOrder` is inductive: while `organize` runs the
  part it is done with is in preorder (`SortedSoFar`), afterwards the whole list
  is (`Sorted`), and constructors insert where it stays so. From it `NeverFaults`
  and `SortedInPreorder`.
- `Leveled` adds where the walk of `sync_inherited_log_levels` is in that
  order and that everything before it has the level: `LevelReachesBelow`. When only the
  level of the root is ever set (`RootOnly`) all contexts then agree with it
  between calls: `LevelInherited`.

`LoggingProofs` extends it: a step of `LogSpec` is a step of `Contexts` or leaves
its variables alone, so `IInv` holds there too. `LogInv` adds to the types what
the two loads rely on. `HistoryInv`: the present values are among those written,
and every explicit level and every inherited level ever written to a context was
its effective level at that time; the inherited one because `Inherit` writes only
where no explicit level shields it, and a new context has none. `CallInv`: after a
first load that returned the latest value, unset, the inherited level was
effective at that load or is since it was stored. From it follow
`LoggingIsFaithful` (`LevelWasEffective`) and `LoggingTypeCorrect` (`LogTypeOK`).

### Containers

`ContainersProofs`, for chunks, rings and lists of any size:

- `IndicesInChunk`: `QueueTypeOK` with `NoChunkYet` (before the first push the next
  slot is slot 0) is inductive with `DrainsAtEnd` either way.
- With `~DrainsAtEnd` a queue that was not destroyed has a path `p` of chunks
  (`ShapedBy`): `m_front` is its first, `m_back` its last, `next` leads along it, the
  heap holds its chunks and no others, and a slot holds an element exactly when it
  lies at or behind `m_idx_front` in the first chunk, before `m_idx_end` in the last,
  and anywhere between. `QueueInv` says that some path exists. From it `QueueSound`,
  and `QueueServes`: the elements along the path are the queue of `Fifo`; `push`
  appends to them whether or not it needs a chunk, `pop` takes the first.
- `FirstLapOnly == Constructs \subseteq {TRUE} /\ ~SecondLap /\ ~SelfMoves` keeps a
  ring where the offset has not passed the end. `RingInv`: offset and count of each
  block are in range and the slots from the offset on, `count` of them, are the
  ones in use; a block has one owner. From it `RingSound` and `RingKeepsNewest`,
  whose arithmetic is in a few lemmas on `%`.
- `ListInv`: each list has a path of nodes, and no node is on two of them; nothing is
  said of the links of nodes in no list. From it `ListsSound` and
  `ListsServeInOrder`. `~SharesNodes`: a list that holds nodes is assigned to itself
  only.

`Members` and the mapping of the queue follow links with recursive functions
whose value has to be known for every length. The induction theorems of the library
are out of reach, but the least counterexample is not: `Least` gives, for a set of
numbers that is not empty, one whose predecessor is outside, and the step
is proved for that one.

### Resources

`ResourcesProofs`:

- `HandlesInv == OwnInv /\ PicturesInv`. `OwnInv`: the references to a resource
  number the objects that hold it and those given away, and no two objects hold the
  same one unless their class copies by sharing. `PicturesInv` counts the frames of a
  picture the same way; a closed resource shows none. The counts are cardinalities,
  so the lemmas say how one changed entry changes them (`Tally`).
  `UsedAsMeant` names the seven classes of the code and excludes a failing
  `av_frame_ref` in `dup_frame`, overwriting a `tmpdir`, and self-assignment.
- `FileInv`: what was read so far is what the file had at those offsets, or the
  file was disturbed; what lies behind the offset is as fresh as it was resized.
- `DemuxInv` has the pointers both ways, `Forwards` from each demuxer to what it
  owns, and `Backwards`: each context and I/O context FFmpeg has allocated is that of
  one demuxer. `SizeFits` says that the size of the buffer fits an `int`.
- `MessageIsItsOwn` is a case distinction on what is pending: `dlopen` and `dlsym` may keep
  an older message when they succeed, so the first `dlerror()` of `raw_symbol` is needed.
- `RangeIsWhole`: `Place` is the position of a type in FFmpeg's list. The iterator has
  met the supported types before its own place and no other, and the next type is
  the first supported one behind it (`FollowingIs`), so it ends behind the last.
- `FramesInOrder`: `DecodingInv` joins the frames of the video packets up to each
  packet (`Joined`). What came out, followed by what is in the codec, is this sequence
  for the packets received so far (`Flow`); the codec has at most `delay` frames
  whenever it is given a packet, and not fewer once something came out.
  `~MixedImages` gives `decode_image` files of one stream, as section 4 says.

### Threads

`ThreadsProofs`:

- `CleanupsRunAsNamed`: with `~ThrowsInside`, scopes that ask for
  `std::uncaught_exceptions` are below every callback on the stack (`AskersBelow`),
  so the number they see is that of their own scope's exception.
- `ListenerIsSafe`: `Defended` says that once a listener exists every thread blocks
  its signals, since threads inherit the mask of the one that has it.
- `WorkIsCalledOnce` and `DetachedRunsLater`: a handler is in one place (posted, in a
  worker, or done) and its client waits until then; what is detached is ready or
  running or over, and the task waits for all of it. Together with the fairness of
  section 5 that is what lets the calls return; the liveness itself is TLC's.

`GuardProofs`, with a mutex that excludes (`Excludes`; with `nop_mutex` the
statements are false) and locks that are not assigned to themselves
(`~AssignsItself`): the inductive invariant is

    GuardInv == GuardTypeOK /\ OneLock /\ OwnerHolds /\ UpdateIsSafe /\ NoLostUpdate

`OneLock`: no two lock variables, of whatever threads, have the same guard: a move
must leave nothing behind. `OwnerHolds`: a mutex is owned by a thread exactly when
a lock of that thread has it: an assignment unlocks exactly what it replaces.
Neither is inductive without the other, since `Lock` creates a second holder unless
a mutex without an owner has none. `UpdateIsSafe`: a thread between its read and
its write owns the mutex and has read the present value. From it follow
`MutualExclusion` (`OneHolder`) and `UpdatesKept` (`NoLostUpdate`).

### Values

`ValuesProofs` begins with the arithmetic of `\div`, `%` and divisibility that the
layout of blocks and the fractions share.

- `BlocksAreSound`: of any two alignments one divides the other (`LayoutAssumption`;
  alignments are powers of two), so an address aligned for the larger is aligned
  for both, and rounding the offset up moves it by less than one alignment.
- `MatcherIsTrue`: each argument is kept as what it was passed as, and a variable is
  looked up when the comparison is made.
- `ValuesKept`: `Reduced` looks for the greatest common divisor, the proof for the least
  denominator (`Lowest`): it exists, it divides every denominator of the same number
  (`LowestDivides`), and the quotient is that divisor (`GreatestCommon`). So two
  fractions reduce to the same one exactly if they are equal by cross
  multiplication, which the operators keep. The stored fraction itself is reduced in some
  products only, and the theorem does not say otherwise. `~MultipliesNaN`: nobody
  multiplies a fraction that is no number without asking `is_nan`.
- `TextIsRead`: the view begins inside the array and its end is a null character, so
  `strlen` stops there at the latest; the code is described character by character, odd
  places for options and even ones for semicolons.
- `BitsHeld`: `Holds(arr, S, bits)` says which bits an array of bytes stands for, for the
  set of places written so far. The loops over the digits are recursive functions whose
  value is proved for the least counterexample. `ShortLiterals` is the limit of
  eight binary digits of section 4, `NarrowFlags` that of `1 << i`.
- `MatrixIsRight`: `Stands(s, m, h, w)` says that the store of `h` times `w` elements
  holds the matrix `m`. What a loop has made after each iteration is known without the
  loop (`Partly`: the elements up to here are new, the others old), and that the
  recursive function is this matrix is shown for the least iteration at which
  it would not be. The places of two elements differ when their indices do
  (`SameIndex`). Sums of products (`Total`) stay as they are: both sides have the same.
  `~Aliased` excludes a matrix multiplied by itself in place and `Rectangular = {}`
  products in place that change the shape, both of section 4.
- `LineIsRight`: three loops meet, the path the consumer builds, the terminal that
  shows the line, and the reader that splits the path at its dots. For the path,
  `Paths` has the path of every context above, each a beginning of the next
  (`PathHolds`), so the dots are exactly where the names were joined (`PathSplits`); its
  length is the number `ctx_buf_size` adds up on its own (`SizeIs`). For the
  terminal, `LineOf` takes the line apart into options, text, and what clears the
  options (`LineShown`). `PlainMessages`: a message has no null character, line end
  or escape code of its own, and does not begin with the bracket of a path, since a
  message of the root would be read as one.

## 7. Only model-checked

- Liveness (`CallReturns`, `LogReturns`, `RunsInTimeEnd`, `DetachedRunToEnd`,
  `ListenerGetsSignals`), which is out of the prover's reach.
  The safety half of `RunsInTimeEnd` and `DetachedRunToEnd` is proved, that nothing is
  lost on the way; that each step is taken is fairness, and TLC's.

Every safety invariant, action property and refinement of a passing run has a
theorem. The statements refuted above have no theorem, of course.

## 8. Plan

The components of section 1 are modelled as far as section 9 says, and the safety
properties of the passing runs are proved. What is left:

1. The types of `Guard`, `AsioRun`, `Detach`, `Signals` and `Cleanup` as theorems of
   their own; so far they are conjuncts of the inductive invariants.
2. A product `a * b` with `a` no taller than `b` is wide keeps to the elements of its
   operands; `MatrixIsRight` asks for equal extents.

## 9. Not modelled

- The vendored `magic_enum` and `matchit`, third-party code; `matchit` is used by
  nothing.
- Compile-time helpers of `core` (concepts, literals, casts, type traits, `visit`,
  `sbool`, the exception classes), which have no state.
- `fs/lib/monitor.cpp`, which is disabled with `#if 0`.
- What does not compile: copies of a `mat` (`mat.hpp:91` and `93`) and its `operator+`,
  `operator-` of any matrix, and the product of `static_mat`.
- The conversion of a fraction to a floating point number (`frac.hpp:18-21`), which
  returns nothing for a number.
- Accessors that return a member of an FFmpeg structure, and the reference a decoder
  keeps to its accelerator.
- The lifetime of a custom log consumer, which is the caller's: `push_log` loads
  the pointer relaxed, so the model of the memory in `Logging` could not tell a
  consumer that is not there yet from one that is gone.
- `coro::task` is an alias; stdexec, Boost.Asio, FFmpeg and Linux are modelled as far as
  the code uses them.
- Tests and examples, except for the two loops and the fixtures named above.
