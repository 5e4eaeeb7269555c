# Verification of rs-io

TLA+ models of rs-io (`src/source/rs-io`), checked with TLC on small instances,
and proofs with TLAPS of results that hold for every instance. `PROJECT.json`
relates every definition to the lines it models, and lists the runs, their
mutants, the hazards, the findings and the theorems.

## Inventory

rs-io is a C++17 library. The state, the operations and the difficulties of its
parts:

| Part | State | Operations | What is hard | What makes it correct |
|---|---|---|---|---|
| `ThreadPool` (thread-pool) | one deque and mutex per worker; four atomics: `clear_count_`, `next_worker_`, `unfinished_jobs_`, `shutting_down_` | `insert`, `each`, `clear`, `wait`, `wait_for`, `wait_until`, `poll`, constructor, destructor; the workers' loop with work stealing | every operation is several atomic steps of several threads; jobs insert jobs; the counter and the queues are under different locks | the counter is exact; a job is in one place; nothing is stranded; the waits end, and only when the pool is quiet |
| `Dispatch` (channel) | `tasks_` (a map from channel to handler and thread), `faults_` (a queue of results) and its mutex | `add`, `run`, `stop`, `empty`, destructor, `drop_channel` from a channel's destructor; one thread per asynchronous channel | a join under a mutex that the joined thread needs; close, throw, stop and destroy at any moment | one result per `add`, with the right status; `run` and `stop` return; nothing is left after `stop` |
| `QueueChannel`, `ValueChannel`, `BufferChannel` (with `StreamChannel::read_all`), `TimerChannel` (channel) | a mutex, a condition variable, an open flag, and a queue / a value and a status / a buffer and an offset / a next tick and a count | `read`, `write`, `clear`, `close`, `flush`, the wait functions, `append`, `read_all` | lost wakeups, spurious wakeups, timeouts that race a close or a tick, check-then-act in `read_all` and in the timer | nobody sleeps through what he waits for; order; nothing missed; the buffer is a pipe; ticks do not drift |
| `GeneratorChannel` (channel) | a generator function and a mutex | `read`, `close` | the generator runs under the mutex while others read and close | one thread at a time in the generator, none after `close`; no value lost to a `close` |
| `NamedMutex` (named-mutex) | a named semaphore shared by processes | constructor, `lock`, `try_lock`, `try_lock_for`, `try_lock_until`, `unlock` | the semaphore outlives the processes; signals and timeouts end a wait; a holder may die | mutual exclusion; the mutex is lost only with its holder |
| `PosixSignal` (signal) | a signal mask, a queue | `read`, `close`, wait, destructor | which thread gets a signal; pending signals | a signal is delivered once; close and the destructor return |
| `StreamProcess`, `TextProcess` (process) | a pipe, buffered text | `read`, `append`, `read_all`, `close`, wait | blocking reads, timeouts, concurrent close | lines are complete and in order; the wait respects its time |
| `Socket`, `TcpClient`, `TcpServer`, `SocketSet` (net) | a socket handle; a list of channels and a parallel list of handles | `read`, `write`, `close`, accept, `insert`, `erase`, wait | partial writes, `EAGAIN`, close by another thread, handles that the system uses again, stale copies of them | a handle is its socket's own; all bytes arrive once; the channel that a set chooses is ready or closed |
| `Cstdio`, `Fdio`, `Winio`, `TempFile` (stdio), `Resource` (utility) | a file handle, and for `TempFile` a file on the disk | open modes, `read`, `write`, `read_line`, `seek`, `dup`, `pipe`, `release`, moves | short reads and writes, block boundaries, numbers that are used again | what is written is what is read; every descriptor and temporary file has one owner |
| `Path` (path) | a name; a stack of directories in `deep_search` | names: constructor, `split_path`, `common`, `relative_to`, ...; files: `remove`, `make_directory`, `make_symlink`, `copy_to`, `move_to`, `create`, `save`; `deep_search` | passes that overlap at the ends of a name; a function stops, or another process comes, between any two system calls | a name keeps its meaning; a move loses nothing, a copy is exact; a search finds everything once |
| `Uri` (uri) | a text and seven offsets into it | parse, setters, `clear_*`, queries | long sequences of setters keep the offsets in step | the offsets fit the text; each setter changes only its part; a form comes back as it was |
| time, utility, version, addresses, DNS | none | conversions | - | - |

The parts interact as follows. A `Dispatch` calls the wait functions, `read` and
`is_closed` of its channels from its own threads, and closes them; the
destructor of `Channel` calls the `Dispatch` back. Handlers are user code and
may write to channels and throw. The wait, test and read loop of a `Dispatch`
thread is also how the models of `TimerChannel`, `PosixSignal` and
`TextProcess` use their channels. `SocketSet` is a channel of channels.
`Resource` owns the handles of `Fdio`, `Cstdio` and `TempFile`. Everything else
is used on its own.

## Modules

| Module | Models |
|---|---|
| `ThreadPool` | thread-pool.hpp, thread-pool.cpp |
| `Dispatch` | class `Dispatch` and `Channel::~Channel` |
| `CondVar` | what the channels use of `std::condition_variable` (external) |
| `ChannelBase` | the open flag that four classes share |
| `QueueChannel`, `ValueChannel`, `BufferChannel`, `TimerChannel`, `GeneratorChannel` | the class of that name; `BufferChannel` also `StreamChannel::append` and `read_all`, `TimerChannel` also the loop of a waiting thread |
| `Channel` | composes the five: a channel is an object of one of them, chosen in the initial state |
| `ByteStream` | the abstract specification of `BufferChannel`: a pipe |
| `NamedMutex` | named-mutex.cpp for Linux, with processes that die |
| `Uri`, `UriQuery` | the text, the offsets, the parser, the setters, the related URIs; `make_query` and `parse_query`, and a `Uri` of which queries are made by the one |
| `UriElements` | the abstract specification of `Uri`: eight values, of which a call sets one |
| `PathName` | the names of `Path` on Unix |
| `FileSystem` | the directory tree and the system calls on it (external) |
| `FileOps`, `DeepSearch` | the functions of `Path` that change files; `deep_search`, together with `FileOps` |
| `Sockets` | `Socket`, `TcpClient`, `TcpServer`, `SocketSet`, and the system's table of handles |
| `Process`, `TextLines` | `StreamProcess`, `TextProcess`, `shell`; texts and lines |
| `PosixSignal` | signal.cpp for Linux, with the masks of two threads |
| `IoStream` | `IoBase` reading and writing text, `Cstdio::read_line`, over a pipe |
| `Descriptors` | `Resource`, the life of `Fdio` objects, and `TempFile` |
| `ThreadPoolProofs`, `DispatchProofs`, `ChannelProofs`, `NamedMutexProofs`, `SocketsProofs`, `UriProofs`, `FileOpsProofs` | the theorems about the module of that name |
| `StreamsProofs` | the theorems about `Process`, `Descriptors`, `PosixSignal` and `IoStream`, after lemmas about what the operators of `TextLines` do |
| `MC...` | instances for TLC; `MCPaths` puts `PathName` beside `FileOps` with `DeepSearch`, and `MCStreams` puts `Process`, `PosixSignal`, `IoStream` and `Descriptors` side by side: each behaviour is about one of them |

Operators whose comment begins with "Mutant:" are plausible faulty versions of
the definition that follows; no specification uses them. `PROJECT.json` pairs
each with the property that notices it.

### Granularity

**ThreadPool.** A step is one access to a shared atomic or one critical section
of a worker's mutex. `insert` is four steps: the test of `clear_count_`, the
load of `next_worker_`, its store, and the push with the increment, which may
throw instead; a thread may be overtaken between any two. A worker takes the
back of its own queue or, if that is empty, the front of a queue picked at
random (any queue, its own included), runs the job (which may insert jobs), and
counts it out. `clear` is
increment, erase queue after queue, wait for zero, decrement; the destructor is
a `clear`, `shutting_down_`, and the joins. `each` is a sequence of inserts.

**Dispatch.** The main thread's `run` scans `tasks_` in the order of addresses,
polls synchronous channels, then takes a fault; a channel's thread waits, asks
`is_closed`, reads, calls the handler, and leaves a fault at its end. The
mutex is held while `run` joins a thread, and the model keeps it held. A
channel is its open flag and its number of messages. Other threads write to
and close any channel at any time. Destroying a channel and constructing a new
one at the same address is modelled for the kinds in `MayDestroy`. The set of
synchronous channels is chosen in the initial state from `SyncSets`. A channel of
no values (`MessageChannel<void>`) calls its handler without reading; so a handler
may be called, return or throw though there is nothing to read.

**Channels.** Every member function is one critical section and one step,
except that a wait is: fall asleep (only if the predicate is false), be
notified or wake spuriously, resume under the mutex and test again, or run out
of time. `read_all` is a loop of three steps (wait, `is_closed`, `append`),
because it takes the mutex anew for each; `GeneratorChannel::read` is three
steps because the generator, which is the caller's code, runs with the mutex
held. Messages and bytes are numbered by their arrival so that order and loss
can be stated. A `ValueChannel` is constructed with a value its creator knows,
or by default with an uninitialised one: any value. The timer counts time in
units; a thread may be late by any number of units, and is when `TimePasses`
comes first.

**NamedMutex.** A wait ends with the semaphore, with `EINTR`, or with
`ETIMEDOUT`; as in the code the last two throw. `try_lock` calls `sem_wait`,
as the code does. A process may die in any state.

**Uri.** A text is a sequence of units: words, numbers, delimiters, and escaped
delimiters. The regular expression of the parser is modelled by where its
elements begin; each setter replaces a part of the text and moves the offsets
as the code does. A call that throws leaves the object as it was and is no
step. A port is its digits. `FormSpec` of `UriQuery` makes the same calls as
`Spec` of `Uri`, with a history variable that remembers which form the query was
made of, through every call that is about other elements.

**PathName.** A name is a sequence of the characters "a", "/" and "."; the
passes of the constructor and each function on names are operators, and a step
applies one of them to the paths of a program. The check of `legal_name` at the
end of `make_canonical` is left out.

**FileOps.** A step is one system call; a function that calls others is a stack
of frames. A process may stop for good between any two calls, and processes
interleave. Files are written through a buffer of one block, which is stored
before the next block or by `fclose`. Reading or writing a block may fail, which
throws; so may the `fclose` that stores the last one, of which the code drops the
result (path.cpp:683, 861), and the processes to which this happened are in the
history variable `unflushed`. Other system calls fail only because of what is in
the tree: permissions and broken disks are left out. `DeepSearch` adds a program
that walks the tree while `FileOps` changes it; a directory gives its members in
any order.

**Sockets.** A step is one system call. The system gives the lowest free
handle, so that the number of a closed socket soon stands for another; a
`SocketSet` keeps copies of numbers. A `recv` gives any number of the bytes that
are there, or fails; a `send` takes what the connection has room for.

**Process, PosixSignal, IoStream.** A byte at a time moves between the two
sides. `fread` waits for a whole block, as in the C library, and a signal may
cut it short; `write` may stop in the middle, `read` gives some of what there
is. Signals are pending for the process or for a thread, once each, and each
thread has its mask.

**Descriptors.** A step is one expression of a program, such as
`a = b.dup()`: the right side makes a temporary object that is moved to the left.

## Runs

A property that is a conjunction has its parts defined, and described, beside
it in the module.

| Run | Instance | Shows |
|---|---|---|
| `thread_pool_safety` | 2 workers (requested 0, hardware 2), 2 clients, 3 jobs that may be inserted again, a throwing `emplace_back` | `JobsAccounted` (`CountExact`, `OnePlace`), `DrainedAtExit`, `WaitReturnsQuiet` |
| `thread_pool_live` | 2 workers, 2 clients, 2 jobs that may be inserted again for ever | `CallsTerminate` (`clear` and the destructor); `PoolSettles` (jobs and `wait`, unless inserts never end) |
| `dispatch` | 2 channels, both asynchronous or both synchronous, 2 messages and 2 adds each; synchronous ones are also destroyed | `TasksSafe` (no deadlock on `faults_mutex_`, a task outlives the calls of its handler), `ResultPerAdd`, `ErrorNotMasked`, `StopQuiesces`, `DispatchProgress` |
| `channels` | 3 threads; 3 messages; 3 values; 3 bytes in writes and reads of up to 3, block 2; 2 waiters, of which one also flushes and closes, 3 ticks 2 units apart, 6 units of time; 3 calls of a generator | `NoLostWakeup`, `ClosedForGood`, `Releases` for every class; `Delivers` (`InOrderOnce`, `NothingMissed`, `WasteBounded`, `NoDrift`, `GeneratorServes`); `IsAStream`; `TicksKept` (`AheadBounded`, `TicksHandled`, `FlushCatchesUp`) |
| `named_mutex` | 3 processes, all mortal | `MutualExclusion`, `NeverStuck`, `LockReturns` |
| `uri` | a scheme in 4 spellings, 2 to 6 arguments for each setter, most with delimiters in them, 5 literals; 4 forms of one to three pairs, with delimiters in keys and values, empty keys, empty values, and both, between either delimiter, with and without `lone_keys` | `TextInStep` (`PartsInPlace`, `Reparses`), `FormArrives`, `EachItsOwn` (the refinement of `UriElements`) |
| `paths` | 3 trees with files, directories, links (also one that leads nowhere and one that leads to itself) and a second device; 41 calls alone, pairs of calls that meet, and searches; and all names of up to 6 characters, with others of up to 4 | `MoveNeverLoses`, `CopyFaithful` (`CopyIsExact`, `NoClobber`), `PeersAgree` (removers, makers and appenders), `SearchComplete` (`RangesLeadDown`, `VisitsAll`), `AllEnd`; `NormalForm` (`Canonical`, `SameFile`), `NamesRelate` (`TakenApart`, `CommonIsLongest`, `LeadsBack`, `ExtensionOnly`) |
| `sockets` | 2 threads with a socket each and peers that send 3 bytes; a writer whose connection holds one and a half messages; a server with a set of 2; 3 handles | `HandleIsOwn`, `OwnBytes`, `SetTruthful` (`NoDangling`, `SetTellsTruth`) |
| `streams` | 6 outputs of a command; 2 signals, each sent twice; 6 scripts of a writer and 4 kinds of reader, pipe of 2, `fgets` of 4; 2 `Fdio`, 2 `TempFile`, 6 descriptors, 2 names | `OutputWhole`, `StatusOnce`, `ProcessDrains`; `SignalsSafe`, `SignalsServed`; `TextWhole`, `StreamEnds`; `FilesOwned` |
| `dispatch_destroyed` | asynchronous channels destroyed in the set | violates `DestroyedIsDropped` |
| `socket_write` | a connection with room for one and a half messages | violates `WriteDelivers` |
| `move_full` | the trees and calls of `paths`, on a disk that may be full when a file is closed | violates `MoveKeepsData` |

Bounds. Two workers give an owner and a thief of every queue; the third job lets
a queue hold two while one runs. Two clients let `clear`, `wait` and `insert`
overlap with each other and with inserting jobs. Two channels are enough for one
to fault while the other is handled, and two adds for a result of the first life
to be confused with the second. In `channels` the third thread steals what the
first two are woken for; three bytes reach each of the three branches at the end
of `read()` (all read, more than half, less than half); three values separate
"new", "seen" and "written back"; a flush can skip one, two or three ticks.

In `uri` every setter has an empty argument, one without and one with a
delimiter where it takes one; a path is cut at `MaxPath` units because
`set_path` and the related URIs could lengthen it for ever. Names of six
characters hold three elements, or two with doubled slashes, and every
redundancy next to every other. Two trees are enough for each branch of the
functions in `paths`, and files of one and two blocks for a write that is the
last and one that is not; pairs of calls are those that touch the same paths. The
third tree is there to be searched: its directories lie beside other members, one
below the other, one of them empty, so that a search comes back to a directory of
which it has not seen all. Three bytes from a peer can be read in every way that
has an order; a server's peer sends one, as only its presence matters to a set.
The four forms share keys and values between them so that each of the delimiters
"&", ";", "=", "#" and "?" is in one, also the one that is put between pairs. Three
handles serve a server and two clients; the lowest free number is given again at
once. In `streams` the blocks are as small as the code's
conditions allow, so that lines end inside, at and between blocks; three
descriptors beside the standard ones are fewer than the objects that want one,
so that they are reused and run out.

The constants named `Max...` bound counters that only grow; the deadlock check
is on except where the program may really stop (all processes dead; a channel
destroyed for good; a function that has returned; the end of a stream).

Symmetry is used for the jobs of `thread_pool_safety`, and nowhere where
liveness is checked.

## Fairness

Only what the machine does is fair, never a caller. In `ThreadPool`, threads in
the middle of an operation continue, workers run, and a job returns; strong
fairness for the return of a job is needed because a job may insert others
again and again before it does. In `Dispatch`, the main thread continues inside
`run`, `stop` and the destructor, and channel threads continue; handlers
return. In `Channel`, a notified thread gets the mutex, and a thread inside
`read_all` goes on. In `NamedMutex`, a waiter gets the semaphore if it is up
again and again (strong, as for a fair semaphore), the clock runs, and holders
unlock. In `FileOps` and `DeepSearch`, a process that has not stopped makes its
next system call. In `Process`, the command and its reader run, and signals do
not cut short every `fread` for ever (strong fairness for the `fread` that gets
something). In `PosixSignal`, both threads run, and `sigtimedwait` has the limit
that the code gives it. In `IoStream`, both ends run.

## Findings

Three are outcomes of violation runs; `PROJECT.json` quotes the documentation.

* A channel destroyed after it was closed is still returned by `run`
  (channel.cpp:242).
* `Socket::write` sends the beginning of the buffer again after a short `send`,
  and counts `EAGAIN` as -1 (net.cpp:583).
* `copy_to` does not ask if `fclose` stored the last block, and `move_to` removes
  the source when it has returned: on a full disk the end of the file is lost
  (path.cpp:683).

The following were noticed while modelling. The models do what the code does,
and the properties are stated so as to leave these cases out, by a condition
that their comments name.

*ThreadPool, Dispatch, channels.* A throwing `emplace_back` leaves
`unfinished_jobs_` one too high for ever (thread-pool.hpp:71), so that `poll` is
never true again (docs/thread-pool.md:100); the model calls such a job
"leaked". With synchronous and asynchronous channels in one set, a synchronous
channel whose fault queues behind another is reported twice (channel.cpp:171,
docs/channel.md:258); `dispatch` has sets of one kind. A waiter whose tick was
flushed by another thread takes the next one early (channel.cpp:82,
docs/channel.md:135); `AheadBounded` says how far this can go. The last tick of
a limited timer never reaches the handler (channel.cpp:91, docs/channel.md:71);
`TicksHandled` allows for it. `QueueChannel` is documented as last in, first out
and is first in, first out, as its tests expect. Destroying an open asynchronous
channel of a set joins a thread that nobody wakes. A default-constructed
`ValueChannel` of a scalar type may swallow its first value (the exception in
`NothingMissed`); `ValueChannel::clear` is declared and not defined.
`TimerChannel::flush` divides by zero if the interval is zero; `read_all` spins
if the block size is set to zero. A generator that closes its own channel locks
a mutex that it holds.

*NamedMutex.* `try_lock` blocks (named-mutex.cpp:73, docs/named-mutex.md:26);
`try_lock_until` compares the result of `sem_timedwait`, -1, with `ETIMEDOUT`,
so a timeout throws.

*Uri.* `set_query("")` clears the query, and a query is not escaped when it is
set (docs/uri.md:102-107); `query()` decodes what
`make_query` encoded and `parse_query` decodes again (docs/uri.md:102, 231), so
that of the forms only those without delimiters survive `parse_query(query())`:
`FormArrives` promises all others to who parses the query of `str()`; the host of
"http://h?q" comes out as "h?q".

*Path.* The result of `fclose` is dropped in `save` too (path.cpp:861), so that
what it was to write or append may be missing; `CopyIsExact`, `MoveNeverLoses` and
`AppendersKeep` say nothing of a process to which this has happened
(`unflushed`). `Path("/.//a")` is "//a"; `Path("a").relative_to(".")` is "../a";
`change_ext("")` of "a/..b" gives "a". Overwriting an ancestor of the source, or
something inside it, removes the source; copying a directory into itself does
not end by itself; `make_symlink` with `overwrite` throws for a dangling link;
two concurrent `make_directory(recurse)` may throw (docs/path.md:565). `move_to`
compares files by `id`, which follows links: a link moved onto the file that it
leads to replaces that file without `overwrite`, and so does a file moved onto a
link to it (path.cpp:768, docs/path.md:594; the exception in `NoClobber`). A
bottom-up `deep_search` follows links despite `no_follow`; a top-down one gives
a directory twice if it vanishes under it.

*Sockets.* A closed member of a `SocketSet` makes `select` fail with `EBADF`:
`wait` returns true, `read` false, the other members starve and the closed one
is never given. `close` is not atomic, so that two threads that close one socket
may close a handle already used again (docs/channel.md says it must be async
safe). An empty datagram closes a UDP socket.

*Process, signals.* `wait_for` of a process blocks in `fread` beyond its time.
`TextProcess::read` without a wait may split a line, and `read_all` leaves the
buffer so that its lines come again. `PosixSignal::close` raises `SIGUSR1` in
the calling thread: the waiter elsewhere is released by its time limit only, and
a caller that does not block the signal is killed (the two threads of the model
both have the mask of the constructor, so `NotKilled` does not speak of it). With `SIGUSR1` in the list
the destructor waits twice for one signal; `DestructorGoesOn` names the condition
under which it does not. Objects destroyed in another order
than the reverse of their construction unblock each other's signals.

*Stdio.* `Cstdio::read_line` pads a long unterminated last line with NULs (the
condition `ShortTail`); `write_chars` and `putc` ignore short writes;
`open_always` of `Cstdio` does not create; `TempFile` does not retry when its
name exists, and its move assignment leaves the old file on the disk
(docs/stdio.md:465); `Fdio::dup(int)` onto the number of another object gives it
two owners (the guard of `Dup2`); `fdopen` failing leaks a descriptor.

## Proofs

All theorems are about the specifications that TLC checks, for all values of the
constants that satisfy the assumptions named in the modules: any number of
workers, any finite sets of clients and jobs; any threads, values, bounds,
interval and count; any processes; any objects, descriptors and names; any
clients, handles and connections; any list of signals; any outputs of a command;
any calls of a writer; any trees, calls of processes and path lengths.
Where a theorem needs more, it is a named hypothesis of the theorem, which the
instance of the corresponding run satisfies: `Alike`, `Distinct`, `SlashesPlain`, and that no '\0' is written. The exception is the hypothesis of
`PeersDoNoHarm`, that inode numbers never run out: TLC needs a finite set of
numbers, and its runs use fewer than there are.

| Theorem | States | Hypothesis |
|---|---|---|
| `ThreadPoolProofs!JobsAreAccounted`, `WorkersLeaveDrained`, `WaitIsSound` | `JobsAccounted`, `DrainedAtExit`, `WaitReturnsQuiet` | |
| `DispatchProofs!TasksAreSafe`, `OneResultPerAdd`, `ErrorsNotMasked`, `StopIsQuiet` | `TasksSafe`, `ResultPerAdd`, `ErrorNotMasked`, `StopQuiesces` | `Alike` |
| `ChannelProofs!NeverLosesWakeup`, `DeliversAlways`, `StaysClosed`, `TicksAreKept`, `ImplementsStream` | `NoLostWakeup`, `Delivers`, `ClosedForGood`, `TicksKept`, `IsAStream` | |
| `NamedMutexProofs!Exclusive`, `CanBeHad` | `MutualExclusion`, `NeverStuck` | |
| `SocketsProofs!HandlesAreOwn`, `SetsAreTruthful`, `ReadsItsOwn` | `HandleIsOwn`, `SetTruthful`, `OwnBytes` | |
| `StreamsProofs!SignalsAreSafe` | `SignalsSafe` | |
| `StreamsProofs!DestructorGoesOn` | `NoVainWait` | `Distinct` |
| `StreamsProofs!StatusComesOnce`, `OutputComesWhole` | `StatusOnce`, `OutputWhole` | |
| `StreamsProofs!FilesAreOwned` | `FilesOwned` | |
| `StreamsProofs!AnyTextArrives` | `WritesWhole` and `AllRead` | |
| `StreamsProofs!TextComesWhole` | `TextWhole` | `Nul \notin Chars` |
| `FileOpsProofs!PeersDoNoHarm` | `PeersAgree` | `~IsFiniteSet(Inodes)` |
| `UriProofs!UriTextInStep` | `TextInStep` | |
| `UriProofs!UriEachItsOwn` | `EachItsOwn` | `SlashesPlain` |

**ThreadPoolProofs** proves `JobsAccounted` (`TypeOK`, `CountExact`,
`OnePlace`), `DrainedAtExit` and the action property `WaitReturnsQuiet`. None is
inductive: that the counter
is exact needs that a queue holds only queued jobs, each in one slot (`QueueOK`),
that an executing worker holds its job alone (`CallOK`), and that a job inside
`insert` is held by one thread (`ArgOK`); that nothing is stranded needs that
once the destructor is past its wait nothing is counted and nobody else is in
the pool (`EndingOK`), which rests on `clear_count_` being the number of threads
inside `clear` (`ClearsBalanced`). `IInv` is their conjunction, with one lemma
per action.

**DispatchProofs** proves `TasksSafe`, `ResultPerAdd`, `ErrorNotMasked` and
`StopQuiesces`, under `Alike`: a set has channels of one kind, and asynchronous
ones are not destroyed in it. The findings say what happens otherwise; the
hypothesis is there for `OneAtATime`: with synchronous channels `run`
returns each fault before it polls the next channel, so the queue holds at most
one. The invariant adds what the main thread knows at each place
(`MainKnows`: for instance, when it joins a thread, the first fault names that
thread and the thread has ended), which channels have a thread (`ThreadOfTask`),
and that a fault is an error if and only if the handler threw, a handler that
threw having left its fault or being about to (`ThrowsKnown`). The queue changes
in two ways, and each has a lemma that keeps `FaultsAreFinal`: `FaultAppended`,
for a channel that no fault names yet, and `FaultPopped`. The order of `tasks_`
by address is used through `FirstIn`, that a set which is not empty has a first
member.

**ChannelProofs** proves `NoLostWakeup`, `Delivers` (with its parts
`InOrderOnce`, `NothingMissed`, `WasteBounded`, `NoDrift`, `GeneratorServes`)
and `ClosedForGood` of `Channel`. Each class has its own invariant,
preserved by its own steps (`QueueStep`, `ValueStep`, `BufferStep`,
`TimerNextStep`, `GeneratorStep`); the frame lemmas carry the other classes'
variables along, and `InvStep` puts them together. `NothingMissed` needs
`ValueAgrees`: the stored value is the last one written and, unless it is new,
the one last seen. `NoLostWakeup` rests on `NotifyAllType`, that `notify_all`
leaves nobody asleep, and for the buffer on `ofs_` staying within the buffer
through every branch of `read()` (`ConsumeType`). `NoDrift` is multiplication
distributing over the ticks that one `step()` uses up. `GeneratorServes` needs
`GeneratorCounts`: a value is on its way only while a thread holds the mutex.

`TicksKept` is not inductive either. A tick is given before its time only to
a waiter that fell asleep for one that another thread has used up since; so at
any time before the end of an interval, the ticks used up beyond those before it
are no more than the waiters that are not still asleep for one of these
(`InTime`); `Balance` counts the ticks given against those handled
and those still with a waiter. Both count a subset of the waiters, and rest on
cardinalities that change by one when a waiter moves: for this the waiters are
a finite set. `ImplementsStream` is the refinement: the initial state
maps to an empty pipe, and each step to a write, a read, a clear, a close or a
stutter, because what lies behind the offset is changed by these alone, whatever
`read()` erases in front of it.

**NamedMutexProofs** proves `MutualExclusion` and `NeverStuck`: the semaphore
exists once a process has an object (`Opened`), and is 1 if and only if no
process holds the mutex or died with it, 0 otherwise (`Balanced`).

**SocketsProofs** proves `HandleIsOwn`, `OwnBytes` and `SetTruthful`. The invariant says: a socket is used by one thread at a
time, as the callers must see to (`OneUser`), and a thread in the middle of a
call still finds what it found before (`Knows`); the handle of an open socket is
in the system's table for what the socket was made for, no two open sockets
share one, and each handle in use is that of an open socket (`Handled`); a
connection waits in the backlog, or belongs to one client, or has not begun
(`Connected`); what was sent to a connection is what its client has read and what
is still under way (`Carried`); and a copy of a handle in the set is out of date
only if the socket is closed (`Copied`). The lemmas `HandledTaken`,
`HandledMade`, `HandledFreed` and `HandledKept` are the four things that happen
to the table, and the `...Step` lemmas the calls. Of what is written
only the bound of a connection is proved; `write` is wrong, as `socket_write`
shows.

**StreamsProofs** proves `SignalsSafe` of `PosixSignal`. While signals can come, each thread
that runs blocks all of the list (`Masked`), which is what keeps the process
alive; nothing is pending for a thread while the channel is open (`Raised`); and
the destructor has at least as many `sigwait` calls before it as signals are
pending (`Waited`), so that none is left when it restores the mask. It counts
the entries of a list against a set, hence the lemmas `EnoughWaits`,
`CountAppend` and `CountTail`. `DestructorGoesOn` is about the other side: if no
signal is twice in the list (`Distinct`), the calls are exactly as many as the
signals (`JustEnoughWaits`), and none waits for a signal that is no longer
there. With a signal twice in the list it is false, which is one of the findings.

Of `Process` it proves `StatusOnce` and `OutputWhole`. For `read_all` and `shell`
(`AllOfOutput`), what has been read, what `fread` holds and what is in the pipe
are together what the command has written (`Whole`). For `TextProcess`
(`LinesOfOutput`), the lines so far are the lines of the output up to a position
where one ends, and the buffer, the block and the pipe, one after the other, are
what follows it there (`LinesInv`). So the first line feed of the buffer, if it
has one, is the next end of a line in the output (`ReadsToEnd`), and what `read`
takes is the next of `Cut` (`NextLine`); if the buffer has none, `wait` has let
`read` at it only when the stream was closed, which is when the buffer holds the
whole rest.

Of `IoStream` it proves `TextWhole`, in two halves that meet in the pipe. For
the writer, the texts of all calls have their places one behind the other in
`AllText` (`Places`), and the first calls are made but for what is left of the
last one's `write` calls, whose parts end where its text does (`Made`, `Parts`);
so each byte that `write` moves is the next of `AllText` (`Arrives`). That the
blocks of `write_chars` are its text is `BlocksFit`. For the reader, what the
calls have returned, what the present one has, and what is in the pipe are all
that was written (`LinesHeld`, `AllHeld`); each line that is returned is one line
more of `Cut` (`CutMore`). `fgets` needs more: `str` is empty or at least as long
as what one `fgets` takes, and so a chunk without a line feed that does not fill
its space is a whole last line, if that line is ended or short (`ShortTail`).
`Cstdio::read_line` finds the end of what `fgets` has read by the '\0' behind it
(`TrimmedIs`), hence the hypothesis of `TextComesWhole`, which only this reader
needs; `AnyTextArrives` is what holds without it.

Of `Descriptors` it proves `FilesOwned`. With the types it is inductive
(`FdInv`, `TempInv`); every expression is one of five changes to the owners, and
each of these has a lemma: `AssignsOwns` for a number that is new, the caller's
or standard, `MoveOwns`, `ResetOwns`, `PipeOwns` and `ReleaseOwns`. All rest on
`DeleterSpares`: what is closed is the object's own number, and not a standard
one.

**UriProofs** proves `TextInStep` (`PartsInPlace` and `Reparses`) and the
refinement `EachItsOwn`, for any words, numbers, arguments and strings; the
assumption on them, `UriAssumption`, is that words and numbers are apart from
each other, from the delimiters and from their escapes. The invariant `InStep`
says that the offsets are in order and that each part between two of them has
the form of its element, unit by unit. Every operation is one of three: it
replaces one part (`OnePart`), it replaces user and password together
(`LoginKeeps`), or it cuts the text off and may end it with a new path
(`TailKeeps`); the arithmetic of the offsets is in `ReplacedOrder` and
`NewParts`, once for all of them. `Reparses` needs the converse of the parser:
every match is a `Cut` at the end of its scheme and of its port (`CutIs`), the
greediest match exists (`GreediestIs`), and no match that the pattern prefers
fits a text whose path begins as the grammar asks (`BestMatch`).

For the refinement, each element is read from its own part (`ReadIs`), and
`decode` undoes `encode` (`DecodeEncode`), so a step that replaces one part sets
one element, to a value that a caller gave (`SpliceCalls`). `parent` and
`append_path` look for slashes in the text, while the getter of the path decodes
it; both agree as long as no slash of the path is escaped (`Unescaped`), which
every setter keeps, and `try_parse` if its strings hold none: this is
`SlashesPlain`. Without it, `parent` of a path that was parsed with "%2F" in it
goes up to the last real slash and not to the one that the getter shows.

**FileOpsProofs** proves `PeersAgree`, for any trees, any processes and any
path lengths. Its first part, that each call leaves a tree (`TypeOK`), holds
whatever the calls are: the tree is finite, so that a new file finds a new
number (`FreshIsNew`, hence the hypothesis), and `WithNew`, `WithSame`,
`WithoutGood` and `MovedGood` are the four things that a system call does to it;
a path is checked before it is used, so that what it names is in a directory.
The other parts are about processes that all do the same, and each has an
invariant of its own, which `PeersInv` puts together. *Removers:* the tree only
shrinks, each member of a directory that a waiting frame has listed is gone, the
one above it, or still to come (`RemoverStack`), so that the directory is empty
when its own turn comes (`RemoverTop`); of what is gone, each was asked for
(`OnlyAsked`). *Makers:* the tree only grows, by directories (`Grown`); a frame
waits for the one that makes its parent and is longer than those above it
(`MakerStack`), and if its second `mkdir` fails, a file is in the way or somebody
else made the directory after it looked (`Waits`). *Appenders:* the file keeps
its number and its beginning (`Kept`), and for each block of what is saved there
are at least as many places in what was added as processes that wrote it
(`Counted`), a cardinality that grows by one with each write (`OneMore`).

Only model-checked: the liveness properties (they need fairness, and ENABLED,
which the prover does not treat), among them the rest of `ClosedAndGone`; the
forms of `UriQuery` (`FormArrives`), the names (`NormalForm`, `NamesRelate`), what
a move keeps and a copy gives (`MoveNeverLoses`, `CopyFaithful`) and
`deep_search` (`SearchComplete`). The last three compare pictures of whole trees,
through the recursion of `copy_to` and the stack of a search, and need invariants
about every frame of it that have not been found. What the recursive
and folding operators on forms, names and trees compute for every input is not
proved: the induction theorems of the library take an operator as a parameter,
which the prover cannot instantiate, and it does not treat `RECURSIVE`. TLC
compares these operators with their reference definitions on the inputs of the
runs. (For one function over numbers, `Together`, the least number that breaks a
claim does instead: `UpTo`.)

## Not modelled, and the plan

Left out for good: code for Windows and macOS (`Winio`, polling waits), the spelling of names, addresses and DNS (values without protocol
state), UDP, the options of sockets, file positions and open modes, attributes,
times and permissions of files, standard directories, time formats, version.

In `Dispatch`, calls that a synchronous handler makes on its own `Dispatch`
(`stop`, destroying its channel) are left out: they erase the element that the
loop in `run` stands on, which is undefined behaviour that no caller may rely on.
An asynchronous channel destroyed while open is modelled, and excluded from the
passing runs, because nothing says who should close it.

What remains to be done:

1. Proofs about `FileOps` and `DeepSearch`: that no call loses what it was to
   move or copy, and that a search finds everything once.
2. `TcpServer` and `SocketSet` inside a `Dispatch`.
