# Verification of the aesd driver and socket server

TLA+ modules for the programs of this repository, the TLC runs that check them on
small instances, and TLAPS proofs for every instance. `PROJECT.json` maps every
definition to the lines it models.

## The system

| Part | State | Operations | Talks to |
|---|---|---|---|
| circular buffer (`aesd-char-driver/aesd-circular-buffer.c`) | ten entries, `in_offs`, `out_offs`, `full` | init, add an entry, find the entry of an offset | used by the driver under its mutex |
| character driver (`aesd-char-driver/main.c`) | `aesd_device`: mutex, buffer, the unterminated `write_buffer` and its size, `buff_size`; the kernel heap; `f_pos` per open file | open, release, read, write, llseek, ioctl `AESDCHAR_IOCSEEKTO`, load, unload | system calls of any number of threads |
| server, connections (`server/aesdsocket.c`) | the global `dataFileDescriptor`, one mutex, a list of nodes, a thread per client | accept, start a thread, scan and join; receive, store, read back, send | clients by TCP, the driver by system calls |
| server, life cycle (`server/aesdsocket.c`) | `result`, `sock_fd`, descriptors 0-2, two signal handlers, `fatal_error_in_progress`, `s_flags`, the list of nodes | start up, become a daemon, handle SIGINT/SIGTERM, clean up, exit | interrupts all threads above |
| server, timestamp thread | compiled out (`USE_AESD_CHAR_DEVICE`) | | |
| threading example (`examples/threading/threading.c`) | a `thread_data` per thread, the caller's mutex | start a thread; sleep, lock, sleep, unlock, report | its caller, which joins the thread and frees the struct |
| systemcalls example (`examples/systemcalls/systemcalls.c`) | the process's children, `output_fd` | `do_system`, `do_exec`, `do_exec_redirect` | commands it starts; all threads of the process share its children |
| finder application (`finder-app/`) | files below `/tmp/aeld-data`, the result file | `finder-test.sh`: remove, write with `writer`, count with `finder.sh`, compare, remove | later runs, by the files that stay |
| scripts, validation files | none of their own | build, install, load | |

What is hard here: several writers extend one unterminated command while allocation
fails and signals interrupt the wait for the mutex; ownership of each heap block moves
between three holders; the array wraps; all server threads share one descriptor
variable and leave error paths with the mutex locked; the accept loop waits for
threads; signal handlers run clean-up code in the middle of the code that uses the
same list; `wait` collects whichever child ends first; a time in milliseconds overflows on its
way into `usleep`; a killed test run leaves files to the next.

What makes each part correct:

- buffer: it holds the newest entries in order, and the search agrees with the plain
  concatenation of what it holds;
- driver: no pointer dangles or is shared, blocks are not lost, the mutex is held
  exactly in critical sections, the device is a log of its newest commands, reads
  deliver the concatenation, every byte can be reached by a seek, every call returns;
- server: a client's bytes all reach the device in order, the reply is the device's
  content, no descriptor leaks, accepting never waits for a client, every client is
  answered, a termination signal ends the process, and each node and the address list
  are freed once, whichever call failed;
- threading example: a thread holds the mutex from its lock to its unlock, sleeps no less
  than it was told, and `thread_data` lives as long as it is used;
- systemcalls example: a call tells what became of its own command, returns, and closes
  its output file;
- finder application: a run whose files can be written succeeds whatever earlier runs
  left, with exact files, and leaves nothing behind.

## Modules

| Module | What it is |
|---|---|
| `CircularBuffer` | the three operations of the buffer as operators, and its invariant shape |
| `CircularBufferUse` | a machine that adds all small entries; checks the operators against a reference definition |
| `DriverOps` | the driver's computations: where a write is cut, where a seek command leads |
| `CommandLog` | abstract specification: what `/dev/aesdchar` promises, a sequence of commands and a tail |
| `CharDriver` | the driver: system calls of threads on files, heap block by block, load and unload |
| `DriverOpsProofs` | lemmas about the operators: flattened sequences, the buffer's search, seek commands, `AddEntry`, the cut of a write |
| `CharDriverProofs` | TLAPS proofs about `CharDriver` and its refinement of `CommandLog` |
| `SocketServer` | accept loop and client threads, one descriptor table, the device's data |
| `ServerLifecycle` | start-up, daemon, signals, clean-up and exit, one stack of frames per thread |
| `SocketServerProofs` | TLAPS proofs about `SocketServer` |
| `ServerLifecycleProofs` | TLAPS proofs about `ServerLifecycle` |
| `CircularBufferProofs` | TLAPS proofs about `CircularBufferUse` |
| `Threading`, `ThreadingProofs` | the threading example, in time, and TLAPS proofs about it |
| `SystemCalls`, `SystemCallsProofs` | the three calls with the children of the process, and TLAPS proofs about them |
| `FinderApp`, `FinderAppProofs` | `finder-test.sh`, `writer` and `finder.sh`, run after run, and TLAPS proofs about them |
| `MCAlone` | the buffer, both examples and the finder application for TLC, one of them per behaviour |
| `MC*` | payloads, requests and symmetry of the checked instances |

**CharDriver.** A system call is cut where others can see the cut: argument checks
(`ReadCall`, `WriteCall`, ...), the wait for `mutex_lock_interruptible` (`Locked`, or
`Interrupted` by a signal), the critical section with its `mutex_unlock`, and the
return to the VFS, which stores its copy of the file position (`Return`; the position
of a call that failed is dropped). Inside the critical section nothing is visible to
others, so it is one action: `ReadEof`/`ReadCopy`, `WriteAppend`/`WriteCommit`/
`WriteNoMemory`, `Llseek`, `AdjustFileOffset`. Arguments are chosen at the step that
first looks at them. `heap[p]` is `FREE` or the bytes of block `p`; `Kmalloc` and
`Krealloc` pick any free block or fail. Read positions, sizes and indices are
unbounded naturals: ten entries of user-sized writes stay far below `size_t`.

**SocketServer.** One step per system call of `client_data_handler`; an unlock is
joined to the read or write it follows. `fds` is the process's descriptor table: each
open or accept takes the lowest free number, a close through the shared
`dataFileDescriptor` closes whatever that number means at the moment, and a write or
read through it goes there, be it the device, another client's socket or nothing. A
chunk is what one `recv` returns. `GiveUp` is `return NULL` in its error paths, with
the mutex left as it is. `Write` fails on a descriptor that is closed, on the device when it
has no memory (`NOMEM`; what the device then keeps of its tail, `CharDriver` shows) and on
the socket of a client that reset its connection, where SIGPIPE may end the process instead
(`Sigpipe`). `Read` through a descriptor that became another client's socket waits for that
client, mutex held, takes what it sends, gets 0 once it has closed, or fails. `FDs` are the numbers free once the server listens. The device
appears through the same operators the driver is built from (`AddEntry`, `FindEntry`,
`AppendIndex`, `AdjustedOffset`): a write and a read are atomic under the driver's
mutex, which `CharDriver` checks.
A second `pthread_join` of a thread is undefined; `Join` chooses among returning with an
error, crashing, and waiting for a thread that reuses the descriptor.

**ServerLifecycle.** Main installs the handlers, makes the calls of start-up, each of
which may fail into `cleanup_on_exit` (`StartUp`), becomes a daemon or not, and runs the
accept loop; what the threads do with their clients is cut down to when they are inside
a inside a library lock and to the data file they open. `result`/`released` follow getaddrinfo's list,
`streams` what descriptors 0, 1 and 2 are, `dataFileDescriptor` the global: 0 until a client
has opened the data file, then that file's number, which is one of 0, 1, 2 only if that
stream was closed (`BEYOND` stands for all others). `CloseDataFile` is the clean-up's first
`close`; before the first client it closes descriptor 0, the terminal's or the daemon's. Of the fork in run_daemon the child is followed; the parent
exits at once. `frames[t]` is the stack of thread `t`: its own code and the
handlers above it. `Send` follows Linux: main takes a signal unless it has another
pending or has this one blocked. A handler runs with its own signal blocked and
`raise` makes the signal pending for the caller, to be delivered once it is unblocked.
`cleanup_on_exit` is cut into its statements, because another handler may come between
any two; its search for a node that is gone runs off the list and crashes. `library`
stands for the locks inside malloc, free and syslog. What else a client's
`dataFileDescriptor` means, and what its threads' closes of it can hit, is in SocketServer.
The clean-up closes neither socket, because the flags that would ask for it
(`socket_open`, `client_fd_open`) are set nowhere.

A `pthread_create` that fails returns a positive number, which the code compares with -1:
in both modules (`Accept`, `Create` with the fault `CREATE`) the node is then inserted all
the same, with no thread to serve its client.

**Threading.** `StartThread`, `MallocFails` and `Create` are
`start_thread_obtaining_mutex`; `Begin` to `Succeed` are `threadfunc`, cut at its two
sleeps and its two calls on the mutex, and `GiveUp` its four early returns, the mutex as it
was. `Tick` lets one unit of time pass for every thread that sleeps: `timer` is what is
left, `waited` and `held` what really passed, and `Micros` the conversion to microseconds
with its two wraps. `Join` is the caller the header describes.

**SystemCalls.** `at` is where a thread is in its call: `OpenOutput`, `Fork`/`ForkFails`,
`AwaitCommand`, `CloseOutput`. `proc` holds each child until it is collected; `Execv` and
`CommandEnds` are its life. `Wait` takes any child that has ended, or without one fails and
leaves the status to chance (`NoStatus`); `Interrupted` is a signal that makes it fail, an
action of its own that no fairness asks for; `Waitpid` is the wait inside `system`. `own` and `disturbed`
are history variables: how the call's own command ended, and whether another child or a
signal came into its wait. The handlers `system` blocks (SIGINT, SIGQUIT) play no part in
its result and are left out. `MayFork` is the process's limit of children (`MAXCHILDREN`).
`ExecOnly` are the threads that call nothing but `do_exec`.

**FinderApp.** One action per command of the scripts; `run` holds the shell's variables
and is reset when a run ends. `rm -rf` removes file by file, so that `Kill` may come in the
middle. `set -e` is `ProceedIf`. The writer's open and write are separate steps and each
may fail; its write starts at offset 0 of what is there (`Overwrite`). The scripts read
`assignment.txt`, which in this repository names a later assignment, so the directory is
made. `Matches` is the `grep` for `MATCHSTR`, which has no anchor at its end. finder.sh's
`grep -q "$searchstr"` (`GrepAnswers`) takes the string as a pattern, or as an option: for
`Plain` strings its answer is whether the file holds them, for others it may be either.

**MCAlone.** These parts share no state with the others. One run holds them all because a
behaviour chooses its `part` at the start and takes steps of that part only: the state
space is the sum of theirs, and each fairness condition speaks of its own part's variables.

## Runs

| Run | Result | What it shows | Bounds |
|---|---|---|---|
| `parts_alone` | pass | `Shape`, `KeepsNewest`, `FindAgreesWithConcatenation`; `ThreadingTypeOK`, `MutexHeldInside`, `TimesKept`, `DataOutlivesThread`, `ThreadsEnd`; `CallsTypeOK`, `LoneCallTruthful`, `SystemNeverLies`, `OutputClosed`, `EveryCallReturns`; `FinderTypeOK`, `RunSucceeds`, `FilesExact`, `SuccessCleansUp` | 4 slots, 9 entries of 0-2 bytes: the array is filled twice over, with empty entries at every border; 2 threads, a millisecond of 2 units and an unsigned int of 4 values, so that 1 ms fits and 2 ms wrap; 2 callers, one of them of `do_exec` only, with 3 process numbers and up to 2 children, so that a caller may go on forking while another waits, every fault; runs one after the other, without end, of 1-2 files with a short, a long or a special string in two directories, killed or failing anywhere |
| `driver_memory` | pass | `TypeOK`, `LockOwner`, `MemorySafe` with every fault at once and a reload | 2 threads, 2 slots, 4 writes, 4 blocks: eviction while both threads hold temporaries |
| `driver_data` | pass | `ImplementsCommandLog` (refinement), `NoLeak`, `EveryByteSeekable`, `ReadsTheConcatenation`, `SeekReachesUnwrappedCommand` | 2 threads on one file, 4 writes of pieces, lines and bytes after a newline into 2 slots, failing kmalloc, all whences, seeks in and out of range |
| `driver_calls_return` | pass | `CallsReturn` under fairness | 2 threads, 1 slot, signals, bad user buffers |
| `server_turns` | pass | `ClientsAreServed`, `EveryByteStored`, `DescriptorsClosed`, `ReplyIsTheContent`, `ClientsAnswered` | 2 clients in turn, device new or holding commands, 3 descriptors so that a leak is felt |
| `server_races` | pass | `TypeOK`, `AcceptLoopFree`, `NothingStoredTwice` | 2 clients at once, failing opens, allocations and thread creations, a device without memory, resets, early closes |
| `server_one_signal` | pass | `TypeOK`, `NodesFreedOnce`, `AddressListFreedOnce`, `DaemonDetached`, `SignalEndsProcess` | 2 clients, daemon or not, one signal at any moment, failing start-up calls, accepts, allocations and thread creations |
| `driver_seek_wrapped` | violation of `SeekReachesCommand` | the ioctl counts slots, not commands, after an eviction | 3 lines into 2 slots |
| `driver_krealloc` | violation of `OnlyWrittenBytes` | a failed krealloc loses the tail but keeps its length | 3 writes |
| `server_shared_descriptor` | violation of `ClientsAreServed` | two clients at once share one descriptor variable | 2 clients |
| `server_second_signal` | violation of `SignalEndsProcess` | SIGTERM during SIGINT's handler is raised for ever | 1 client, 2 signals |
| `systemcalls_wait` | violation of `ResultIsOwn` | `wait` collects another thread's child, and its result is returned | 2 callers, no fault |

Two slots are enough for the driver: wrap, eviction, and the difference between slot
order and command order need two, and `parts_alone` covers four. Thread symmetry and
block symmetry are used in the driver's safety runs only. `MaxWrites`, `MaxLoads`,
`MaxActive`, `MaxSent` and `MaxAdds` are the only counters bounded, each in the guard of
the action that counts; `MAXFILES` bounds an input, and `MAXCHILDREN` is the system's own limit. No counter bounds the number of calls
or test runs: both return to a state they were in. Deadlock is not checked: writers that used up `MaxWrites`, clients
that are all served, threads that were joined and a process that ended are at rest.

**Passing runs and their conditions.** Some properties hold only up to a point, and
their comments say which: `NoLeak` without signals and failing reallocations,
`SeekReachesUnwrappedCommand` while the oldest command is in slot 0, `ReplyIsTheContent` for
a client that seeks in the same case, `EveryByteSeekable` exact until the buffer is full, `server_turns` for clients that do not overlap (not even
with the last `close` of the thread before), `AcceptLoopFree` and `ClientsAnswered` until
a thread is joined twice, `AddressListFreedOnce` unless the signal comes between
`freeaddrinfo` and `result = NULL`, `SignalEndsProcess` unless malloc, free or syslog was
interrupted; `MutexHeldInside` and `ThreadsEnd` until a thread gives up holding the mutex,
`TimesKept` for times whose microseconds fit an unsigned int, `LoneCallTruthful` for calls
that no other child and no signal met, `EveryCallReturns` unless other threads start children for
ever, `RunSucceeds` for strings that grep takes literally and runs that do not overlap. Each of these borders is a divergence of the code.

**Fairness.** Kernel threads and pthreads are scheduled: weak fairness of each thread's
steps. Mutexes are handed on: strong fairness of acquiring one (the kernel's mutex is
fair by its wait list; for pthread and library locks it is an assumption, as they only
promise progress). In `Threading` time passes (weak fairness of `Tick`), created threads
run and are joined; each thread locks once, so weak fairness is enough for the mutex. In
`SystemCalls` the callers are scheduled and every child comes to its end: a command that
never ends keeps its call waiting, in the code as in the model. Nothing is assumed of faults,
of signals being sent (`Interrupted`, `Send`), of new calls, or of clients: a client need not
come, close or reset, and a thread in `recv`, in a read of a socket or in `accept` may wait
for ever for one that has no more to say (`AwaitsClient`). Nor is `wait` fair among the
threads that call it: whoever keeps starting children may collect every other child first,
so `EveryCallReturns` excepts a `wait` beside endless forks of other threads, and nothing else.

## Divergences found

With a run: the five violations above. Met while modelling, without a run of their own:

- `buff_size` is never decreased when an entry is evicted (main.c:277), so llseek with
  `SEEK_END` lands behind the data;
- a writer interrupted while it waits for the mutex leaks its temporary buffer
  (main.c:192-197), and unloading leaks an unterminated command (main.c:509);
- the server ignores the count `write` returns (aesdsocket.c:647): of two lines in one
  chunk the second is lost;
- nodes of joined threads stay in the list and are joined again by every later
  connection (aesdsocket.c:536-538);
- a seek command whose newline comes in a later chunk leaves its descriptor open
  (aesdsocket.c:611, 631);
- a client that closes before sending a newline makes its thread loop for ever
  (aesdsocket.c:594-667);
- `cleanup_on_exit` frees nodes, and main's call destroys the mutex, while client
  threads still use them (aesdsocket.c:168-182);
- the daemon closes descriptor 0, opens `/dev/null` as 0 and closes it again
  (aesdsocket.c:432-462), so standard input stays closed and the next descriptor is 0;
- until a client has opened the data file the clean-up closes descriptor 0, which is not its
  own (aesdsocket.c:33, 151): the terminal's input, or in the daemon whatever got that number;
- a device without memory makes the thread return with the mutex locked (aesdsocket.c:648-652);
- a signal between `freeaddrinfo` and `result = NULL` frees the address list twice
  (aesdsocket.c:70);
- a failing `pthread_create` goes unnoticed (aesdsocket.c:521): the connection stays open
  and nobody serves it;
- a thread of the threading example whose second sleep is cut short returns with the mutex
  locked, and one that returns NULL loses its struct (threading.c:36-65);
- `ms * 1000` wraps at 2^32 and turns negative times into long ones (threading.c:36, 52);
- a failing `wait` leaves `status` uninitialised (systemcalls.c:68-73), and a child whose
  `execv` failed runs the parent's exit handlers (systemcalls.c:64);
- a thread's `wait` may be starved by another that keeps starting commands
  (systemcalls.c:71);
- finder.sh gives the string to `grep` as a pattern (finder.sh:27): a test run with `[` or
  `^a$` fails though its files are right;
- the writer does not truncate (writer.c:44); only the `rm -rf` before it keeps the files
  exact;
- `main` always returns -1, since `command_status_success` is set nowhere.

## Proofs

Every theorem holds for any values of the constants that satisfy the module's named
assumptions: any number of threads, clients, blocks, slots and processes, any payloads and
every combination of faults, except where a hypothesis below excludes some. A hypothesis
stands in the theorem's `ASSUME`, never in the module. Every safety and action property of a
passing run is the conclusion of a theorem.

The named assumptions: `MaxOpsAssumption` (`MAX_OPS` is positive), `DriverAssumption`
(special values are distinct, payloads are byte sequences, counts are naturals and offsets
integers), `UseAssumption` (sizes are naturals), `ServerAssumption` and
`HeldAssumption` (requests are chunks of bytes with a seek or none; a device that was used
before holds commands whose sizes are their lengths), `LifecycleAssumption`,
`ThreadingAssumption`, `CallAssumption` and `FinderAssumption`. TLC evaluates each of them.

**`DriverOpsProofs`** is about operators, not behaviours. `FlattenSeq`, the sums of entry
sizes in the search and those of a seek are recursive. What such a definition computes for
*every* input needs induction over data; the library's induction theorems take an operator
as a parameter and cannot be instantiated. The lemmas here reach the same end with sets:
`LeastNatural` (from well-foundedness of `<`) gives the least counterexample in a *set* of
naturals, `CountUp` and `GrowUp` turn that into induction over a set of numbers and a set of
sequences, and each use first shows that the recursive function exists (`FlattenExists`,
`SumsExist`). On these rest `FlattenSlice` (a part of one command is a part of the
concatenation), `FindsPlace` (the search finds the command and the byte of each position),
`SeeksPlace` (what `aesd_adjust_file_offset` adds up) and `AddedContents` (what an addition
does to the entries in order).

**`CircularBufferProofs`**: `ShapeKept`, `NewestKept`, `SearchIsExact`, for every capacity and
any number of additions. The history alone does not determine the struct; `PlaceInv` says
where every entry lies, in slot order until the buffer is full (`NotYetFull`) and from
`out_offs` on, around the end, afterwards (`Full`). `SearchIsExact` is `FindsPlace` in every
reachable state.

**`CharDriverProofs`**

- `InvariantHolds` (`DriverInv`), `LockOwnerHolds`, `MemorySafeHolds`, `MutualExclusion`,
  under every fault. `MemorySafe` alone is not inductive: a write moves a block from
  `write_data` to `write_buffer` to a slot, so the invariant says that the three sets of
  owners are disjoint, that sizes agree with contents, that only the mutex's owner is inside a
  body, and that a call under way keeps its file open and the module loaded.
- `DriverImplementsLog`: the refinement of `CommandLog`, one lemma per action, with `LogInv`:
  which slots are filled, that an unterminated tail has a block, and that a write under way
  still holds what it was given. Hypothesis: krealloc does not fail; a failing one loses the
  tail and keeps its length, and then the device is no log.
- `OnlyWrittenBytesStored` carries an invariant of `CommandLog` (`CleanInv`) back through
  that refinement; the same hypothesis shows that the failing krealloc is the only cause of
  the run `driver_krealloc`.
- `NothingLeaks` (`LeakInv`). Hypotheses: only kmalloc fails, one load. A signal, a failing
  krealloc and an unload over an unterminated tail each leak in the code.
- `DriverTypeCorrect`, `SizeCoversEveryByte`, `ReadsAreExact`, `SeeksAreExactUntilWrap`, with
  `DataInv`, which says nothing of the tail and so holds under every fault, krealloc's too.

**`ServerLifecycleProofs`**: `LifecycleTypeCorrect` and `DaemonIsDetached` (`TypeInv`,
whose `StreamsOK` says of the three standard descriptors, before and after the daemon's
redirection, which may be closed: any clean-up may close 0, whose number the data file may then have,
while 1 and 2 of a server that accepts stay as they are),
`AddressListIsFreedOnce` (`AddressInv`), for any number of signals; `NodesAreFreedOnce`
(`NodesInv`) for at most one signal, which may come at any moment: with two, the handlers of two
threads may both find `fatal_error_in_progress` unset and free the same list. The argument about
interruptions is the same everywhere: a handler returns only after it raised its own signal
again, so the frame it returns to has a signal due and never runs. What the interrupted code
relied on is therefore claimed only while no signal is due (`NodesOK`), and a list that was
freed twice only below a frame that is interrupted for ever (`AddressOK`).

**`SocketServerProofs`**

- `AcceptLoopIsFree` (`AcceptInv`), under every race and fault. The flag a thread sets is read
  without a lock, so `CompleteIsDone` says that it is never set early or reset, and
  `BacklogPending` that a connection is accepted once.
- `ServerTypeCorrect` (`DataInv`) and `NothingIsStoredTwice`, under every race and fault.
  The latter needs what is still under way: what the device holds and the bytes each thread
  has received and not yet written (`Pending`, a set whose cardinality is the sum over the
  threads) together are never more than was received (`StoredOnce`).
- For clients in turn: `ClientsInTurnAreServed` and `DescriptorsAreClosed` (`TurnInv`: which
  descriptors are in use at each label, and that the shared one is the thread's own),
  `EveryByteIsStored` (`StoredInv`: what was received is what is stored and what is in the
  thread's buffer, behind what a full device gave up) and `RepliesAreTheContent` (`ReplyInv`:
  the reply so far is the content between the seek's position and the file position).
  Hypotheses of all four: `MaxActive <= 1`, no fault but `MALLOC` and `EOF`, two free
  descriptors, and `SeeksAreWhole` (a seek and its newline come in one chunk). Without each
  of them the code really fails: the shared variable is overwritten, a failing open or a reset
  makes the thread give up, the device cannot be opened beside the socket, a seek in pieces
  leaves its descriptor open. `EveryByteIsStored` also needs `OneLinePerChunk` (of two lines
  in a chunk the second is lost), `RepliesAreTheContent` also `NoGarbledSeeks` (the ioctl
  would go to an arbitrary place).

**`ThreadingProofs`**: `ThreadingTyped`, `MutualExclusion` (`MutexHeldInside` is inductive with
the types), `DataLives`, and `TimesAreKept` for every unsigned int and every millisecond.
`TimesKept` is about the end of a sleep; `TimeInv` relates the clock to the timer during it
(`waited + timer >= sleep`), and `MicrosExact` shows that a time that fits is converted
without loss.

**`SystemCallsProofs`**: `CallsTyped`, `OutputIsClosed`, `SystemIsHonest` and `LoneCallTells`.
`StageInv` knows what each stage has of its child. `LoneCallTells` needs a counting
argument: there are always as many children as waiting callers (`ChildForEach`), since each
call that stops waiting takes at most one away, so a caller that waits alone with one child
waits for its own (`Alone`). Assumed is that there are finitely many threads and processes.

**`FinderAppProofs`**: `FinderTypeCorrect`, `EveryRunSucceeds`, `FilesAreExact`,
`SuccessLeavesNothing`, the second for plain strings. Of what earlier runs left, wherever they were killed, the invariant
keeps only that every file is in a directory that exists (`DiskOK`). From the removal on,
`FilesOK` knows the files of `WRITEDIR` one by one, and `CountsOK` that the matches so far and
the files still to be searched add up to `NUMFILES`.

**Model-checked only.** The liveness properties `CallsReturn`, `ClientsAnswered`,
`SignalEndsProcess`, `ThreadsEnd` and `EveryCallReturns`: they rest on fairness and `ENABLED`,
which this prover does not reason about. And the five violations, which are counterexamples.

## Plan

Done: 1 `CircularBuffer`, 2 `CommandLog`, 3 `CharDriver`, 4 `SocketServer`,
5 `ServerLifecycle`, 6 `Threading` and `SystemCalls`, 7 `FinderApp`, each with the runs
above; 8 the proofs above. Next:

9. of the liveness arguments, the safety steps they are made of, as theorems: a thread that
   waits for the device's mutex finds it held by one that can go on; no handler waits for a
   library lock it holds itself unless it interrupted one;
10. what holds of the nodes when several signals come, by which threads take them.

## Not modelled

- The timestamp thread (`setup_time_logging`, `log_timestamps`): the server is built with
  `USE_AESD_CHAR_DEVICE`, which compiles it out, together with the file it would write to.
- `run_daemon`'s parent, which exits at once, and the logging of peer addresses (with one
  buffer `s` for all threads): nothing depends on them.
- Overlapping runs of `finder-test.sh`: one result file and one directory tree are all the
  scripts have, and nothing in them provides for a second run.
- The load, unload and start scripts: `insmod`, `mknod` and `start-stop-daemon` calls; the
  module's own loading and unloading are actions of `CharDriver`.
- Build, emulator and installation scripts (host I/O only) and the course's validation files
  (a constant).
