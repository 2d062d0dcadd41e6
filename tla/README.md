# A verification project for libphoenix

libphoenix is the C library of Phoenix-RTOS.  What is hard to get right in it,
and next to impossible to test, is of two kinds: what several threads do at the
same time (locks, condition variables, the life of a thread, its data, the shared
structures of the heap, of the streams, of `exit()` and `fork()`), and algorithms
whose state goes wrong only after a long sequence of legal calls or in a rare
corner (chunks and bins, balanced trees with caches, buffers and positions, the
calendar, path names, regular expressions).  These modules model both from the
source, check them with TLC on small instances and prove, with TLAPS and for any instance,
the central facts of the synchronisation and of the tables, lists and buffers that are shared.

All source paths are relative to `src/`.  `PROJECT.json` names, for every
definition that models code, the lines it models.

## 1. Inventory

| Component | State it keeps | Operations | What is hard |
|---|---|---|---|
| internal lock, `sys/ulock.c`, `sys/ulock-internal.h` | one word: free, locked, contended | try, lock (spin, mark, sleep), timed lock, unlock | a wake-up lost between spinning, marking and sleeping; a timed caller that swallows one |
| mutexes, `pthread/pthread.c` 1346-1900 | lock word (owner, waiters mark); `initialized` word (state, kind, depth) | lock, trylock, clocklock, unlock, destroy | a stale owner or depth, recursion limit, mark handed on |
| lazy initialisation, 1410-1540 | a state word per object | first use, destroy, use again | two first users, a maker that fails, half-made objects |
| condition variables, 1910-2480 | one word: waiter count, clock, sequence | wait, clockwait, signal, broadcast, destroy | signal between predicate and sleep, waiters not yet asleep, four ways out of a wait |
| thread life, 210-620, 805-1070 | records, thread list, retired list, references, stacks | create, join, detach, cancel, testcancel, exit, reclamation | callbacks made unlocked on behalf of a thread that may end meanwhile; stacks in use by dying threads |
| cleanup handlers, 262-275, 2940-3000 | a list per thread | push, pop, run by exit or by a canceller | both run the same list |
| thread-specific data, 882-941, 2505-2725 | a list of nodes per thread, read without a lock | key create, delete, get, set, destructors | keys whose address is used again; nodes reclaimed under a walk; re-entry through `malloc()` |
| `pthread_once`, 2726-2744 | a control word | once | the lock is dropped around the initialiser |
| read-write locks, 2999-3334 | reader count, writer, waiting writers, a mutex and two conditions | rdlock, wrlock, try, timed, unlock | writer preference, a writer that gives up |
| `fork()`, `unistd/sys.c`, atfork handlers 2766-2939 | handler lists; signal mask; the child's copy of lists and heap | fork, pthread_atfork | order of handlers and locks, nested forks in handlers, records of threads the child lacks |
| barriers, `pthread/barrier.c` | count, generation, threads inside | wait, destroy | reuse at once, destroy while threads leave |
| unnamed semaphores, `pthread/sem_unnamed.c` | a count and tokens in a pipe | wait, trywait, timedwait, post, destroy | count and tokens change separately |
| kernel-mutex semaphores, `sys/semaphore.c` | a count, waiters, a mutex, a condition | up, down | a timeout racing a post; signalling after unlocking |
| exit handlers, `stdlib/atexit.c`, `exit.c` | a chain of nodes of 32 handlers, a modification count | atexit, `__cxa_finalize`, exit, quick_exit | handlers that register or finalize; cursors after the lock was dropped |
| heap, `stdlib/malloc_dl.c` | heaps, chunks, bins, retained and released heaps | malloc, calloc, realloc, aligned_alloc, free, trim | split and coalesce, flags and footers, growth in place, retained heaps |
| trees, `sys/rb.c`, `posix/idtree.c` | nodes, colours, cached gaps | insert, remove, allocate an id | balance, caches after rotations |
| streams, `stdio/file.c` | buffer, cursors, flags, a lock each, the list of streams | open, close, reopen, read, write, seek, unget, flush, setvbuf | short transfers, change of direction, lock order |
| memory streams, `stdio/memstream.c` | memory, position, published size | open_memstream, fmemopen | gaps after seeks, the closing NUL, growth |
| environment, `stdlib/env.c` | two parallel tables | get, set, put, unset, clear | ownership of strings, failing allocations half-way |
| calendar, `time/time.c` | the rules of a zone | gmtime, timegm, localtime, mktime, ISO week | division of negative numbers, ends of periods, the hour that comes twice or never |
| path names, `unistd/dir.c` | current directory, PWD | resolve_path, chdir, getcwd, realpath | `..` after a link, loops of links, limits |
| regular expressions, `regex/` | the strip under construction; the sets of active operators | regcomp, regexec | insertions that move what was emitted, leftmost-longest, loops over empty parts, back references |
| `posix_spawn`, `unistd/spawn.c` | the file actions, the caller's and the child's descriptors, masks, handlers | addopen, addclose, adddup2, spawn, spawnp | the child runs in the caller's memory; any of a dozen steps may fail after others succeeded |
| the rest | - | formatted input and output, strings, mathematics, sockets, wrappers of system calls, start-up | sequential, or a message to a server |

How they interact.  Everything internal (streams, environment, key list, the chain of
`atexit`) is guarded by the internal lock or a kernel mutex; normal pthread mutexes
*are* the internal lock; conditions release and take mutexes; barriers, rwlocks and
`pthread_once` are built of mutexes and conditions.  Cancellation and exit run user
callbacks (cleanup handlers, key destructors) with locks released; `exit()` runs its
handlers with the lock released and then flushes the streams; the allocator may call
`pthread_setspecific()`, and `pthread_setspecific()` the allocator.  `fork()` takes the
locks of the thread list and the heap between its handlers.  `chdir()` writes the
variable PWD.  `realpath()`, `posix_spawn()` and the streams allocate, and must give
back when a later step fails.

What makes each correct:

* locks: one holder; no forgotten sleeper; they *implement* the abstract lock, so
  that a free lock is always taken by somebody who waits;
* mutexes: what callers were granted agrees with owner and depth; a first use finds
  the object whole, and all find the same one;
* conditions: an exact waiter count; a broadcast reaches every thread then
  waiting; nobody sleeps past an item;
* threads: stack and record outlive the thread; every reference has one holder;
  handlers run once; a finished detached thread is retired; everything ends;
* keys: no value of a deleted key is found; nodes outlive walks; one cleanup;
* rwlocks: exact counters; a writer is alone; nobody sleeps on a free lock;
* barriers: rounds leave full and complete; a destroyed barrier is empty;
* semaphores: each waiter is counted or has one token coming; units are not lost;
* `pthread_once`: one run, nobody returns before its end, every call returns;
* fork: the child can use the lists and the heap; handlers in opposite orders;
* exit: each handler once, latest first, whatever handlers do; no released node;
* heap: chunks, flags, footers, bins and totals agree; nobody's block is written to;
* trees: search tree, red-black, exact caches, one holder of an id;
* streams: a stream *implements* a file with one position; the list, the locks and
  the memory of the streams agree; a closed stream is closed once;
* environment: the last value set is found, strings are freed once;
* calendar: conversions agree with counting days one by one;
* paths: a resolved path is canonical, and following a path in two steps is the same;
* regular expressions: the strip is sound, the match is the leftmost and longest, the
  groups are those the expression means;
* spawning: the program starts as asked, or the caller is as before.

## 2. Modules

```
AbstractLock       what a lock promises
  ^ implemented by
Ulock              sys/ulock.c                                   UlockProofs
PthreadMutex       owner-tracking mutexes                        PthreadMutexProofs
PthreadLazyInit    first use of statically initialised objects   PthreadWaitProofs
PthreadCond        condition variables over an abstract mutex    PthreadWaitProofs
PthreadRwlock      read-write locks                              PthreadWaitProofs
PthreadOnce        pthread_once()                                PthreadWaitProofs
AbstractBarrier    what a barrier promises
  ^ implemented by
Barrier            pthread/barrier.c                             PthreadWaitProofs
AbstractSemaphore  what a counting semaphore promises
  ^ implemented by
SemUnnamed         pthread/sem_unnamed.c                         PthreadWaitProofs
Semaphore          sys/semaphore.c                               PthreadWaitProofs
PthreadThreads     records, lists, cancellation, reclamation     PthreadThreadsProofs
PthreadKeys        thread-specific data                          PthreadKeysProofs
PthreadFork        fork(), the list of threads and the heap      LibraryProofs
Atexit             stdlib/atexit.c, exit()                       LibraryProofs
Malloc             stdlib/malloc_dl.c                            MallocProofs
RbTree <- Idtree   sys/rb.c, posix/idtree.c
AbstractFile       what a stream promises
  ^ implemented by
Stream             one stream of stdio/file.c                    StreamProofs
Streams            the list of streams, opening and closing      LibraryProofs
Memstream          stdio/memstream.c                             LibraryProofs
Env                stdlib/env.c                                  LibraryProofs
Calendar           time/time.c
Path               unistd/dir.c
Regcomp <- Regexec regex/
Spawn              unistd/spawn.c                                LibraryProofs
MC*                instances for TLC; one .cfg per run
```

**AbstractLock.** Each thread is `out`, `waiting` or `in`; a waiting thread may
acquire when nobody is in; with weak fairness on acquiring and releasing.

**Ulock.** `word` is the lock word; `pc[t]` the place of a caller in the code;
`polls[t]` the `i` of the spin loop.  One action per access of the word or system
call: `TakeFree` / `TryBusy` / `EnterSlow` are the first compare-and-swap with its
outcomes, `SpinLoad` and `SpinCas` the two accesses of one iteration, `Mark` the
exchange, `Release` the exchange of the unlock.  `FutexSleep`, `FutexWake` are the
kernel's: compare and sleep in one step; wake some sleeper, in no particular order.
`FutexRefuse` covers -EAGAIN and the errors after which the code polls;
`FutexInterrupt` and `FutexTimeout` may happen at any time.

**PthreadMutex.** `lock` is the lock word as owner and mark, `depth` the depth
field, `flags[t]` the copy of that word each call reads first, `seen[t]` the `v` of
the slow path.  `Call` begins a lock, trylock or clocklock; a clocklock is a trylock
(`probe`) and then, unless its deadline is in the past, a timed wait that reads the
flags again.  Unlocks by non-owners are made too.

**PthreadCond.** `word` holds `waiters` and `seq`.  `Register` ... `Relock` are the
lines of `pthread_cond_waitInternal()`, `Advance` and `FutexWake` those of
`pthread_cond_wake()`.  The callers (`Lock`, `Add`, `Take`, `GiveUp`) are the
environment: producers that signal or broadcast with or without the mutex,
consumers that wait in a loop.  The wall-clock translation of a deadline is the
event that a deadline has passed, at the places where the code looks (`TooLate`,
`Reload`) or the kernel reports it (`FutexTimeout`).

**PthreadThreads.** `record`, `refs`, `listed`, `retired`, `stack`, `handlers` are
the fields of the thread records; `grabbed[t]` the list a caller of
`_pthread_reapRetired()` took; `kernel` the kernel's view of each thread;
`signalled` SIGCANCELs on the way.  A section under `pthread_list_lock` is one
action, except in `pthread_create()`, which starts the thread inside the section.

**PthreadKeys.** `list[t]` is the set of a thread's nodes: they are numbered as they
are linked, always at the head, so that a walk goes from the highest number to the lowest.
`node` holds their fields; `key` NULL is a tombstone; `gen` tells apart the keys created at one address; `exiting` is the
claim of the cleanup; `cursor` the node whose destructor runs.  `pc = "scan"` means
that a cleanup holds `pthread_key_lock`; other sections under it are one action.
`SetNested` is `pthread_setspecific()` called by `malloc()` or by a destructor.
`pthread_getspecific()` changes nothing: what it may find is `NoStaleValue`.

**PthreadRwlock.** `readActive`, `writeActive`, `writeWaiting` are the lock's fields.
A section under its mutex is one action, up to and from `condClockWait()`, during
which a thread is at `onReadCond` or `onWriteCond`; `failed` are the threads whose
wait returned an error, so that `RdAgain` / `WrFails` are the ways out at
pthread.c:3057-3065 and 3098-3117.  A call with a deadline is a try and then a
wait, as in `pthread_rwlock_clockrdlock_phx()`.

**Barrier.** `waiting`, `inside`, `generation` are the fields, `mine[t]` the local
`generation`.  The thread that completes a round enters and leaves in one section
(`ArriveLast`).  Of the condition variable the model uses what PthreadCond shows, and
spurious wake-ups (`WakeUp`).  `Destroy` may start at any time the application starts
no further wait.

**SemUnnamed.** `value` is the count, `tokens` the bytes in the pipe.  `Post` and
`WriteToken` are the two halves of a post; `Readable` is `poll()`, `ReadToken` and
`ReadNothing` the read that may find the token gone; `cancel` is the entry of
`sem_cancel()`, `lastPoll` and `lastRead` the wait without limit in it.

**AbstractSemaphore, Semaphore.** The abstract semaphore has units and waiters; a waiter
may be given a unit while there is one, or stop waiting.  In Semaphore `v` and `waiters`
are the fields; a section under the kernel mutex is one action, also up to the wait;
`signal` is the place between unlocking and signalling, where another thread may be.

**PthreadOnce.** `control[k]` is the control word, `frames[t]` the stack of calls a thread
is in, because an initialiser may call `pthread_once()` for another control.

**PthreadLazyInit.** `state` is the RESOURCE_* field of `initialized`, `resource` what
the object holds.  The compare-and-swaps and stores of
`pthread_initialize_acquire_release()` are one action each; making the resource may fail;
destroy and use again follow.

**PthreadFork.** `owner` of the three locks, `half` the threads in the middle of an update,
`todo[t]` the handlers still to run, `child[t]` the copy of the memory and what the child
made of it.  Others create and end threads, and allocate, meanwhile.

**Malloc.** `m` is `malloc_common` with every header and footer; a unit is 8 bytes.
`wrote` collects the units the allocator writes in a section, so that a write to a
caller's block shows (`spoilt`).  `realloc()` that moves and aligned allocation are
several sections with other threads in between (`task`).  The loops that join chunks and
that release kept heaps are functions of the number of turns: as many turns of a join as
there are chunks, of which the later ones change nothing (`JoinPrev`, `JoinNext`), and the
smallest number of heaps dropped that ends the loop (`MakeRoom`, `Trim`).

**RbTree, Idtree.** Trees are values, `[root, n]`; the operators are the functions of
`sys/rb.c` with both sides written as one.  Idtree supplies the augment callback (the
gaps) and `idtree_alloc()`'s descent.

**Atexit.** `chain` and `slot` are the nodes; a frame of `frames[t]` is a walk whose handler
is running, with its cursor and the copy of `modCnt` it was taken at.

**AbstractFile, Stream.** `s` holds the FILE (`buf`, `bufpos`, `bufeof`, flags) and what the
kernel knows.  Every call is one action, as it holds the stream's lock; the descriptor
transfers fewer bytes than asked, asks to try again or fails at any point.  The refinement
maps the buffer to the difference between `store` and `content`.

**Streams.** `list`, one lock for each FILE and one for the list, memory, descriptors.
`fflush(NULL)` is a walk with the list's lock held that waits for each stream's lock.

**Memstream.** `buf`, `len`, `pos`, `published` are the fields of the cookie; `put` remembers
what was written at each offset.

**Env.** `environ`, `size` and `owned` are the tables; `string` is every string that was
made, with its maker and whether it was freed.

**Calendar.** The functions are pure: a clerk walks from year to year counting days, and
every conversion is compared with what the clerk counted.

**Path.** `tree` is the files, `cwd` and `pwd` the texts; `resolve_path()` is a recursive
operator that may also say "too long" and "too many links".

**Regcomp, Regexec.** The parser emits operators into a strip, with insertions that move what
was emitted; `findmust()` and `altoffset()` follow.  Regexec runs `fast()`, `slow()`,
`dissect()`, `backref()` on it.  The property compares them with the meaning of the
expression given as a set of ways to match, computed from the abstract expression the
text was written from.

**Spawn.** `fa` is the file-actions object, `call` the call in progress, `proc` the child:
its descriptors, mask, handlers, pending signals and where it is in the list of actions.

Operators named `X_Something` directly before `X` are seeded bugs: each is what
`X` would be after a plausible mistake in the code, and with it in place the named
run must report the property named with it in `PROJECT.json`.

### Modelling assumptions

* Atomic accesses are sequentially consistent; the model does not tell acquire and
  release from relaxed.
* The futex is atomic: compare and sleep in one step, wakes in any order.
* Callers are legal: threads are joined once and not also detached, nobody joins
  itself in a circle, keys are not used after they were deleted, unlocks of
  a condition's mutex are the owner's.  `main` is not joined, detached or cancelled.
* SIGCANCEL lands between two actions, that is not inside a section under
  `pthread_list_lock` or `pthread_key_lock`; a pending signal keeps a system call
  from returning.
* Fewer than 2^16 signals fall into one waiter's sampling window and fewer than
  2^14 threads wait at a time, the widths of the fields of the condition's word.
* Initialisers given to `pthread_once()` return; handlers given to `atexit()` do too.
* Allocation fails where a module says so (Env, Memstream, Spawn, Malloc's own pages) and
  nowhere else.
* One thread at a time uses the environment, as POSIX asks; a stream is used under its
  lock; `flockfile()`d threads do not flush all streams.
* Characters, offsets and sizes are small: what depends on the width of `size_t` or
  `off_t` is not reached, except where a limit of the code (PATH_MAX, SYMLOOP_MAX,
  DUP_MAX, ATEXIT_MAX) is a constant of the module.

## 3. Runs

| Run | Question | Instance | States |
|---|---|---|---|
| `ulock` | exclusion, no forgotten sleeper, refinement of AbstractLock with its progress | 3 threads (1 timed), 2 polls, 2 calls each | 25 326 |
| `mutex` | owner and depth agree with what was granted; no forgotten sleeper; refinement of AbstractLock | 2 threads with 4 calls and depth limit 1, or 3 threads with fewer | 448 076 |
| `cond` | conditions: exact count, broadcasts, nobody stranded, every call returns; and, each as a part of its own, barriers, kernel-mutex semaphores, `pthread_once`, lazy initialisation | 2 producers x 1 item, 2 consumers x 1, 1 timed, 2 interrupts; barrier: 4 threads x 3 waits, rounds of 2; semaphore: 3 takers, 2 posters; once: 3 threads, 2 controls, nested; lazy: 3 threads x 2 | 237 117 |
| `threads` | life of records, stacks, references, handlers; everything ends | 3 threads, 4 + 1 + 0 calls, 1 handler | 446 107 |
| `threads_late_detach` | (violated) finished detached threads are retired | 2 threads, late detaches | - |
| `keys` | no stale value, nodes outlive walks, one cleanup, no value lost | 2 threads, 2 keys, 2 generations, 3 nodes, 2 values | 1 742 328 |
| `keys_cancel_walk` | (violated) keys outlive a canceller's cleanup | 3 threads, 1 key | - |
| `rwlock` | exclusion, nobody forgotten, every wait ends | 2 endless readers, 2 threads that read and write, 3 calls each, any wait may fail | 8 879 |
| `sem` | waiters and tokens match, refinement of AbstractSemaphore with its progress | 3 takers x 2 (1 timed, 1 interrupted), 2 posters x 3, counts 0 and 1, SEM_VALUE_MAX 6 | 292 643 |
| `sem_giving_up` | (violated) a waiter that gives up comes to an end | 2 takers x 2, 1 post | - |
| `library` | the parts that share no state with each other, below | below | 907 318 |
| `regex_loops` | (violated) the pieces given to a loop exhaust its share of the text | the expressions of `library` | - |

`cond` and `library` are composites: `part` is chosen in the initial state, only that part
moves and the others stay in one initial state, so that the state graph is the disjoint
union of the parts'.  The MC modules extend the parts that have theorems, whose names are
their own for that reason, so that a run checks the very definition a theorem states; the
other parts are instances.  The constant `Parts` selects some of them.  The VIEW of `library` leaves out `res`, the result
of a stream's last call, which the refinement compares in the step that sets it.

Parts of `library`:

| Part | Module | Instance | States |
|---|---|---|---|
| `heap` | Malloc | pages of 16 units, 2 of them, heaps of 1 page or more, blocks of 1, 5, 12 units, alignment 4, 3 live blocks, 2 threads, 1 retained heap | 39 379 |
| `ids` | Idtree | ids to 14, 10 held | 11 801 |
| `exit` | Atexit | 2 threads, nodes of 2, 3 registrations, handlers nested 2 deep, with and without the static node | 219 722 |
| `stream` | Stream | buffer of 2, files of up to 3, calls of up to 4 | 22 656 |
| `list` | Streams | 3 threads x 2 calls, 3 FILEs, 1 standard | 203 503 |
| `fork` | PthreadFork | 2 forkers, 1 other thread, 2 handlers | 51 648 |
| `env` | Env | 2 names, 4 strings, 1 failed allocation | 199 694 |
| `time` | Calendar | every day from 1895 to 2105, 5 zones | 211 |
| `memory` | Memstream | growing and fixed memory of 4, seeks, gaps, failures | 14 514 |
| `path` | Path | trees of 4 with 1 or 2 links, paths of up to 3 names, at most 8 names and 3 links | 1 584 |
| `regex` | Regexec | about 350 expressions, on every text of up to 2 to 6 characters | 19 764 |
| `spawn` | Spawn | 5 programs and attributes, 2 actions, 3 descriptors, 1 signal at any time | 122 842 |

Why the bounds are enough.  Lost wake-ups need a holder, a waker's victim and
another sleeper: three threads.  The spin loop's iterations are alike, so one or two
stand for 100.  A depth limit of one with four calls reaches the refused lock and
all unlocks; an error-checking mutex is a recursive one with depth 0.  A broadcast against a
waiter registered, one asleep and one leaving
needs two waiters at different points of their wait; a consumer that finds the item
taken waits again, and so is the late one.  In thread life the
hard cases have a target, a canceller and a joiner or reclaimer: three threads.  For
keys, one owner and one other that deletes or cancels; two generations give the
reused address; two passes with two values give a destructor that sets again.
For the rwlock a release must choose between readers and writers while another writer gives
up: four threads.  For the barrier, two threads of one round and two
that race ahead.  For the semaphore, one waiter that gives up, one that takes its
token and one more.  For the heap, a free chunk between two used ones, on either side and
at either end, and a heap emptied while another is retained: three live blocks in two
pages.  For the tree, ten keys give every case of the removal's repair on both sides
(height four).  For exit handlers, nodes of two make a handler's registration fill one
node, chain a second, and free it under another walk.  For a stream, a
buffer of two with files of three and calls of four has every call smaller than,
equal to and larger than the buffer, and every refill partial.  For the calendar, the years contain
a century that is a leap year and two that are not, and years before 1970; zones have
summer at the turn of the year, negative summer time and rules by day number.  For regular expressions, loops of loops,
empty groups, alternatives with common prefixes, anchors at lines and words, back
references, and mandatory strings long enough for the Boyer-Moore tables.

The refinements `ImplementsAbstractLock`, `ImplementsSemaphore`, `ImplementsUnnamedSemaphore`
and `ImplementsBarrier` carry the abstract fairness: a free lock is taken by somebody who waits, a holder
releases, a unit that lies there goes to a waiter, a full round leaves.  `ImplementsFile`
is a safety refinement: calls return in one step.

Deadlock is checked wherever the system must come to an orderly end (`Finished`);
in the runs of PthreadKeys and of the library parts the threads simply run out of the
bounds, so it is not; StreamsIntact and ForkSound say themselves that the threads
never all wait for each other.

Fairness.  `WF` on each thread's steps together: the kernel schedules every
runnable thread.  Nothing is assumed of timeouts, interrupts or refusals to sleep.
In PthreadCond the caller's mutex is only asked to be handed over when it stays
free, which it does as the calls are bounded.  In Barrier nobody need destroy
the barrier and no wake-up is spurious on demand.  In `rwlock` the kernel may
wake any of the sleeping writers, so their calls are bounded; only the readers are
endless.  In PthreadThreads the steps of a
thread include the delivery of a signal sent to it.

A module's type invariant is a conjunct of the first invariant of its run: TypeOK is part of
`NoLostWakeup`, `Accounting`, `CountIsExact`, `NoUseAfterFree`, `NodesOutliveWalks` and the
like; `NoUseAfterFree` also contains `ReferencesExact`, and `NoStaleValue` contains
`OneNodePerKey`.

### Disagreements found

* `threads_late_detach`: `pthread_detach()` (pthread.c:615) of a thread that has
  finished, or whose SIGCANCEL was sent, only sets the flag; nobody retires the
  thread any more, so record, stack and ghost stay, contrary to the comment at
  pthread.c:462.
* `keys_cancel_walk`: a canceller's `pthread_key_cleanup()` goes on over the nodes of
  a thread that ended and left the list, where `pthread_key_delete()` does not
  look; the key may be freed under it, contrary to the comment at pthread.c:908.
* `sem_giving_up`: a timed (or interrupted) waiter that a post has already counted
  waits without limit for that post's token (sem_unnamed.c:154).  Tokens are not
  addressed, and a newer taker may read it; the waiter then sleeps past its deadline
  until the next post, contrary to sem_unnamed.c:13-16.
* `regex_loops`: the pieces `dissect()` gives a loop, each as long as it can be, need not
  use up the loop's share of the text, contrary to its assertion "must exhaust substring"
  (engine.c); groups are then reported at the wrong places.

### Where the models stop short of the code

These were met while modelling.  Each is left out of a property, or assumed away, and
named here so that nobody takes the run to cover it.

* Streams: a short write followed by a hard error sends bytes again (AbstractFile's
  `torn`); the comparison `err < bytes` is unsigned; `O_APPEND`, `__fpurge()` and `ungetc()`
  on a stream that is only written are not covered.
* Paths: `file/..` resolves and a trailing slash is ignored; when `chdir()` cannot
  allocate it falls back to PWD, which may be older (`stale`).
* Environment: `setenv()` that frees the old string and then cannot allocate leaves the
  freed one in the table (`torn`); `putenv()` over a string of the library's leaks it; the
  comment "Insert can fail only if we're not reusing slot" does not hold.
* Calendar: zones that are always on summer time are not covered.
* Regular expressions: which parse a group has is asked only when the operands of loops
  can be taken in one way, or with back references, where the code goes through them in
  order.  Left out as well: `backref()` of an expression like `\(\(b*\)\)*b\1`, which
  never ends; back references after a bounded loop such as `\(a\)b\{0,1\}\1`, which
  `backref()` leaves at the wrong operator and misses; two word anchors next to each other, or
  a word anchor before a line anchor, which `fast()` and `slow()` do not pass; in `backref()`, `^` after a newline
  that ends the text; REG_STARTEND, REG_PEND, collating elements of several
  characters, and failing allocations.  `stripsnug()`, `categorize()` and the sharing of
  sets change nothing a match can see and are abstracted.
* Spawning: an `addopen` into a full table fails although POSIX closes the target first;
  opens with O_CLOEXEC; the descriptor of a script could be inherited by a child that
  another thread spawns; a signal between a failed `exec` and the store to `ctx->err` makes
  the spawn look successful.

## 4. Proofs

Checked with TLAPS, for every number of threads and every bound:

* `UlockProofs`: `TypeCorrect`, `Exclusion`, `WakeupNotLost`, `UlockImplementsLock`.
  The argument: the type invariant needs `PollsBelow` (a thread in the loop has polls
  left).  Exclusion: the word is FREE exactly while nobody is in, and the only two
  ways in compare the word with FREE in the same step.  Wake-ups: only `Mark` leads to
  sleep and it leaves CONTENDED; the only step that clears the word turns into a
  waker exactly if it was CONTENDED; a woken thread is at `mark`.  The refinement
  uses exclusion for the acquire step.
* `PthreadMutexProofs`: `Invariant`, `AccountsAgree`, `WakeupNotLost`,
  `MutexImplementsLock`.  `Accounting` is not inductive: an owner's next call could
  work with a stale depth.  The strengthening is `CopiesFresh`, `FreeIsUnmarked` and
  two facts about places: threads in the slow path do not own the mutex, and the
  owner that a thread `seen` and is about to mark is somebody.  They rest on
  `MutexAssumption` alone.
* `PthreadWaitProofs`, condition variables: `CountCorrect`, `BroadcastCorrect`,
  `SignalsNotLost`.  The last two assume `NoWrap`: fewer items are made than the sequence has
  values, which is what the code relies on for one waiter's window (with more, a waiter's
  sample can come round).  `BroadcastReachesAll` says that whoever a broadcast was meant for
  is awake or has an old sample; for this the sequence must not return to a sample, so
  `SeqExact` counts: `word.seq` and the producers about to advance it are as many as the items
  made, which are pairs of a producer and a number.  `Roles` (only producers signal; a caller
  inside a call has something left to do) makes the count step by one, and `Addressed` keeps
  every sample at or below the sequence.  The waiter count is a cardinality that `Register`
  raises and every way out lowers by one.  For `NobodyStranded`, `Awaited` says that while the
  sequence stands where somebody sampled it, every item has a producer about to move it, and
  `Provided` that while anybody sleeps there is a helper for every item: a producer about to
  wake somebody, or a consumer that will look again before it sleeps.
  Barriers: `BarrierTypeCorrect`, `CountsExact`, `DestroyIsSafe`, `BarrierImplemented`.  The
  strengthening is `NobodyAhead`: no caller's generation is above the barrier's, so one
  increment releases the whole round.
  `sys/semaphore.c`: `KernelSemaphoreImplemented` (every behaviour is one of a counting
  semaphore) and `UnitsNotForgotten`: a unit with a taker asleep has a signal on its way, or a
  taker woken and not yet back, which the run sees only as the liveness half of its refinement.
  Unnamed semaphores: `PipeTypeCorrect`, `TokensExact`, `SemaphoreImplemented`.  The
  invariant is `TokensMatch` with the fact that only takers wait; `value` plus the number of
  waiters is the abstract count, which is positive whenever a token can be read.
  `pthread_once()`: `OnceCorrect`.  An initialiser that is running is found by the call it
  runs in, which may be any of the nested calls of a thread: at most one such call runs it
  (`OneRunner`), one does while the control says so (`ProgressIsRun`), and none else.
  Lazy initialisation: `LazyInitCorrect`, from one builder, a destroyer that is alone, and
  what the object holds at each place (`LiveAt`).
  Read-write locks: `RwlockInvariant`, `RwlockTypeCorrect`, `RwlockCountsExact`,
  `WritersAlone`, `NobodySleepsOn`.  Exclusion follows from exact counters and from `OneKind`,
  the same said of the counters.  `NobodyForgotten` is not inductive: the writer that is
  about to try, for whose sake the others may sleep on, could be one that is about to
  give up.  `Served` asks for one whose wait did not fail; this holds because a signal
  reaches only sleepers, and the failed are awake (`FailedAreAwake`).
* `PthreadKeysProofs`: `ValuesFresh`, `WalksSafe`, `CleanupClaimed`, `ValuesDestroyed`.  The
  strengthening: `Linked` (nodes are numbered one after the other, and each is in one list
  or freed), `Fresh` (a listed thread's nodes name keys callers may use, not just existing
  ones), `InUse` (only a valid key is at work for two threads at once, so that a key freed
  by a failed `pthread_key_create()` or at the end of a delete is nobody's), and `Claimed`
  (a walk is claimed, has its thread's list to itself, and a cursor means that a destructor
  ran in this pass).  Of a step the lemmas only use that lists and names get fewer
  (`OnlyLess`), or that one node more is linked for a key that had none (`OneMore`): the
  second search under the lock is what makes the latter true.  `ValuesDestroyed` follows
  because a last pass that found nothing never let go of the lock.
* `PthreadThreadsProofs`: `RecordsOutliveUse` (`NoUseAfterFree`, which includes the types and
  `ReferencesExact`), `HandlersRunOnce` and, under `~LateDetach`, `DetachedAreRetired`.  `ReferencesExact` needs what the counts are
  counts of: `Placed` (the reference of the list is in one place: with the creator, on
  `pthread_list`, on the retired list or taken by one reclaimer) and `Counted` (the count is
  that reference plus the callers that hold one across callbacks).  A step then keeps places
  and holders, moves a reference, or is one of the eight that take or put one.  That a joiner
  may use the record rests on `JoinedOnce`: what is being joined is not detached, so that
  nobody retires it, and stays listed until its one joiner takes it off.  `Kept` ties the
  record and the stack to the kernel's thread, `Unborn` says that what `pthread_create()` is
  about to make is nobody's, and `Roles` what the places of a caller imply.
  `HandlersCounted` adds the handlers taken off a list and not yet counted as run, those of
  the thread itself and of every canceller, to the two terms of `HandlersOnce`.
  `Retirement` is `DetachedIsRetired` from the moment a thread cannot but end (signalled, or
  past its last section), and holds because what is not listed yet cannot get there: its
  creator has the lock.
* `LibraryProofs`: the parts of the library with tables, lists and buffers.
  `ForkCorrect`: who holds which lock is a function of where it is (`LocksHeld`), so that the
  memory is copied with nobody in the middle of an update; what each phase has called and
  what it has still to call make up the list of handlers, backwards or forwards (`Track`), so
  that parent and child undo what was prepared, although handlers are registered meanwhile;
  and of threads that wait, one always can go on, as the locks are taken in one order.
  `EnvCorrect`: every string in the table is unreleased, the flags say truly which are the
  library's, and no name is there twice (`EnvFine`), up to a `setenv()` that ran out of memory
  half-way (`torn`, see above).
  `MemoryCorrect`: what was put where is there, what `memstream_ensure()` added is clear, and
  over fixed memory the text is closed whenever there is room, also before the first write
  (`Terminated`).
  `StreamsCorrect`: a FILE has one user between its creation and its release, but for the walk
  of `fflush(NULL)` and for the holder of its lock, for whom the last flush of `fclose()` waits
  (`Apart`); what is on the list, being closed, or standard is alive (`Living`), and each has a
  descriptor of its own (`Connections`).
  `HandlersCorrect`: from the bottom of the chain up, handlers are in the order of their
  registration (`InOrder`), and each was called once, or is pending or in a frame
  (`Counted`).  A walk that returns from a handler goes on from its cursor only when `modCnt`
  is what it was, and then its node is on the chain and no handler it is to call is above
  the cursor (`WalksFine`).  What a walk finds is the last of those that match, which is the
  place of the greatest.
  `SpawnCorrect`: after n file actions the child's descriptors are what the first n ask for
  (`Shows`; `AppliedIs` is the lemma that one action does to the table what it does to the
  request, through whatever descriptor it opens), no disposition but default or ignored is
  left when the mask may be lifted (`HandlersReset`), so that a handler of the caller's cannot
  run, and what is held at each place of the call is known (`HeapHeld`, `Resources`), so that
  every way out gives all of it back.
* `StreamProofs`: `StreamCorrect` and `FileImplemented`, that every call on a stream is a step
  of `AbstractFile` or a stutter, for any size of the buffer and any length of the calls.  The
  inductive invariant `StreamInv` says that the cursors are in their ranges and agree with the
  mode and the direction (`Sane`), and that what was read ahead is, behind the pushed back
  characters, what the file has just before the descriptor's place (`Positioned`); the latter
  only until a transfer failed half-way, after which nothing is promised.  `FlushOneIs` says
  what a flush leaves for every answer of the descriptor, `AfterFlush` what that is to the
  callers, and `fflush()`, `fseek()`, `ftell()`, `setvbuf()` and `ungetc()` rest on these two.
  `fwrite()` takes its bytes in parts, into the buffer, with the lines that are flushed, or
  past the buffer: `Accepting` says that after each part the rest is the end of what was
  given, and the content is the old one overlaid with the beginning (`OverlayMore`: two
  overlays one after the other are one).  `fread()` in progress is `Fetching`: what it has got
  and what is left make up what was left (`Advanced`), and the end-of-file indicator came
  up at the end or with an error (`AtEnd`); `FedDone` turns that into what the call returns.
* `MallocProofs`: `HeapCorrect` (`HeapSpec => []HeapSound`) and the inductive invariant behind
  it, `HeapInvariant` (`[]HeapInv`), for any page size, kernel memory, limits, ring, requests
  and number of threads.  `HeapSound` itself is not inductive: that
  `free()` accepts a block and joins it with its neighbours also rests on where the heaps lie and
  on the records of released ones, and the later sections of a moving `realloc()` or of an aligned
  allocation on what their thread remembers.  `HeapInv` is `Rest` and `Tasks`:
  - `Sound(m)`: the chunks tile the heaps in order (`Grid`, `InOrder`), with sizes of at least
    `MinSize`; each flag says what the chunk before is (`Flags`), no two neighbours are
    free (`NotBoth`), each free chunk ends in its size (`Feet`); the free units of each heap are
    what it counts (`Count`); the bins hold the free chunks by size (`Binning`); the heaps lie
    apart, inside what was ever mapped, and no record of a released one covers any of them
    (`HeapsFine`), so that the checks of `free()` pass; the kept heaps are those entirely free,
    once each, and within both limits (`Kept`);
  - `live = Blocks(Used(m.chunk))`: the callers hold exactly the used chunks;
  - `Tasks`: what a thread is in the middle of (`Suits`) is about blocks that are
    held and nobody else works on.

  A section passes through states in which most of this fails, for a few chunks.  So the
  parts take the exceptions as a parameter (`AtLeast(K, X)`, `Flags(Z, K, X)`,
  `Feet(K, F, X)`, `Kept(h, X)`, `Binning(h, S)`), and there is one lemma for each function of
  the code that says which exceptions it takes away or leaves: `PutKeeps`, `TakeKeeps`,
  `SplitKeeps`, `AbsorbKeeps`, `JoinPrevKeeps`, `JoinNextKeeps`, `AllocFromKeeps`,
  `HeapAllocKeeps`, `HeapReleaseIs`, `HeapRetainIs`; then for each section, `AllocIs`,
  `FreeBlockIs`, `ResizeIs`, `CarveIs`, `TrimIs`; then for each action (`MallocKeeps` to
  `TrimKeeps`).  That nothing is written to a caller's block is carried the same way: each
  lemma holds for any set P of addresses with no header and no unit of a free chunk
  in it (`Clear`), and adds nothing of P to `wrote`; at the end of the section P is
  what the callers hold before and after it.  Joining
  ends: a turn takes a chunk away or changes nothing, so after as many turns as there are
  chunks the chunk has no free neighbour.  The inductions over turns go through sets of
  numbers (`LeastOne`, `FromOne`), as the induction theorems with an operator parameter
  cannot be used.

All rest on the assumptions named in the modules alone: finite sets of threads and natural
bounds, a buffer of at least one byte, lists of the right kind of element, and `NoWrap` and
`~LateDetach` where it is said.
`ForkCorrect` also takes the bound on the calls, `Works`, to be a number.

Model-checked only:

* liveness, and with it the fairness half of the refinements (`ENABLED` and fairness are out of
  the prover's reach): `ImplementsAbstractLock`, `ImplementsSemaphore`,
  `ImplementsUnnamedSemaphore` and `ImplementsBarrier` are proved as far as their steps go, `CallsReturn`, `EveryWaitEnds`, `EverythingEnds` and
  `DestroyEnds` not at all;
* `IdsExact`, `PathsCanonical`, `MatchesExact`: RbTree, Idtree, Path, Regcomp and Regexec use
  RECURSIVE operators over trees, texts and expressions, which the prover's SMT backend does
  not take, and what they compute for every input would need induction over data;
* `CalendarExact`: sums over months, and quotients and remainders by several constants
  at once, which the backend does not settle.

## 5. Not modelled

* Formatted input and output, strings, mathematics, sorting: sequential conversions
  without state of their own, where a test of inputs says as much as a model.
* Signals, sockets, time of day, named semaphores, files: thin layers over messages to the
  kernel or to servers whose code is not in this repository.
* Spin locks: one exchange and a loop, of which Ulock is the harder kind.
* Dynamic loading, start-up, architecture: assembly and relocation.
* `glob()`, `fnmatch()`, `getopt()`: sequential.  Read for the plan below, with three
  observations that no run shows: the errors of a brace alternative are lost because
  `globexp2()` ends with `*rv = 0`; after a failed `realloc()` in `globextend()` `gl_pathv` is
  NULL while `gl_pathc` is not zero, contrary to the comment on the invariant of `glob_t`;
  the long-option branch of `getopt_long()` does not rotate operands.

`components` in `PROJECT.json` says of each part what of it is modelled.

## 6. Plan

1. Conditions with waiters that are cancelled in their sleep, as `PthreadCond` and
   `PthreadThreads` composed: today a waiter never deregisters there.
2. `glob()` and `fnmatch()` against a reference meaning of patterns; `getopt()` as a state
   machine over its static cursor; the string to number conversions at the limits of
   their types.
