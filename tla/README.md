# TLA+ models of poser

poser is a C library for network services.  `libposercore` is a reactor: a
*service loop* per thread waits for events and calls handlers; a *thread pool*
runs jobs that might block; servers, clients, connections, timers and child
processes are built on top of these.  This directory holds TLA+ models of its
core logic, TLC configurations that check them, and proofs for TLAPS.

Paths below are relative to the repository, code lines are those of
`src/lib/core/`.

## 1. Inventory

| Component | Source | State it keeps | Operations | Talks to |
|---|---|---|---|---|
| Job queue | `threadpool.c` 103-285 | ring of jobs, `avail`, `enqpos`, `deqpos`, semaphore | enqueue, dequeue | thread pool |
| Thread pool | `threadpool.c` 287-789 | threads with stop semaphores, per job its flags, thread, task, timer | init, enqueue, cancel, await, complete, done | job queue, `runOnThread`, timers, panics |
| Command queue | `service.c` 330-475, 1510-1600, 2229-2254 | linked list per service thread, `mustwake`, eventfd | `PSC_Service_runOnThread`, `runCommands` | every component that crosses threads |
| Shared objects | `sharedobj.c` | global epoch, reservation slots, retired lists | create, reserve, release, retire | command queue, TLS configuration of the server |
| Event | `event.c` | list of handlers, `handling` cursor | register, unregister, raise, destroy | everything |
| Service loop | `service.c` | registered descriptors, signals, shutdown count and timer, worker threads | run, quit, shutdown lock and unlock, register and unregister, panic | everything |
| Server | `server.c` | `nconn`, `allclosed`, per worker `nactive` and a pool of connections | accept, disable, enable, shutdown, destroy | command queue, connections, timer |
| Connection | `connection.c` | read buffer, write records, TLS state, deferred delete | receive, confirm, send, pause, resume, close, destroy | service loop, timer |
| Client | `client.c` | options with a count, addresses to avoid, shared TLS context | create, blocking and asynchronous, blacklist | thread pool, connection |
| Resolver | `resolver.c` | entries, a job, the done event | add, resolve, destroy | thread pool, event |
| Timer | `timer.c` | descriptors, a pool of unused timers | create, start, stop, expire, destroy | service loop |
| Process | `process.c` | pid, streams, kill timer | exec, stop, child exit, stream end | service loop, connection, timer, command queue |
| Daemon | `daemon.c` | the pidfile, its locks, a pipe | `PSC_Daemon_run`, `PSC_Daemon_launched` | other starts of the same daemon |
| Rate limiter | `ratelimit.c` | per key and limit a ring of counts | check | dictionary, worker threads |
| Dictionary | `dictionary.c` | nested hash tables, a lock per top-level bucket, a count | set, get, count, removeAll, destroy | rate limiter, applications |
| Log | `log.c` | writer, level, asynchronous mode | log | thread pool |
| Object pool, queue, list, hash table | `objectpool.c` ... | containers | | most of the above |
| JSON, Base64, IP addresses, strings, random, hash, certificates, options, utilities | the rest | values | parse, format, compute | |

What is hard here:

* **Threads.** The job queue and the command queue exist twice, with a mutex and
  lock-free; the lock-free ones rest on hand-made memory reclamation.  The
  dictionary has its own reader and writer counts.  What must hold: nothing
  accepted is lost or run twice, order is kept, a sleeping thread is woken, and
  no freed memory is touched.
* **Callbacks.** Handlers change the list they are called from, close the
  connection they belong to, destroy the timer that expires, register and
  unregister descriptors an event was already reported for.
* **Partial progress.** Reads and writes end anywhere, TLS asks for the other
  direction, buffers run full in the middle of a message.
* **Signals and cancellation.** A cancel clears a flag and signals a thread; both
  may come at any moment of a job's life.
* **Shutdown.** Servers, pools, workers and the service wait for each other with
  semaphores, counters and a timer of last resort.
* **Several processes.** Starts of one daemon meet at its pidfile; locks do not
  survive `fork`; a child, its streams and the handler for its end finish in any
  order.
* **Numbers.** Rings wrap, slot numbers have 16 bits, epochs 32.

The `hazards` in `PROJECT.json` list these with their lines.

## 2. Modules

| Module | Models | State and actions |
|---|---|---|
| `JobHandoff` | what a job queue promises | a bounded FIFO: `Accept`, `Refuse`, `Take`, `Finish` |
| `JobQueueLocked` | the job queue, mutex build | ring, positions and semaphore; one action per critical section |
| `JobQueue` | the job queue, lock-free build | the same ring; one action per atomic operation |
| `RunOnThread` | what `PSC_Service_runOnThread` promises | a FIFO of scheduled commands: `Schedule`, `Execute` |
| `CommandQueueLocked` | the command queue, mutex build, with the loop that serves it | list, `mustwake`, eventfd, the loop's place; enqueue and wake-up are separate steps, as in the code |
| `SharedObj` | epoch reclamation | `epoch`, reservations, `next` links, retired lists; operators that `CommandQueue` uses as parts of its actions |
| `CommandQueue`, `MCCommandQueue` | the command queue, lock-free build, on top of `SharedObj` | one action per atomic operation of the enqueuers, of the loop and of `SharedObj_retire` |
| `Event` | one event on its thread | the list of handlers, the cursor and the stack of raises in progress |
| `ThreadPool` | jobs, tasks and threads of the pool (atomics and user contexts) | job and task fields, the main thread's place in a cancel, each worker's place; uses `JobHandoff`'s queue and `RunOnThread`'s order |
| `Service` | `serviceLoop` on the main thread and the workers, from startup to the end | positions, `shutdownRef`, the shutdown timer, signals, the pool and the command queues as the loop sees them |
| `Watch` | `PSC_Service_registerRead` ... and `processEvents` under epoll, kqueue, event ports, poll and select | what the service keeps, what the system was told, what it reported and what was raised |
| `Timer` | the timers of one thread (timerfd) | per timer the struct and its descriptor; the pool with its `refcnt`; calls from within `expired` |
| `Process` | child processes | the struct, the child, the commands between main thread and owner, the registered handlers |
| `Daemon` | several starts of a daemon | the pidfile, its locks, and per start the launched process, its child and the daemon |
| `Connection`, `MCConnection` | one connection: socket, connecting socket or pipe end, with and without TLS | the struct, the function the thread is in, the network, the application |
| `Server` | connections of a server with worker threads (atomics) | `nconn`, `allclosed`, `nactive`, the command queue of each worker |
| `Client` | TCP clients | options, blacklist, TLS context, per request its progress |
| `Resolver` | a batch of reverse lookups | the struct, its job, the user's place |
| `RateLimit` | one limit of one key | the entry in modular arithmetic, the lock, the clock |
| `Dictionary` | the dictionary, shared or not | tables and entries by the path of hash digits, the bucket locks, each thread's place; a bucket has a set of entries, the order of its list matters to nobody |
| `MCService`, `MCNetwork` | the instances of the two large runs | those of their parts, and `part` |
| `JobQueueProofs` | theorems about `JobQueue` and `ThreadPool` | |
| `CommandQueueProofs` | theorems about `CommandQueue` with `SharedObj` | |
| `ServiceProofs` | theorems about `Service`, `Daemon`, `CommandQueueLocked`, `Event` and `Watch` | |
| `ServerProofs` | theorems about `Server` and `Dictionary` | |
| `WorkProofs` | theorems about `JobQueueLocked`, `Resolver` and `Process` | |
| `ConnectionProofs` | theorems about `Connection` | |
| `RefcountProofs` | theorems about `Client`, `Timer` and `RateLimit` | |
| `Induction` | induction over natural numbers, stated about sets, and lemmas about flattened sequences and remainders; used by the proofs about `Client`, `Dictionary`, `Connection`, `Watch`, `RateLimit` and `JobQueue` | |

The concurrent queues are modelled down to the atomic operation.  The components
above them (`ThreadPool`, `Server`, `Process`, `Resolver`) use the queues as what
the refinements show them to be: a job queue is the bounded FIFO of `JobHandoff`,
and scheduling on another thread appends to the FIFO of `RunOnThread`.  In the same
way `Service` takes the command queue and the pool by their lives only, and
`Connection` takes from `Watch` that an event is raised for what is registered.

`MCService` and `MCNetwork` hold several components at once.  Each component is
independent of the others at this level, so `part` is chosen in the initial state
and only that component moves; the others are pinned to one initial state.  Both
extend the modules of their parts, whose names are therefore apart (`EventInit`,
`SvcNext`, `client.c`'s `resolveDone` as `clientResolveDone`), so that an invariant a run
checks is the very definition a theorem is about.  An invariant such as `RaiseSafe` is a
conjunction of properties that belong together; the component's module states and
explains each of them.  Fairness is a hypothesis of the liveness properties, part by part.

Two conventions.  A loop around a compare-exchange is the one step in which the
exchange succeeds: a failed round only reloads a local variable.  Operators whose
comment begins with "Mutant" are deliberate mistakes, used by no specification;
putting one in place of the operator it is named after must make TLC find a
violation, which shows that the property is about that code.

### Correspondence, where it is not obvious

* `JobQueue`: `order`, `handed` and `idx` are history variables that record which
  position a job and a pool thread claimed; they define the mapping to
  `JobHandoff` and guard nothing.
* `CommandQueue`: `SharedObj` reuses `next`, the link of the queue, as the link of
  the retired list; the model does, too.  A new slot of a thread holds what
  `malloc` left there (`ResGarbage`).
* `ThreadPool`: `opts` holds what the program decides (queue length, which jobs
  await, are canceled, panic), is chosen in `Init` and never changes.  A signal is
  `Interrupted`: it ends a `sem_wait`, whether in the dequeue or in a blocking
  await.
* `Connection`: data is a sequence of units, a write request a number of units, so
  that order, repetition and loss show.  `self` is the struct; functions that only
  change the struct are operators on it.  `pc` names the handler the thread is in,
  `ev` what is still to be raised in this round.  `Sc(...)` in `MCNetwork` lists
  which kind of connection meets which calls.
* `Watch`: `want` is history, what the callers asked for.  `svc` and `watching` have
  the form the backend gives them: a table of masks, a list of pending changes, an
  array, sets with a highest number.
* `Service`: what handlers may do in a round (lock, unlock, quit, register a signal,
  panic) are actions at "round".  "returned" stands for the early `return rc` in
  `serviceLoop`.
* `Timer`: `user` is history, what the application may expect of each timer.
* `Process`: commands for the main thread and for the owner are two FIFOs.
* `Dictionary`: the tree is flat.  A bucket is its path of hash digits, `tables` are
  the paths that became tables, `Home` follows the digits of a key.  `past.map` is the
  map the dictionary is meant to be, `past.deleted` counts the deleter's calls.
* `Server`: the loads by which a less busy worker is looked for are one step; only
  the balance depends on them.  `Scan` is the loop as coded: it counts on from the
  best worker so far, so with three workers or more some are passed over and others
  looked at twice (`server.c:384`).
* `RateLimit`: `Wrap` stands for 2^16.  `seen` and `allowed` are history: when the last
  check began, and the actions allowed lately, each as its slot and a number in it.
* `Daemon`: an `fcntl` lock belongs to a process and is lost when that process
  closes the file, so `fork_first` leaves the child without one.  `serial` is
  chosen in `Init`: do starts and stops overlap, or does an init script order
  them?

## 3. Runs

| Run | Bounds | Checks |
|---|---|---|
| `jobqueue_locked` | ring of 2, 5 jobs, 2 pool threads | ring, positions and semaphore agree (`QueueConsistent`); the queue is a `JobHandoff`; every accepted job runs |
| `jobqueue_one_worker` | ring of 2, 4 jobs, 2 enqueuers, 1 pool thread | counters account for every slot, the queue is a `JobHandoff`, every accepted job runs |
| `jobqueue_lapped` | ring of 2, 3 jobs, 2 pool threads | **violated**: `NoJobLost` |
| `commands_locked` | 4 commands, 2 threads | a wake-up is never lost, the queue is a `RunOnThread`, every command is executed although nothing else happens |
| `commands_memory` | 3 commands, 2 threads, an epoch per 2 nodes, a scan per 2 retired nodes | no freed node is touched, commands of a thread are executed once and in order |
| `commands_lost_wakeup` | 1 command, 1 thread | **violated**: `ScheduledEventuallyRuns` |
| `service` | see below | the parts of `MCService` |
| `network` | see below | the parts of `MCNetwork` |
| `watch_pipe_end` | 2 descriptors, epoll | **violated**: `ReadyIsRaised` |
| `timer_reused` | 2 timers | **violated**: `StoppedWhenDestroyed` |
| `conn_tls_client` | one TLS client connection | **violated**: `ReadyWhenConnected` |
| `conn_sent_twice` | one plain connection, one buffer written in parts | **violated**: `ConfirmedOnce` |

`service` and `network`, part by part:

| Part | Instance | Checks |
|---|---|---|
| event | 3 handlers, 2 identifiers, 3 nested raises | `RaiseSafe`: the cursor never points to a freed entry, nobody is called twice; `RaiseReachesAll`: a raise that is not nested reaches everybody |
| pool | 2 jobs, 2 threads, three scenarios | `PoolMemorySafe`: no job or task is used after it was freed, the pool outlives its threads; `EveryJobFinishes`, if the pool is not stopped |
| jobqueue | ring of 2, 3 jobs, 2 enqueuers, 2 pool threads | `TakenOnce`, also when the ring is lapped |
| service | 2 workers, 2 shutdown locks, 2 termination signals | `EndsInOrder`: the end waits for locks, timer and pool; `EndsWhenAsked` |
| watch | 2 descriptors with a gap, room for one event and one change, 5 backends | `EventsAsAsked`: the system watches what was asked for, only what was reported is raised, once; `ReadyIsServed` |
| timer | 2 timers, also destroyed while they run | `TimersExact`: what was started expires, what is armed can be stopped, nothing else expires but what a destroyed timer left, the pool has each unused timer once |
| process | 2 processes, without pipes, with one to write to, with one to read from | `ProcessSafe`: freed once, done after child and pipes; `ProcessEnds` |
| daemon | 3 starts in order, or 2 overlapping | `PidfileExcludes`: one daemon, named by its pidfile, never two on one file; `StartEnds` |
| connection | 10 scenarios; write buffer of 2, 2 records, read buffer of 3 | `WrittenInOrder`: nothing twice, lost or confirmed early, freed after it was flushed; `ReadInOrder`; `WritesEnd` |
| server | 3 connections, 3 workers | `ConnectionsCounted`: counts are exact, destroying closes everything first, and no worker is left to post; `ServerEnds` |
| client | 2 requests, 2 addresses, blacklist of 2 | `HeldWhileNeeded`: options and TLS context; `AddressesTried`: avoided as asked, the others tried |
| resolver | 2 addresses, with a pool | `ResolverNotFreed`; with the client, `RequestsAnswered` |
| ratelimit | 1 thread, window of 5 s in 3 slots, slot numbers modulo 8, 24 s | `LimitExact`: never more than the limit in a window, rejections only at the limit, the sum agrees with the counts |
| dictionary | 4 keys of 3 digits, 2 of them equal; 3 objects, 2 threads | `DictionaryIsMap`; `DeletedSafely`: an object is deleted once, as asked, and never under a reader |

Why the bounds are enough to mean something: rings wrap at least once and
overflow; there is one more job, command or write request than slots; write
requests are shorter and longer than the buffer, and messages fit the read buffer,
fill it and are split by it; the system reports fewer events than there are ready
descriptors, so that a round leaves some for the next; slot numbers wrap twice,
with gaps of up to a whole range less one; three workers, the least with which the
scan for a less busy one can pass over one, so that a worker has two connections while
another has none; a daemon crashes, its successor cleans up and a third start
meets the successor; two keys share a whole hash, so that they end in one list, a
third makes tables split on the way, a fourth has a lock of its own.  In
`commands_memory` the wake flag is left out of the view: it decides when the loop
runs, and another event may make it run at any time.

Deadlock is not checked where the system may rest: all jobs offered and
finished, all starts over, the clock at its bound.

### Fairness

Weak fairness of each thread's next step: the scheduler of the operating system
does not suspend a runnable thread for ever.  A thread in `sem_wait`, `epoll_wait` or
`F_SETLKW` is not runnable, and nothing is assumed about it.  Further: jobs return,
a task that was handed to the program is completed, a timer that was started
expires, and a daemon either launches or returns; a launched daemon may run for
ever.

Strong fairness is assumed in two places.  `Watch`: a descriptor that is ready again
and again is among the reported ones again and again, although the buffer for events
has room for fewer; the systems rotate their ready lists.  `Connection`: of the
attempts to write, infinitely many make progress, and the peer's side lets a
TLS shutdown end; a connection that is reported ready and never takes anything
would be a peer that stopped, for which the library has no timeout.

Nothing is assumed about clients, users, crashes or other sources of events, with
two exceptions, each a hypothesis of its own in the property because the code does
not bring it about:

* `OthersWake` in `WritesEnd`: on connections without TLS the loop is woken
  again and again by something else.  A partial write by `tryWrite` (`connection.c:355`,
  452) returns without asking for a write event; the rest stays in the buffer until
  another event ends the wait.  Without the hypothesis TLC finds the connection at rest
  with data queued, where `connection.h:196` says it is "sent as soon as the socket is
  ready for sending".  With TLS it is not needed.
* `PipeEndsReported` in `ProcessEnds`: the reader of a pipe learns that the child closed
  it.  Under epoll and poll it does not: this is the defect `watch_pipe_end` shows, so
  there a process with a pipe on its standard output or error never raises done, against
  `process.h:195`.  A process without such pipes is done with no hypothesis
  (`UnreadIsDone`), and one that is stopped ends (`StopEnds`).

In `Process` a child need not end by itself; one that is killed does.

### What the code does not keep

Six runs show disagreements of code and documentation:

* `jobqueue_lapped`.  With two pool threads the lock-free job queue can lose an
  accepted job: `JobQueue_dequeue` claims a position and empties its slot later;
  while other threads hand back slots, an enqueuer laps it and overwrites the job.
* `commands_lost_wakeup`.  The lock-free `runCommands` looks for commands before it
  sets `mustwake`.  A command linked in between is neither seen nor announced, and
  the thread sleeps on it until something else happens.  The mutex build does both
  in one critical section, and for that the absence of the defect is proved.
* `watch_pipe_end`.  epoll and poll report the end of an emptied pipe as `EPOLLHUP`
  alone, for which nothing is raised (`service.c:1359`, 1417).
* `timer_reused`.  With timerfd, a timer that is destroyed while it runs goes back
  to the pool armed (`timer.c:154`); the next timer created raises its expired event.
* `conn_tls_client`.  A TLS client's `connectTimer` is handed over and not cleared
  (`connection.c:404`), so that sending is refused after the connected event.
* `conn_sent_twice`.  Without TLS an id is raised again with each further part of
  its buffer (348).

Other properties hold only with a restriction that is visible in the
configuration or in the property; each was met by lifting the restriction:

* `CommandQueue` with two enqueuers, even if the loop never sleeps: a command can
  be linked behind a node that was just retired, because `SharedObj_retire` sets
  `next` to null (`sharedobj.c:40`).  It is never executed.
* `Event`, `~Top.nested` in `RaiseReachesAll`: a handler that raises the same
  event makes the outer raise skip its remaining handlers (`event.c:124`).
* `ThreadPool`, scenario `Cancels` with the awaiting job canceled: a job canceled
  while it awaits off its thread is not resumed and never finishes
  (`threadpool.c:348`, 565), although `threadpool.h` says that "in any case, its
  finished event will fire".  One that blocks its thread frees its task while the
  main thread still has it (504), and so does a bystander hit by a late signal
  (774).  A thread that is stopped drops the job it has taken (339).
* `ThreadPool`, queue shorter than the number of jobs: a job whose task is
  completed while the queue is full is dropped (527).
* `ThreadPool`: a pool thread on its way into `sem_wait` misses the stop (338,
  542); it is signalled again when the service's shutdown timer expires.  `Service`
  takes it that pool threads end.
* `Server`, `Settled = FALSE`: a server destroyed while an accepted connection
  waits for its worker is freed too early (`server.c:1163`), and so is one that finds
  `nconn` at 0 while the worker of the last connection has not posted the semaphore yet
  (232-234 against 1163-1202): the post comes after the free.
* `Server`, timeout 0: after a graceful shutdown nothing destroys the server when
  its last connection closes (232), only the end of the service does.
* `Timer`, `Uses`: the flag of a periodic timer is not kept (`timer.c:341`), so that it
  cannot be stopped once it expired; a start in the timer's own handler is undone (338);
  a handler that destroys the thread's last timer frees what `expired` still uses, as
  `forceDestroy` of a server may (`server.c:1095`, 1162).  A running timer is neither
  restarted by `PSC_Timer_start` nor by `PSC_Timer_setMs`, whatever `timer.h:51` says.
* `Process`, `ReusePids = TRUE`: the handler for the end of a child stays registered
  after the object was freed, and a pid may come again (`process.c:349`).
* `Watch`: an event for a descriptor that was unregistered in the same round may
  still be raised; `EventsAsAsked` asks only that it was reported.
* `Service`, `CommandsKept`: any thread may post to a worker before its queue
  exists, and workers and pool threads to one that has ended, since workers are stopped
  one by one; one that could not be created is posted to and joined as well
  (`service.c:1924`, 1985).  `Settled` keeps failing and late workers out of `EndsWhenAsked`;
  `EndsInOrder` is proved without it.  `HandlerGetsSignal`: a signal handler that was removed
  and is registered again is stored, but the signal is not blocked again (1046).
  Without a timer for the first shutdown lock the service ends at once (2175), also while
  the pool stops (`app.notimer`).
  `QuitElsewhereEnds`: a quit on another thread sets a flag the sleeping loop does not
  see (`service.c:2144`).  `LockedAgain` in the model: locks taken after the only
  timeout are waited for without limit; a second `SIGTERM` forgets them.  A quit
  raises no shutdown event, and a panic does not stop the pool.  Some failures during
  startup return without restoring the signal mask, or with `EXIT_SUCCESS`.
* `Connection`: a handler that keeps the buffer it was given sees it overwritten when
  data is moved to the front; pausing drops data that was read ahead; a connection
  that is paused and closed with data pending is never freed; ids of records dropped
  on an error are never confirmed; `dataReceived` may come after `closed`; of two line
  ends the first CRLF is preferred over an earlier LF.  Not modelled: a connection without
  a timer for it (818, 837), which its creator does not get but which is closed later.
* `Process`: one call of `PSC_Process_exec` per object (`process.c:314` ignores a second
  one only while the first child is there).
* `Client`: the blacklist and the count of the TLS context are shared between
  threads without a lock, therefore one thread here; a full blacklist takes no more
  entries, silently; the result of the enqueue is ignored (`client.c:460`), so that a request
  the pool refuses ("lost") returns 0, "in progress" (`client.h:165`), is never called back and
  holds the options for ever: `RequestsAnswered` is about the others; a failure after the
  certificate was read frees it twice.  Not modelled: a failing `SSL_CTX_new` (83), after
  which the connection drops a reference it never took, and a connection that could not be
  created (207).
* `Resolver`, `InHandler`: destroying it in the done handler of a resolve that ran
  without a job frees the event being raised.
* `RateLimit`, `MaxGap` of a whole range: an entry exactly 2^16 slots old looks
  current (`ratelimit.c:130`).  Two threads: one that read the time before another
  one moved the entry on clears the whole window (135, 160); with the spin lock,
  the `memset` also releases the lock (132).
* `Dictionary`, `Collides`: removing a key that is not there, but whose 64-bit hash is
  that of one that is, appends an entry with a null object and counts it
  (`dictionary.c:248`).  And `get` returns a pointer after the bucket was released:
  another thread may delete the object before it is used.
* `Daemon`, `serial = FALSE`: two starts can end with two daemons, or with one of
  them waiting for ever; a daemon that stops can remove the pidfile of the next
  one (`daemon.c:158`, 116, 268).  A child that fails between the forks is
  reported as a success (188).

## 4. Proofs

TLAPS proves, for every value of the constants:

* `WorkProofs!Invariance` and `Refinement`: type correctness,
  `QueueConsistent`, and that the mutex build implements `JobHandoff`.  Assumed: the
  queue has a positive size, null is no job, the pool threads are finitely many.
  The inductive invariant is `TypeOK /\ QueueConsistent`; it ties the four pieces
  of state the code keeps apart: `enqpos` is as far ahead of `deqpos`, modulo the
  size, as `avail` says slots are in use; the semaphore and the threads it has
  woken account for one token per slot in use; every slot in use holds a job; a
  thread that runs holds one.
  Lemmas about `Advance` and modular positions carry the arithmetic; each step of
  the ring maps to a step of the FIFO or to a stutter.
* `JobQueueProofs!TypeCorrect` and `Conservation`: in the lock-free build, for
  finitely many threads of both kinds, `avail`, the semaphore, the reservations of
  enqueuers and the claims of pool threads add up to the size under every
  interleaving.  The sums are cardinalities of the sets of threads at each
  control point; a step moves one thread from one set to the next.
* `ServiceProofs!CommandInvariance`, `WakeupNotLost` and `CommandRefinement`: the
  mutex build never sleeps on a command without a wake-up under way, for any
  number of threads, and implements `RunOnThread`.  `NoLostWakeup` alone is not
  inductive: `IInv` adds what the flag promises at each place of the loop.
  `mustwake` is set only while nothing is queued; once an enqueuer has cleared it
  behind `runCommands`, the eventfd is readable or that enqueuer is about to write
  it; and a loop that saw the event finds the eventfd readable.
* `JobQueueProofs!NoJobTwice`: the lock-free build hands no job out twice, although it
  can lose one.  `OneCopy` says where a job may be: with one enqueuer, in one slot, with
  one pool thread or finished, and in only one of these.  A lapped ring overwrites a
  slot and so can only remove a copy.
* `JobQueueProofs!OneThreadHandsOver` and `OneThreadLosesNone`: with one pool thread the
  lock-free build implements `JobHandoff` (with its early refusals, `LooseSpec`) and keeps
  `NoJobLost`, for any number of service threads and any size.  With two pool threads neither
  holds (section 3): the hypothesis is what excludes a lapped ring.  `InOrder` compares the
  ring with the history of claims.  `PositionsFit`: `enqpos` and `deqpos` are the numbers of
  claims modulo the size, and the claims not handed over are as many as the semaphore, the
  threads that have yet to post and a woken pool thread account for; with
  `SlotConservation` these are never more than the size.  `SlotsFit`: so two of them never
  share a slot (`SlotsApart`), a store finds its slot empty, and the job in a slot is that of
  the one position not yet taken out which has this slot.  Hence the exchange of
  `JobQueue_dequeue` returns the job of the position it claimed (`TakesItsJob`), although the
  semaphore may have been posted for another one.
* `JobQueueProofs!PoolSafety`: for any jobs, threads and queue size, no job or task of
  the pool is used after it was freed and no job is in two hands.  The only hypothesis
  beyond `PoolAssumption` is `NoSignalWhileBlocked`: where a job may block its thread in an
  await, the program neither cancels, times out nor stops; section 3 says what happens
  otherwise.  `PoolInv` follows a job from hand to hand (`InOnePlace`: in the queue,
  with the main thread, complete, or scheduled as done), ties a worker to the job it
  has (`WorkersHold`) and a task to who may touch it (`TasksHold`), and counts the
  threads that are not joined (`ThreadsCounted`).
* `CommandQueueProofs!CommandsInOrder` and `CommandMemorySafe`: the lock-free command
  queue, for any number of threads, commands and dummy nodes and any intervals of
  epochs and scans.  The state does not keep the order in which nodes were linked,
  since `SharedObj_retire` reuses their links; the invariant says that there is one:
  `Fits(pos)` for some `pos` that gives each linked node its place.  From `Low`, the
  oldest node not handed to `SharedObj_retire`, the links follow the places one by
  one up to the last node linked; below it they lead to smaller places, through nodes not
  yet freed; a swing of `q->last` is to the next place or too late to matter; and
  what the loop cut off are commands up to its own dummy.  A node linked behind a
  retired one (section 3) gets no place: it is lost, but order and memory do not
  depend on it, and the theorems hold with that defect.  For memory, `EpochFits` adds
  that a thread about to use the node it loaded announces an epoch between the
  node's creation and its retirement, and that a scan of that node has not passed
  over the thread.  This needs `EpochNeverWraps`: fewer objects are created
  than the epoch has values (2^32); order does not need it.
* `ServiceProofs!RaiseSafety` and `RaiseReaches`: for any handlers, identifiers and
  depth of nesting.  Assumed: null is no handler, every handler has an identifier.
  The invariant `EventInv` speaks of the entries *ahead* of the cursor: nothing called
  before is ahead, and all that is due and not yet called is, unless a handler raised
  again; a raise that is about to return has left the cursor at null, and that is
  why the outer raise then stops.  Lemmas say what `Append` and `Unlink` do to the
  entries ahead of a place.
* `ServerProofs!CountsAlwaysExact` and `AllConnectionsCounted`: for any number of
  workers and any finite set of connections.  The first needs nothing more; the second
  is about servers that are not destroyed while a connection waits for its worker or a
  worker has yet to post (`Settled`), see section 3.  `nconn` and `nactive` are cardinalities of sets of
  connections; the semaphore `allclosed` is tied to the threads about to wait for it
  and to post it: value + posting + (1 if `nconn` is not 0) = 1 + waiting.  In addition each
  command to accept is for a connection that still waits, once.
* `ServerProofs!DictionaryMaps` and `DictionaryDeletes`: for any finite sets of keys and
  threads, any hash and all ways of deleting, with `Collides` as in section 3.  `DictInv`
  says that the tables form a tree in which each key has one bucket (`WellFormed`), that
  bucket locks belong to who is inside (`LocksFit`), that the count is that of the
  entries, less what was counted and is not linked yet (`EntriesFit`), that an object is
  stored or was deleted as often as it was taken out (`ObjectsFit`), and per thread
  what it knows in the middle of an operation (`StepFits`); for `removeAll`, which
  works without a lock on the whole, that is what it still owes.
* `WorkProofs!ResolverSafety`: the only restriction is that the handler of a
  synchronous resolve does not destroy the resolver.  Its invariant says that a
  job, or the done event of one, keeps the resolver alive, and that `handling` tells
  exactly whether it was destroyed meanwhile.
* `WorkProofs!ProcessSafety`: for any objects, pids and pipes, without reuse of
  pids (`~ReusePids`).  The invariant goes through the two command queues: what the main
  thread was asked is asked once; a command for the owner is for an object that is alive;
  and the command that ends an object is the last one for it.
* `ServiceProofs!ServiceInvariant` and `ServiceEndsInOrder`: for any workers, locks and
  signals, whether or not workers start and timers can be created, the count of shutdown
  locks, their holders and the end of the loop agree, and the pool ends first.  `LocksCounted`
  is what makes it inductive: until the delay is cut short, `shutdownRef` is at least the
  locks the handlers hold, and one more while the pool stops.
* `ServiceProofs!OneDaemonOnPidfile`: for any set of starts.  `LocksFit` says of every
  process of a start where it has the write lock of its file, and of every write lock
  whose it is, which excludes two daemons on one file however starts overlap.  For
  starts in sequence `InSequence` adds that only one start owns the pidfile, and that who
  looks at it sees the file of the daemon that runs.
* `RefcountProofs!ClientHolds`: for any finite set of requests, any addresses and any
  options.  The counts of options and TLS context are cardinalities of the sets of
  requests that use them.
* `RefcountProofs!ClientTries`: for any requests, addresses, blacklists and results of
  lookups.  The loop over the addresses is a recursive function; `Induction!LoopRuns`
  says that its value comes from a run of the loop, and each turn keeps `TriedInv`: the
  blacklist owes each address what was asked less what it was passed over.
* `ConnectionProofs!ConnWrites`: for any sizes of the buffers, any number of write
  requests of any length and any results of writing, reading and the TLS library.
  Assumed (`ConnAssumption`): the buffers have a size, and every request has something to
  send.  `ConnInv` says that the wire, followed by what is left of the write buffer and of
  the queued requests, is all that was sent, unless an error dropped it (`StreamOK`); that
  a confirmation stands at the last byte of its request, and what lies before `wrbufpos`
  is on the wire (`BufferOK`), so that an id that falls due was written; that
  data is dropped only with the connection closed, and then nothing is queued any more; and
  that only a connection already closed is shut down or freed.  The lemmas say that `Fill`
  moves the front of the queue into the buffer, also when it cuts a request in two
  (`Filled`), and that `Written` moves bytes from the buffer to the wire (`WrittenKeeps`).
* `ServiceProofs!WatchEvents`: `EventsAsAsked` for any finite set of descriptors, any room
  for events and changes, and each of the five backends.  Assumed: event ports do not
  report the end of a pipe as `POLLHUP` alone (`"evports" \notin EndIsHup`), since
  `processEvents` associates a descriptor again only after an event it raised.
  `WatchInv` says per backend how the registrations are kept (`Kept`): the hash of watches,
  where event ports may miss a descriptor until its `reregister` is done; the changes
  collected for kqueue, of which the last one per descriptor and direction counts; the first
  `nfds` entries of poll's array, one per descriptor; the sets of select, their sizes and a
  bound above them.  What is left of a round was reported, each event once (`ListDue`);
  for poll, whose array handlers compact and extend while it is walked through, that is
  said of the entry looked at and of the ones after it (`ScanDue`): an entry that is moved
  comes from behind, so it can be passed over and never seen twice.
* `RefcountProofs!RateLimits`: `LimitExact` for every limit, length, `MAXCOUNTS` and range of
  the counters, for one thread per key that checks at least once in `Wrap - 1` slots, both
  as in section 3, where the exceptions are.  `RateInv` says that
  the entry is what counting the history up to some slot gives (`RingFits`): the counter
  *k* positions behind `countpos` is the number of actions *k* slots before, the total is
  that of the last `NCounts` slots, and `last` is the slot modulo `Wrap`; the slot is that
  of the time read last, once the ring was aged for it (`Aged`).  The loop of `checkLimit`
  then drops exactly the counters of the slots that leave the window (`RotateFits`), however
  often it goes round the ring; a reset drops nothing that counts (`ZeroedFits`); and since
  the total is below the limit when an action is counted, no `uint16_t` wraps
  (`CountFits`).  Sums over the ring are cardinalities of unions of
  disjoint parts of the history (`SumIs`).  `RateRingFits`: with any number of threads, the
  ring is no longer than its array and covers the whole time of the limit.
* `RefcountProofs!TimersAlwaysExact`: for any finite set of timers, destroyed also while
  they run, as the library does, with the other uses of section 3 left out
  (`Uses \subseteq {"destroy"}`).  `TimerFits` follows one expiration: it is
  to come, counted by the kernel, or on its way to the handlers, in one of these
  places only, and either the application waits for it or a destroyed timer left it (`left`);
  the pool's list is without duplicates and its count is that of the timers there are.

Each invariant was checked by TLC on the instance of section 3 before it was proved, for
both values of a constant such as `Settled` where a theorem makes a difference; `pos`
was a history variable then.  The hypotheses are the assumptions of the component's
module, which TLC evaluates on these instances (`ASSUME` in `MCService`, `MCNetwork` and
`MCCommandQueue`), and the constants that stand for a restriction of section 3; the
instances satisfy them.

`Induction` has what the proofs need of induction over data.  The library's theorems take
an operator as a parameter, which the provers cannot instantiate; the facts here are about
sets instead (a set of numbers has a least element; what holds of 0 and of the next
number holds of all), and `LoopRuns` turns a recursive function into the sequence of its
steps.  `FlattenSeq` of the community modules is recursive, too; `FlattenCut` and
`FlattenAppend` say how it takes a sequence apart and put one together, and
`FlattenPlaces` where the elements of its parts are.  The lemmas about remainders are for
positions in a ring.

Only model-checked:

* Everything about liveness, which is out of the prover's reach.
* `ReadInOrder`: what was read is selected from the history with an operator whose
  recursive definition would first need lemmas of its own.

## 5. Limits, and what is not modelled

* Memory is sequentially consistent; the memory orders of the atomics, release
  and acquire where a total order would be needed (`sharedobj.c:100`,
  `dictionary.c:368`), are out of scope.
* The epoch does not wrap (`sharedobj.c:58`; `EpochNeverWraps`, a hypothesis of
  `CommandMemorySafe` and an assumption of the runs), and `malloc` never returns an address
  that is still announced.
* Allocation does not fail (the library ends the program then).
* `Service` is the build with epoll, signalfd and eventfd; `Timer` the one with
  timerfd.  The timers of kqueue, event ports and setitimer are not modelled.
* `ThreadPool`: a failing `PSC_ThreadPool_init` (`threadpool.c:703-730`) stops the threads
  it created again, before there is any job; the model begins with a pool that is up.
* `Server`: certificates and TLS configuration, sockets and addresses; a service without
  workers, where the server's pool of connections is destroyed on the main thread (1169).
* `Process`: what the child does before `exec` (`prepareChild`).
* `Log`: one job per message and no state; a full queue loses the message.
* `ObjectPool`: its bookkeeping is right only while one chunk suffices (`lastused`
  is not moved by the first object of a new chunk, and the index is not taken modulo
  the chunk when one is released); a model would first need a repaired code to state
  more than that.
* Queue, list, hash table, stack manager: sequential containers that the unit tests
  reach; JSON, Base64, addresses, strings, random numbers, certificates: conversions
  of text without a protocol.  The hash is vendored code.

## 6. Plan

1. Done: queues, shared objects, events, thread pool, service loop and its backends,
   timers, processes, daemon, connections, servers, clients, resolver, rate limiter,
   dictionary; proofs for both queues in both builds, shared objects, event, thread pool,
   server, resolver, process, service and its backends, daemon, client, timer, dictionary
   and the writing of connections.
2. Proofs: `Connection!ReadInOrder`.
3. Then the other builds of `Timer`, the object pool, and Base64 and address prefixes
   against a reference.
