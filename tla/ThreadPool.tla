----------------------------- MODULE ThreadPool -----------------------------
(***************************************************************************)
(* The life of thread jobs in the pool (threadpool.c, build with atomics   *)
(* and user contexts): the main thread enqueues, cancels and finishes      *)
(* them, pool threads run them, and a job may await an async task that is  *)
(* completed on the main thread.  The queue of jobs is the bounded FIFO of *)
(* JobHandoff, and runOnThread appends to the FIFO of RunOnThread.         *)
(*                                                                         *)
(* A job awaits at most one task.  An "async" job has a stack of its own   *)
(* and leaves its pool thread while it awaits; a "blocking" one keeps it   *)
(* and waits on the task's semaphore.                                      *)
(***************************************************************************)
EXTENDS Naturals, Sequences, FiniteSets

CONSTANTS PoolJobs,  \* the jobs ever created, all on the main thread
          PoolThreads, \* the threads of the pool
          Scenarios, \* what the program may do with them, see opts
          Unset

PoolAssumption ==
    /\ IsFiniteSet(PoolThreads) /\ PoolThreads # {} /\ Unset \notin PoolJobs \cup PoolThreads
    /\ \A o \in Scenarios : /\ o.sz \in Nat \ {0} /\ o.stops \in BOOLEAN
                            /\ o.async \cap o.blocking = {}

VARIABLES opts,      \* the choices of the program, a record:
                     \*   sz         the length of the job queue
                     \*   async      the jobs that await a task with setAsync ...
                     \*   blocking   ... and the ones that await it without
                     \*   timed      the jobs created with a timeout
                     \*   canceled   the jobs the user may cancel
                     \*   panicking  the jobs that may panic
                     \*   stops      whether PSC_ThreadPool_done is called
          jobQueue,  \* the jobs in the JobQueue
          cmds,      \* the commands scheduled on the main thread
          state,     \* per job: "new", "refused", "live" or "freed"
          hasCompleted, pthrno, task, jobtimer, panicmsg, \* PSC_ThreadJob, per job
          held,      \* per job: the user on the main thread has its task
          complete,  \* per job: the semaphore of its task
          fired,     \* history, per job: how often finished was raised
          mpc,       \* where the main thread is in PSC_ThreadPool_cancel
          thrpc, currentJob, \* per worker: where it is and on which job
          stop,      \* per worker: its stop semaphore
          rthreads,  \* the workers that were not joined yet
          pool       \* "active", "stopping", "gone" or, after a panic, "panic"

jobvars == <<state, hasCompleted, pthrno, task, jobtimer, panicmsg, held, complete, fired>>
poolvars == <<opts, jobQueue, cmds, jobvars, mpc, thrpc, currentJob, stop, rthreads, pool>>

Loop == [at |-> "loop", job |-> Unset, thr |-> Unset]
JobDone(j) == [run |-> "threadJobDone", arg |-> j]
WorkerDone(w) == [run |-> "workerDone", arg |-> w]

\* The pool as it is when PSC_ThreadPool_init succeeds.  (When it fails, the threads
\* that were created are stopped again, before there is any job.)
PSC_ThreadPool_init ==
    /\ jobQueue = <<>> /\ cmds = <<>>
    /\ thrpc = [w \in PoolThreads |-> "top"] /\ currentJob = [w \in PoolThreads |-> Unset]
    /\ stop = [w \in PoolThreads |-> FALSE]
    /\ rthreads = Cardinality(PoolThreads) /\ pool = "active"

PSC_ThreadJob_create ==
    /\ state = [j \in PoolJobs |-> "new"]
    /\ hasCompleted = [j \in PoolJobs |-> TRUE]
    /\ pthrno = [j \in PoolJobs |-> Unset]
    /\ task = [j \in PoolJobs |-> "none"]
    /\ jobtimer = [j \in PoolJobs |-> FALSE]
    /\ panicmsg = [j \in PoolJobs |-> FALSE]
    /\ held = [j \in PoolJobs |-> FALSE] /\ complete = [j \in PoolJobs |-> FALSE]
    /\ fired = [j \in PoolJobs |-> 0]

PoolInit == /\ opts \in Scenarios
            /\ PSC_ThreadPool_init /\ PSC_ThreadJob_create /\ mpc = Loop

-----------------------------------------------------------------------------
(* The main thread: user code and commands, one at a time *)

MainFree == mpc = Loop /\ pool # "panic"

\* The job is accepted and its timeout starts.
PSC_ThreadPool_enqueue(j) ==
    /\ MainFree /\ pool = "active"
    /\ state[j] = "new" /\ Len(jobQueue) < opts.sz
    /\ state' = [state EXCEPT ![j] = "live"]
    /\ jobQueue' = Append(jobQueue, j)
    /\ jobtimer' = [jobtimer EXCEPT ![j] = j \in opts.timed]
    /\ UNCHANGED <<cmds, hasCompleted, pthrno, task, panicmsg, held, complete,
                   fired, mpc, thrpc, currentJob, stop, rthreads, pool>>

\* Queue overflow: the job stays with its creator.
PSC_ThreadPool_enqueue_full(j) ==
    /\ MainFree /\ pool = "active"
    /\ state[j] = "new" /\ Len(jobQueue) = opts.sz
    /\ state' = [state EXCEPT ![j] = "refused"]
    /\ UNCHANGED <<jobQueue, cmds, hasCompleted, pthrno, task, jobtimer, panicmsg, held,
                   complete, fired, mpc, thrpc, currentJob, stop, rthreads, pool>>

\* PSC_ThreadPool_cancel, called by the user or by jobTimeout: the flag is
\* cleared, then the thread the job runs on is read, then it is signalled.
\* Bound: a job is canceled once; another cancel would only signal again.
PSC_ThreadPool_cancel(j) ==
    /\ MainFree /\ pool # "gone"
    /\ state[j] = "live" /\ hasCompleted[j]
    /\ \/ j \in opts.canceled /\ UNCHANGED jobtimer
       \/ jobtimer[j] /\ jobtimer' = [jobtimer EXCEPT ![j] = FALSE]
    /\ hasCompleted' = [hasCompleted EXCEPT ![j] = FALSE]
    /\ mpc' = [at |-> "load", job |-> j, thr |-> Unset]
    /\ UNCHANGED <<jobQueue, cmds, state, pthrno, task, panicmsg, held, complete,
                   fired, thrpc, currentJob, stop, rthreads, pool>>

cancel_load ==
    /\ mpc.at = "load"
    /\ mpc' = IF pthrno[mpc.job] = Unset THEN Loop
              ELSE [mpc EXCEPT !.at = "kill", !.thr = pthrno[mpc.job]]
    /\ UNCHANGED <<jobQueue, cmds, jobvars, thrpc, currentJob, stop, rthreads, pool>>

\* SIGUSR1 ends a sem_wait: a dequeue comes back without a job, and an await
\* that blocks comes back without its result and frees the task.
Interrupted(W) ==
    /\ thrpc' = [w \in PoolThreads |-> CASE w \in W /\ thrpc[w] = "wait" -> "got"
                                       [] w \in W /\ thrpc[w] = "blocked" -> "run"
                                       [] OTHER -> thrpc[w]]
    /\ task' = [j \in PoolJobs |-> IF \E w \in W : thrpc[w] = "blocked" /\ currentJob[w] = j
                                   THEN "freed" ELSE task[j]]

cancel_kill ==
    /\ mpc.at = "kill"
    /\ Interrupted({mpc.thr})
    /\ mpc' = Loop
    /\ UNCHANGED <<jobQueue, cmds, state, hasCompleted, pthrno, jobtimer, panicmsg, held,
                   complete, fired, currentJob, stop, rthreads, pool>>

\* Mutant: the job is destroyed although it only awaits its task.
threadJobDone_destroy(j) ==
    /\ MainFree /\ cmds # <<>> /\ Head(cmds) = JobDone(j)
    /\ cmds' = Tail(cmds)
    /\ jobtimer' = [jobtimer EXCEPT ![j] = FALSE]
    /\ state' = [state EXCEPT ![j] = "freed"]
    /\ fired' = [fired EXCEPT ![j] = @ + 1]
    /\ held' = [held EXCEPT ![j] = task[j] = "live"]
    /\ pool' = IF panicmsg[j] THEN "panic" ELSE pool
    /\ UNCHANGED <<jobQueue, hasCompleted, pthrno, task, panicmsg, complete, mpc, thrpc,
                   currentJob, stop, rthreads>>

\* The job panicked, awaits its task (whose function gets the task), or is
\* done: finished is raised and the job destroyed.
threadJobDone(j) ==
    /\ MainFree /\ cmds # <<>> /\ Head(cmds) = JobDone(j)
    /\ cmds' = Tail(cmds)
    /\ jobtimer' = [jobtimer EXCEPT ![j] = FALSE]
    /\ \/ /\ panicmsg[j]
          /\ state' = [state EXCEPT ![j] = "freed"]
          /\ pool' = "panic"
          /\ UNCHANGED <<held, fired>>
       \/ /\ ~panicmsg[j] /\ task[j] = "live"
          /\ held' = [held EXCEPT ![j] = TRUE]
          /\ UNCHANGED <<state, fired, pool>>
       \/ /\ ~panicmsg[j] /\ task[j] # "live"
          /\ fired' = [fired EXCEPT ![j] = @ + 1]
          /\ state' = [state EXCEPT ![j] = "freed"]
          /\ UNCHANGED <<held, pool>>
    /\ UNCHANGED <<jobQueue, hasCompleted, pthrno, task, panicmsg, complete, mpc, thrpc,
                   currentJob, stop, rthreads>>

\* The user completes the task, now or later.  The result of enqueuing an
\* async job again is ignored.
PSC_AsyncTask_complete(j) ==
    /\ MainFree /\ held[j]
    /\ held' = [held EXCEPT ![j] = FALSE]
    /\ \/ /\ j \in opts.async /\ Len(jobQueue) < opts.sz
          /\ jobQueue' = Append(jobQueue, j)
          /\ jobtimer' = [jobtimer EXCEPT ![j] = j \in opts.timed]
          /\ UNCHANGED complete
       \/ /\ j \in opts.async /\ Len(jobQueue) = opts.sz
          /\ UNCHANGED <<jobQueue, jobtimer, complete>>
       \/ /\ j \in opts.blocking
          /\ complete' = [complete EXCEPT ![j] = TRUE]
          /\ UNCHANGED <<jobQueue, jobtimer>>
    /\ UNCHANGED <<cmds, state, hasCompleted, pthrno, task, panicmsg, fired, mpc,
                   thrpc, currentJob, stop, rthreads, pool>>

\* stopThreads: a worker is told to stop and signalled.
PSC_ThreadPool_done ==
    /\ MainFree /\ opts.stops /\ pool = "active"
    /\ stop' = [w \in PoolThreads |-> TRUE]
    /\ Interrupted(PoolThreads)
    /\ pool' = "stopping"
    /\ UNCHANGED <<jobQueue, cmds, state, hasCompleted, pthrno, jobtimer, panicmsg, held,
                   complete, fired, mpc, currentJob, rthreads>>

\* The worker is joined; the last one takes queue and threads with it.
workerDone(w) ==
    /\ MainFree /\ cmds # <<>> /\ Head(cmds) = WorkerDone(w)
    /\ cmds' = Tail(cmds)
    /\ rthreads' = rthreads - 1
    /\ pool' = IF rthreads' = 0 THEN "gone" ELSE pool
    /\ UNCHANGED <<jobQueue, jobvars, mpc, thrpc, currentJob, stop>>

-----------------------------------------------------------------------------
(* The pool threads: worker() *)

GoOn(w, at) == thrpc' = [thrpc EXCEPT ![w] = at]

\* Into sem_wait.
worker_wait(w) ==
    /\ thrpc[w] = "top"
    /\ GoOn(w, "wait")
    /\ UNCHANGED <<jobQueue, cmds, jobvars, mpc, currentJob, stop, rthreads, pool>>

worker_dequeue(w) ==
    /\ thrpc[w] = "wait" /\ jobQueue # <<>>
    /\ jobQueue' = Tail(jobQueue)
    /\ currentJob' = [currentJob EXCEPT ![w] = Head(jobQueue)]
    /\ GoOn(w, "got")
    /\ UNCHANGED <<cmds, jobvars, mpc, stop, rthreads, pool>>

\* "if (stopped) break;", and the end of worker().
worker_stop(w) ==
    /\ thrpc[w] = "got" /\ stop[w]
    /\ currentJob' = [currentJob EXCEPT ![w] = Unset]
    /\ cmds' = Append(cmds, WorkerDone(w))
    /\ GoOn(w, "exited")
    /\ UNCHANGED <<jobQueue, jobvars, mpc, stop, rthreads, pool>>

\* Mutant: a canceled job is dropped.
worker_check_drop(w) ==
    /\ thrpc[w] = "got" /\ ~stop[w]
    /\ GoOn(w, IF currentJob[w] # Unset /\ hasCompleted[currentJob[w]] THEN "start" ELSE "top")
    /\ currentJob' = [currentJob EXCEPT ![w] =
                         IF @ # Unset /\ hasCompleted[@] THEN @ ELSE Unset]
    /\ UNCHANGED <<jobQueue, cmds, jobvars, mpc, stop, rthreads, pool>>

\* No job, a job that is to run, or one that was canceled before.
worker_check(w) ==
    /\ thrpc[w] = "got" /\ ~stop[w]
    /\ GoOn(w, CASE currentJob[w] = Unset -> "top"
               [] currentJob[w] # Unset /\ hasCompleted[currentJob[w]] -> "start"
               [] OTHER -> "post")
    /\ UNCHANGED <<jobQueue, cmds, jobvars, mpc, currentJob, stop, rthreads, pool>>

\* The job is started or, coming back from its task, resumed: then await frees
\* the task and returns.
worker_start(w) ==
    /\ thrpc[w] = "start"
    /\ pthrno' = [pthrno EXCEPT ![currentJob[w]] = w]
    /\ task' = [task EXCEPT ![currentJob[w]] = IF @ = "live" THEN "freed" ELSE @]
    /\ GoOn(w, "run")
    /\ UNCHANGED <<jobQueue, cmds, state, hasCompleted, jobtimer, panicmsg, held, complete,
                   fired, mpc, currentJob, stop, rthreads, pool>>

\* The job awaits its task: it leaves the thread, or the thread blocks.
PSC_AsyncTask_await(w) ==
    LET j == currentJob[w]
    IN  /\ thrpc[w] = "run" /\ task[j] = "none"
        /\ task' = [task EXCEPT ![j] = "live"]
        /\ \/ /\ j \in opts.async
              /\ GoOn(w, "ran")
              /\ UNCHANGED cmds
           \/ /\ j \in opts.blocking
              /\ cmds' = Append(cmds, JobDone(j))
              /\ GoOn(w, "blocked")
        /\ UNCHANGED <<jobQueue, state, hasCompleted, pthrno, jobtimer, panicmsg, held,
                       complete, fired, mpc, currentJob, stop, rthreads, pool>>

\* sem_wait(&self->complete) returns; the task is freed.
await_return(w) ==
    /\ thrpc[w] = "blocked" /\ complete[currentJob[w]]
    /\ complete' = [complete EXCEPT ![currentJob[w]] = FALSE]
    /\ task' = [task EXCEPT ![currentJob[w]] = "freed"]
    /\ GoOn(w, "run")
    /\ UNCHANGED <<jobQueue, cmds, state, hasCompleted, pthrno, jobtimer, panicmsg, held,
                   fired, mpc, currentJob, stop, rthreads, pool>>

\* The job's proc returns.
worker_return(w) ==
    /\ thrpc[w] = "run"
    /\ GoOn(w, "ran")
    /\ UNCHANGED <<jobQueue, cmds, jobvars, mpc, currentJob, stop, rthreads, pool>>

\* The job panics: checkpanic reports it, and the worker ends.
worker_panic(w) ==
    LET j == currentJob[w]
    IN  /\ thrpc[w] = "run" /\ j \in opts.panicking
        /\ panicmsg' = [panicmsg EXCEPT ![j] = TRUE]
        /\ cmds' = cmds \o <<JobDone(j), WorkerDone(w)>>
        /\ currentJob' = [currentJob EXCEPT ![w] = Unset]
        /\ GoOn(w, "exited")
        /\ UNCHANGED <<jobQueue, state, hasCompleted, pthrno, task, jobtimer, held,
                       complete, fired, mpc, stop, rthreads, pool>>

worker_clear(w) ==
    /\ thrpc[w] = "ran"
    /\ pthrno' = [pthrno EXCEPT ![currentJob[w]] = Unset]
    /\ GoOn(w, "post")
    /\ UNCHANGED <<jobQueue, cmds, state, hasCompleted, task, jobtimer, panicmsg, held,
                   complete, fired, mpc, currentJob, stop, rthreads, pool>>

worker_done(w) ==
    /\ thrpc[w] = "post"
    /\ cmds' = Append(cmds, JobDone(currentJob[w]))
    /\ currentJob' = [currentJob EXCEPT ![w] = Unset]
    /\ GoOn(w, "top")
    /\ UNCHANGED <<jobQueue, jobvars, mpc, stop, rthreads, pool>>

PoolThreadStep(w) ==
    \/ worker_wait(w) \/ worker_dequeue(w) \/ worker_stop(w) \/ worker_check(w)
    \/ worker_start(w) \/ PSC_AsyncTask_await(w) \/ await_return(w)
    \/ worker_return(w) \/ worker_panic(w) \/ worker_clear(w) \/ worker_done(w)

MainStep == \/ cancel_load \/ cancel_kill
            \/ \E j \in PoolJobs : threadJobDone(j)
            \/ \E w \in PoolThreads : workerDone(w)

PoolNext == /\ \/ \E w \in PoolThreads : PoolThreadStep(w)
               \/ MainStep
               \/ \E j \in PoolJobs : \/ PSC_ThreadPool_enqueue(j)
                                      \/ PSC_ThreadPool_enqueue_full(j)
                                      \/ PSC_ThreadPool_cancel(j)
                                      \/ PSC_AsyncTask_complete(j)
               \/ PSC_ThreadPool_done
            /\ UNCHANGED opts

PoolSpec == PoolInit /\ [][PoolNext]_poolvars

\* Threads keep running, procs return, the main loop serves its commands, and
\* the user completes the tasks it was given.
PoolFairness ==
    /\ \A w \in PoolThreads : WF_poolvars(PoolThreadStep(w) /\ UNCHANGED opts)
    /\ WF_poolvars(MainStep /\ UNCHANGED opts)
    /\ \A j \in PoolJobs : WF_poolvars(PSC_AsyncTask_complete(j) /\ UNCHANGED opts)

-----------------------------------------------------------------------------
(* Properties. *)

PoolCommands == {JobDone(j) : j \in PoolJobs} \cup {WorkerDone(w) : w \in PoolThreads}

PoolTypeOK ==
    /\ opts \in Scenarios
    /\ jobQueue \in Seq(PoolJobs) /\ Len(jobQueue) <= opts.sz
    /\ cmds \in Seq(PoolCommands)
    /\ state \in [PoolJobs -> {"new", "refused", "live", "freed"}]
    /\ hasCompleted \in [PoolJobs -> BOOLEAN] /\ pthrno \in [PoolJobs -> PoolThreads \cup {Unset}]
    /\ task \in [PoolJobs -> {"none", "live", "freed"}] /\ jobtimer \in [PoolJobs -> BOOLEAN]
    /\ panicmsg \in [PoolJobs -> BOOLEAN] /\ held \in [PoolJobs -> BOOLEAN]
    /\ complete \in [PoolJobs -> BOOLEAN] /\ fired \in [PoolJobs -> Nat]
    /\ mpc \in [at : {"loop", "load", "kill"}, job : PoolJobs \cup {Unset},
                thr : PoolThreads \cup {Unset}]
    /\ thrpc \in [PoolThreads -> {"top", "wait", "got", "start", "run", "blocked", "ran",
                                  "post", "exited"}]
    /\ currentJob \in [PoolThreads -> PoolJobs \cup {Unset}] /\ stop \in [PoolThreads -> BOOLEAN]
    /\ rthreads \in 0..Cardinality(PoolThreads)
    /\ pool \in {"active", "stopping", "gone", "panic"}

Reachable(j) == \/ \E i \in DOMAIN jobQueue : jobQueue[i] = j
                \/ \E i \in DOMAIN cmds : cmds[i] = JobDone(j)
                \/ \E w \in PoolThreads : currentJob[w] = j

\* Who holds a job or its task finds it alive: a job is destroyed after the
\* last thread let go of it, and a task not before the main thread did.
NoUseAfterFree ==
    \A j \in PoolJobs : /\ state[j] = "freed" => ~Reachable(j)
                        /\ held[j] => task[j] = "live" /\ state[j] = "live"

\* The threads and their queue are freed after the last of them has ended, and
\* one worker at a time has a job.
PoolOutlivesWorkers ==
    /\ pool = "gone" => \A w \in PoolThreads : thrpc[w] = "exited"
    /\ \A v, w \in PoolThreads :
          v # w /\ currentJob[v] # Unset => currentJob[v] # currentJob[w]

\* Who holds a job or its task finds it alive, and threads and queue are freed
\* after the last thread has ended.
PoolMemorySafe == NoUseAfterFree /\ PoolOutlivesWorkers

\* In a pool that is not stopped, an accepted job finishes, "either because it
\* completed or because it was canceled" (threadpool.h): finished is raised,
\* once.  (A job that is to await a task must not be canceled, and must find
\* room in the queue when its task is completed: see the README.)
AcceptedFinishes ==
    \A j \in PoolJobs : state[j] = "live" /\ ~opts.stops ~> fired[j] = 1
-----------------------------------------------------------------------------
(* The inductive invariant *)

\* No thread is signalled in a program in which a job may block its thread
\* in an await (see the README for what happens otherwise).
NoSignalWhileBlocked ==
    \A o \in Scenarios : o.blocking # {} => o.timed = {} /\ o.canceled = {} /\ ~o.stops

Elements(s) == {s[i] : i \in DOMAIN s}
Waiting == Elements(jobQueue)
Scheduled == Elements(cmds)
HasJob(w) == thrpc[w] \in {"start", "run", "blocked", "ran", "post"}

NoRepeats(s) == \A i, k \in DOMAIN s : i # k => s[i] # s[k]

\* A job is in one place at a time; only one that blocks its thread is there
\* and, for its task, with the main thread.
InOnePlace ==
    /\ NoRepeats(jobQueue) /\ NoRepeats(cmds)
    /\ \A v, w \in PoolThreads :
          v # w /\ currentJob[v] # Unset => currentJob[v] # currentJob[w]
    /\ \A j \in PoolJobs :
          /\ j \in Waiting => JobDone(j) \notin Scheduled /\ ~held[j] /\ ~complete[j]
          /\ JobDone(j) \in Scheduled => ~held[j] /\ ~complete[j]
          /\ held[j] => ~complete[j]
          /\ j \in Waiting \/ JobDone(j) \in Scheduled \/ held[j] => state[j] = "live"
          /\ state[j] = "new" => ~complete[j]
          /\ panicmsg[j] => JobDone(j) \in Scheduled \/ state[j] = "freed"

\* What a worker has taken is alive, and with that worker only unless it blocks.
WorkersHold ==
    \A w \in PoolThreads :
        /\ HasJob(w) => currentJob[w] # Unset
        /\ currentJob[w] # Unset =>
              LET j == currentJob[w]
              IN  /\ thrpc[w] = "got" \/ HasJob(w)
                  /\ state[j] = "live" /\ ~panicmsg[j] /\ j \notin Waiting
                  /\ thrpc[w] # "blocked" => JobDone(j) \notin Scheduled /\ ~held[j] /\ ~complete[j]
                  /\ thrpc[w] = "blocked" => task[j] = "live" /\ j \in opts.blocking

\* A task the main thread has is alive, and signals go out only where no job
\* blocks its thread.
TasksHold ==
    /\ \A j \in PoolJobs : /\ held[j] => task[j] = "live"
                           /\ jobtimer[j] => j \in opts.timed
    /\ mpc.at # "loop" => mpc.job \in PoolJobs /\ opts.blocking = {}
    /\ mpc.at = "kill" => mpc.thr \in PoolThreads

\* rthreads counts the threads that run and those that ended and are not joined.
Unjoined == {w \in PoolThreads : thrpc[w] # "exited" \/ WorkerDone(w) \in Scheduled}
ThreadsCounted ==
    /\ rthreads = Cardinality(Unjoined)
    /\ \A w \in PoolThreads : WorkerDone(w) \in Scheduled => thrpc[w] = "exited"
    /\ pool = "gone" => rthreads = 0

PoolInv == PoolTypeOK /\ InOnePlace /\ WorkersHold /\ TasksHold /\ ThreadsCounted
=============================================================================
