--------------------------- MODULE JobQueueLocked ---------------------------
(***************************************************************************)
(* The job queue of threadpool.c in builds without lock-free atomics       *)
(* (THRP_NO_ATOMICS): a ring of Sz job pointers, the number of free slots, *)
(* an enqueue and a dequeue position, all under one mutex, and a semaphore *)
(* counting the queued jobs.                                               *)
(*                                                                         *)
(* A critical section of the mutex is one step.  A dequeue is two steps:   *)
(* the semaphore wait, which is outside the mutex, and the critical        *)
(* section.  What a pool thread does with its job is Worker_run.           *)
(***************************************************************************)
EXTENDS Integers, Sequences, FiniteSets

CONSTANTS Jobs,      \* the thread jobs ever offered to the queue
          Workers,   \* the pool threads
          Sz,        \* JobQueue.sz
          NULL       \* the null pointer

ASSUME SzAssumption == Sz \in Nat \ {0}
ASSUME NullAssumption == NULL \notin Jobs
ASSUME WorkersAssumption == IsFiniteSet(Workers)

VARIABLES avail,     \* JobQueue.avail: free slots
          enqpos,    \* JobQueue.enqpos
          deqpos,    \* JobQueue.deqpos
          count,     \* JobQueue.count: the semaphore
          jobs,      \* JobQueue.jobs: the ring
          wpc,       \* where each pool thread is in worker()
          running,   \* currentJob of each pool thread
          finished,  \* jobs a pool thread is done with
          refused    \* jobs whose enqueue returned -1

queue == <<avail, enqpos, deqpos, count, jobs>>
vars == <<avail, enqpos, deqpos, count, jobs, wpc, running, finished, refused>>

Slots == 0 .. Sz - 1

\* "if (self->enqpos == self->sz) self->enqpos = 0", the same for deqpos.
Advance(pos) == IF pos + 1 = Sz THEN 0 ELSE pos + 1

\* The slot n places after the start of the ring, for n < 2 * Sz.
SlotAt(n) == IF n >= Sz THEN n - Sz ELSE n

\* The queued jobs, oldest first: the slots from deqpos on that are in use.
Pending == [k \in 1 .. (Sz - avail) |-> jobs[SlotAt(deqpos + k - 1)]]

Offered == {Pending[k] : k \in DOMAIN Pending} \cup
           {running[w] : w \in Workers} \cup finished \cup refused

JobQueue_create ==
    /\ avail = Sz /\ enqpos = 0 /\ deqpos = 0
    /\ count = 0
    /\ jobs = [i \in Slots |-> NULL]

Init == /\ JobQueue_create
        /\ wpc = [w \in Workers |-> "wait"]
        /\ running = [w \in Workers |-> NULL]
        /\ finished = {} /\ refused = {}

\* JobQueue_enqueue, "if (!self->avail) return -1".
JobQueue_enqueue_full(j) ==
    /\ j \notin Offered
    /\ avail = 0
    /\ refused' = refused \cup {j}
    /\ UNCHANGED <<queue, wpc, running, finished>>

\* Mutant: the full check is dropped, the oldest job is overwritten.
JobQueue_enqueue_overwrite(j) ==
    /\ j \notin Offered
    /\ avail' = IF avail = 0 THEN 0 ELSE avail - 1
    /\ jobs' = [jobs EXCEPT ![enqpos] = j]
    /\ enqpos' = Advance(enqpos)
    /\ count' = count + 1
    /\ UNCHANGED <<deqpos, wpc, running, finished, refused>>

\* Mutant: the semaphore is posted only when the queue was empty.
JobQueue_enqueue_postfirst(j) ==
    /\ j \notin Offered
    /\ avail > 0
    /\ avail' = avail - 1
    /\ jobs' = [jobs EXCEPT ![enqpos] = j]
    /\ enqpos' = Advance(enqpos)
    /\ count' = IF avail = Sz THEN count + 1 ELSE count
    /\ UNCHANGED <<deqpos, wpc, running, finished, refused>>

\* JobQueue_enqueue with a free slot.
JobQueue_enqueue(j) ==
    /\ j \notin Offered
    /\ avail > 0
    /\ avail' = avail - 1
    /\ jobs' = [jobs EXCEPT ![enqpos] = j]
    /\ enqpos' = Advance(enqpos)
    /\ count' = count + 1
    /\ UNCHANGED <<deqpos, wpc, running, finished, refused>>

\* sem_wait(&self->count), outside the mutex.  A wait that a signal
\* interrupts changes nothing here: the worker loop waits again.
JobQueue_dequeue_wait(w) ==
    /\ wpc[w] = "wait"
    /\ count > 0
    /\ count' = count - 1
    /\ wpc' = [wpc EXCEPT ![w] = "take"]
    /\ UNCHANGED <<avail, enqpos, deqpos, jobs, running, finished, refused>>

\* The critical section of JobQueue_dequeue.
JobQueue_dequeue(w) ==
    /\ wpc[w] = "take"
    /\ running' = [running EXCEPT ![w] = jobs[deqpos]]
    /\ deqpos' = Advance(deqpos)
    /\ avail' = avail + 1
    /\ wpc' = [wpc EXCEPT ![w] = "run"]
    /\ UNCHANGED <<enqpos, count, jobs, finished, refused>>

\* The rest of a round of worker(): run the job and report it done.
Worker_run(w) ==
    /\ wpc[w] = "run"
    /\ finished' = finished \cup {running[w]}
    /\ running' = [running EXCEPT ![w] = NULL]
    /\ wpc' = [wpc EXCEPT ![w] = "wait"]
    /\ UNCHANGED <<queue, refused>>

Enqueue == \E j \in Jobs : JobQueue_enqueue_full(j) \/ JobQueue_enqueue(j)
WorkerStep(w) ==
    JobQueue_dequeue_wait(w) \/ JobQueue_dequeue(w) \/ Worker_run(w)

Next == Enqueue \/ \E w \in Workers : WorkerStep(w)

Spec == Init /\ [][Next]_vars

\* A pool thread that can run keeps running; nobody has to offer jobs.
FairSpec == Spec /\ \A w \in Workers : WF_vars(WorkerStep(w))

-----------------------------------------------------------------------------
(* Properties. *)

\* The pool threads between the semaphore and the critical section.
Woken == {w \in Workers : wpc[w] = "take"}

TypeOK ==
    /\ avail \in 0 .. Sz
    /\ enqpos \in Slots /\ deqpos \in Slots
    /\ count \in Nat
    /\ jobs \in [Slots -> Jobs \cup {NULL}]
    /\ wpc \in [Workers -> {"wait", "take", "run"}]
    /\ running \in [Workers -> Jobs \cup {NULL}]
    /\ finished \subseteq Jobs /\ refused \subseteq Jobs

\* The positions span exactly the slots in use.
PositionsSpanQueue == enqpos = SlotAt(deqpos + (Sz - avail))

\* Every queued job has one semaphore token or one thread woken for it.
OneTokenPerJob == count + Cardinality(Woken) = Sz - avail

\* The slots in use hold jobs.
QueuedAreJobs == \A k \in 1 .. (Sz - avail) : jobs[SlotAt(deqpos + k - 1)] \in Jobs

\* A thread holds a job exactly while it is running one.
RunningHoldsJob == \A w \in Workers : wpc[w] = "run" <=> running[w] # NULL

\* The ring bookkeeping of JobQueue_enqueue and JobQueue_dequeue is consistent:
\* in particular a thread that got past sem_wait() finds a job in jobs[deqpos].
QueueConsistent ==
    /\ PositionsSpanQueue
    /\ OneTokenPerJob
    /\ QueuedAreJobs
    /\ RunningHoldsJob

IInv == TypeOK /\ QueueConsistent

H == INSTANCE JobHandoff WITH pending <- Pending

\* The mutex build of the job queue is a bounded FIFO hand-off: enqueue fails
\* only on a full queue, and every job taken over goes, in order, to exactly
\* one pool thread.
ImplementsHandoff == H!HSpec

\* A job that PSC_ThreadPool_enqueue accepted is eventually run.
AcceptedEventuallyRuns ==
    \A j \in Jobs : j \in {Pending[k] : k \in DOMAIN Pending} ~> j \in finished
=============================================================================
