------------------------------ MODULE JobQueue ------------------------------
(***************************************************************************)
(* The lock-free job queue of threadpool.c (the build with atomics): every *)
(* atomic operation on the shared queue is a step of its own.              *)
(*                                                                         *)
(* A compare-exchange loop is the one step in which the exchange succeeds: *)
(* its failed rounds only refresh a local variable.  The exchange loop of  *)
(* the dequeue is the step in which it returns a job; while the slot is    *)
(* null the thread spins, which changes nothing.                           *)
(*                                                                         *)
(* order, handed and idx are history: they record which position of the    *)
(* queue each job and each pool thread claimed.                            *)
(***************************************************************************)
EXTENDS Integers, Sequences, FiniteSets

CONSTANTS Jobs,      \* the thread jobs ever offered to the queue
          Threads,   \* the service threads that enqueue jobs
          Workers,   \* the pool threads
          Sz,        \* JobQueue.sz
          NULL       \* the null pointer

ASSUME SzAssumption == Sz \in Nat \ {0}
ASSUME NullAssumption == NULL \notin Jobs
ASSUME FiniteAssumption == IsFiniteSet(Threads) /\ IsFiniteSet(Workers)

VARIABLES avail, enqpos, deqpos, count, jobs,   \* the JobQueue
          tpc,       \* where each service thread is in JobQueue_enqueue
          job,       \* its argument
          tpos,      \* its local enqpos
          wpc,       \* where each pool thread is in worker()
          wpos,      \* its local deqpos
          running,   \* the job it took out of the ring
          finished,  \* jobs a pool thread is done with
          refused,   \* jobs whose enqueue returned -1
          order,     \* history: the jobs in the order they claimed a slot
          handed,    \* history: how many positions pool threads claimed
          idx        \* history: the last position each pool thread claimed

queue == <<avail, enqpos, deqpos, count, jobs>>
enqueuer == <<tpc, job, tpos>>
poolthread == <<wpc, wpos, running>>
history == <<order, handed, idx>>
vars == <<queue, enqueuer, poolthread, finished, refused, history>>

Slots == 0 .. Sz - 1

\* Mutant: the position runs one past the ring before it wraps.
Advance_late(pos) == IF pos = Sz THEN 0 ELSE pos + 1

\* "next = pos + 1; if (next == self->sz) next = 0".
Advance(pos) == IF pos + 1 = Sz THEN 0 ELSE pos + 1

\* A caller gives up a job with the first enqueue, so no job is offered twice.
Offered == {job[t] : t \in Threads} \cup {order[i] : i \in DOMAIN order} \cup refused

JobQueue_create ==
    /\ avail = Sz /\ enqpos = 0 /\ deqpos = 0 /\ count = 0
    /\ jobs = [i \in Slots |-> NULL]

Init ==
    /\ JobQueue_create
    /\ tpc = [t \in Threads |-> "idle"] /\ tpos = [t \in Threads |-> 0]
    /\ job = [t \in Threads |-> NULL]
    /\ wpc = [w \in Workers |-> "wait"] /\ wpos = [w \in Workers |-> 0]
    /\ running = [w \in Workers |-> NULL]
    /\ finished = {} /\ refused = {}
    /\ order = <<>> /\ handed = 0 /\ idx = [w \in Workers |-> 0]

-----------------------------------------------------------------------------
(* JobQueue_enqueue(self, job) *)

\* "if (!avail) return -1".
Enqueue_refuse(t, j) ==
    /\ tpc[t] = "idle" /\ j \notin Offered
    /\ avail = 0
    /\ refused' = refused \cup {j}
    /\ UNCHANGED <<queue, enqueuer, poolthread, finished, history>>

\* The compare-exchange on avail succeeds: a slot is reserved.
Enqueue_reserve(t, j) ==
    /\ tpc[t] = "idle" /\ j \notin Offered
    /\ avail > 0
    /\ avail' = avail - 1
    /\ job' = [job EXCEPT ![t] = j]
    /\ tpc' = [tpc EXCEPT ![t] = "claim"]
    /\ UNCHANGED <<enqpos, deqpos, count, jobs, tpos, poolthread, finished,
                   refused, history>>

\* The compare-exchange on enqpos succeeds: this position is the job's.
Enqueue_claim(t) ==
    /\ tpc[t] = "claim"
    /\ tpos' = [tpos EXCEPT ![t] = enqpos]
    /\ enqpos' = Advance(enqpos)
    /\ order' = Append(order, job[t])
    /\ tpc' = [tpc EXCEPT ![t] = "store"]
    /\ UNCHANGED <<avail, deqpos, count, jobs, job, poolthread, finished,
                   refused, handed, idx>>

\* atomic_store_explicit(self->jobs + enqpos, job, ...).
Enqueue_store(t) ==
    /\ tpc[t] = "store"
    /\ jobs' = [jobs EXCEPT ![tpos[t]] = job[t]]
    /\ tpc' = [tpc EXCEPT ![t] = "post"]
    /\ UNCHANGED <<avail, enqpos, deqpos, count, job, tpos, poolthread,
                   finished, refused, history>>

\* Mutant: the semaphore is posted only when no token is left.
Enqueue_post_once(t) ==
    /\ tpc[t] = "post"
    /\ count' = IF count = 0 THEN 1 ELSE count
    /\ tpc' = [tpc EXCEPT ![t] = "idle"]
    /\ job' = [job EXCEPT ![t] = NULL]
    /\ UNCHANGED <<avail, enqpos, deqpos, jobs, tpos, poolthread, finished,
                   refused, history>>

\* sem_post(&self->count); return 0.
Enqueue_post(t) ==
    /\ tpc[t] = "post"
    /\ count' = count + 1
    /\ tpc' = [tpc EXCEPT ![t] = "idle"]
    /\ job' = [job EXCEPT ![t] = NULL]
    /\ UNCHANGED <<avail, enqpos, deqpos, jobs, tpos, poolthread, finished,
                   refused, history>>

EnqueueStep(t) == Enqueue_claim(t) \/ Enqueue_store(t) \/ Enqueue_post(t)

-----------------------------------------------------------------------------
(* JobQueue_dequeue(self), called from the loop of worker() *)

\* sem_wait(&self->count).
Dequeue_wait(w) ==
    /\ wpc[w] = "wait" /\ count > 0
    /\ count' = count - 1
    /\ wpc' = [wpc EXCEPT ![w] = "claim"]
    /\ UNCHANGED <<avail, enqpos, deqpos, jobs, enqueuer, wpos, running,
                   finished, refused, history>>

\* The compare-exchange on deqpos succeeds.
Dequeue_claim(w) ==
    /\ wpc[w] = "claim"
    /\ wpos' = [wpos EXCEPT ![w] = deqpos]
    /\ deqpos' = Advance(deqpos)
    /\ handed' = handed + 1
    /\ idx' = [idx EXCEPT ![w] = handed + 1]
    /\ wpc' = [wpc EXCEPT ![w] = "take"]
    /\ UNCHANGED <<avail, enqpos, count, jobs, enqueuer, running, finished,
                   refused, order>>

\* Mutant: the slot is read and left in place.
Dequeue_take_noclear(w) ==
    /\ wpc[w] = "take"
    /\ jobs[wpos[w]] # NULL
    /\ running' = [running EXCEPT ![w] = jobs[wpos[w]]]
    /\ wpc' = [wpc EXCEPT ![w] = "free"]
    /\ UNCHANGED <<queue, enqueuer, wpos, finished, refused, history>>

\* The exchange of the slot with null returns a job.
Dequeue_take(w) ==
    /\ wpc[w] = "take"
    /\ jobs[wpos[w]] # NULL
    /\ running' = [running EXCEPT ![w] = jobs[wpos[w]]]
    /\ jobs' = [jobs EXCEPT ![wpos[w]] = NULL]
    /\ wpc' = [wpc EXCEPT ![w] = "free"]
    /\ UNCHANGED <<avail, enqpos, deqpos, count, enqueuer, wpos, finished,
                   refused, history>>

\* atomic_fetch_add_explicit(&self->avail, 1, ...); return job.
Dequeue_free(w) ==
    /\ wpc[w] = "free"
    /\ avail' = avail + 1
    /\ wpc' = [wpc EXCEPT ![w] = "run"]
    /\ UNCHANGED <<enqpos, deqpos, count, jobs, enqueuer, wpos, running,
                   finished, refused, history>>

\* The rest of a round of worker(): run the job and report it done.
Worker_run(w) ==
    /\ wpc[w] = "run"
    /\ finished' = finished \cup {running[w]}
    /\ running' = [running EXCEPT ![w] = NULL]
    /\ wpc' = [wpc EXCEPT ![w] = "wait"]
    /\ UNCHANGED <<queue, enqueuer, wpos, refused, history>>

WorkerStep(w) == \/ Dequeue_wait(w) \/ Dequeue_claim(w) \/ Dequeue_take(w)
                 \/ Dequeue_free(w) \/ Worker_run(w)

Next == \/ \E t \in Threads, j \in Jobs : Enqueue_refuse(t, j) \/ Enqueue_reserve(t, j)
        \/ \E t \in Threads : EnqueueStep(t)
        \/ \E w \in Workers : WorkerStep(w)

Spec == Init /\ [][Next]_vars

\* A thread that can run keeps running; nobody has to offer jobs.
FairSpec == /\ Spec
            /\ \A t \in Threads : WF_vars(EnqueueStep(t))
            /\ \A w \in Workers : WF_vars(WorkerStep(w))

-----------------------------------------------------------------------------
(* Properties. *)

TypeOK ==
    /\ avail \in 0 .. Sz /\ count \in 0 .. Sz
    /\ enqpos \in Slots /\ deqpos \in Slots
    /\ jobs \in [Slots -> Jobs \cup {NULL}]
    /\ tpc \in [Threads -> {"idle", "claim", "store", "post"}]
    /\ job \in [Threads -> Jobs \cup {NULL}]
    /\ tpos \in [Threads -> Slots]
    /\ wpc \in [Workers -> {"wait", "claim", "take", "free", "run"}]
    /\ wpos \in [Workers -> Slots]
    /\ running \in [Workers -> Jobs \cup {NULL}]
    /\ finished \subseteq Jobs /\ refused \subseteq Jobs
    /\ order \in Seq(Jobs) /\ handed \in Nat
    /\ idx \in [Workers -> Nat]

Reserving == {t \in Threads : tpc[t] # "idle"}
Fetching == {w \in Workers : wpc[w] \in {"claim", "take", "free"}}

\* Every slot is free, announced by the semaphore, or owned by exactly one
\* thread inside JobQueue_enqueue or JobQueue_dequeue: the two counters of the
\* queue never leak or invent a slot, whatever the interleaving.
SlotConservation ==
    avail + count + Cardinality(Reserving) + Cardinality(Fetching) = Sz

\* A thread that moves a job holds one.
MoversHoldJobs ==
    /\ \A t \in Threads : tpc[t] # "idle" => job[t] \in Jobs
    /\ \A w \in Workers : wpc[w] \in {"free", "run"} => running[w] \in Jobs

IInv == TypeOK /\ SlotConservation /\ MoversHoldJobs

Accepted == {order[i] : i \in DOMAIN order}
InRing == {jobs[i] : i \in Slots}
Held == {job[t] : t \in Threads} \cup {running[w] : w \in Workers}

\* A job for which PSC_ThreadPool_enqueue returned 0 is in the ring, with a
\* thread that moves it, or done; it never just disappears ("Note this takes
\* ownership of the PSC_ThreadJob object", threadpool.h).
NoJobLost == Accepted \subseteq InRing \cup Held \cup finished

\* A job is taken out of the ring by at most one pool thread, once.
TakenOnce ==
    /\ \A w \in Workers : running[w] # NULL => running[w] \notin finished
    /\ \A v, w \in Workers : v # w /\ running[v] # NULL => running[v] # running[w]

\* Every job has one place: with the thread that enqueues it until it is stored, in
\* one slot, with one pool thread, or finished.  From the claim on it is accepted,
\* so that it is not offered again.
OnItsWay == \A t \in Threads : tpc[t] # "idle" =>
    /\ \A u \in Threads : job[u] = job[t] => u = t
    /\ tpc[t] # "claim" => job[t] \in Accepted
    /\ tpc[t] # "post" => /\ job[t] \notin finished
                         /\ \A i \in Slots : jobs[i] # job[t]
                         /\ \A w \in Workers : running[w] # job[t]
OnceInRing == \A i \in Slots : jobs[i] # NULL =>
    /\ jobs[i] \in Accepted /\ jobs[i] \notin finished
    /\ \A k \in Slots : jobs[k] = jobs[i] => k = i
    /\ \A w \in Workers : running[w] # jobs[i]
TakenAccepted == finished \subseteq Accepted /\ \A w \in Workers : running[w] \in Accepted \cup {NULL}
OneCopy == OnItsWay /\ OnceInRing /\ TakenAccepted /\ TakenOnce

\* The job a pool thread has been handed: the one at the position it claimed,
\* and from the exchange on the one it really got.
HandedTo == [w \in Workers |-> IF wpc[w] = "take" THEN order[idx[w]] ELSE running[w]]

H == INSTANCE JobHandoff WITH
        pending <- SubSeq(order, handed + 1, Len(order)), running <- HandedTo

\* The lock-free queue hands over in claim order, each job to one pool thread.
ImplementsHandoff == H!LooseSpec

\* A job that got a slot is eventually run.
AcceptedEventuallyRuns == \A j \in Jobs : j \in Accepted ~> j \in finished

-----------------------------------------------------------------------------
(* The inductive invariant of the proof that one pool thread w gets the jobs in order *)

\* The i-th job that claimed a position has this slot; the oldest one not taken out.
SlotOf(i) == (i - 1) % Sz
First(w) == IF wpc[w] = "take" THEN handed ELSE handed + 1

\* The positions are those of the history; each claimed one was posted or is still
\* with its thread.
Storing == {t \in Threads : tpc[t] \in {"store", "post"}}
PositionsFit(w) ==
    /\ enqpos = Len(order) % Sz /\ deqpos = handed % Sz
    /\ Len(order) = handed + count + Cardinality(Storing) + (IF wpc[w] = "claim" THEN 1 ELSE 0)
    /\ wpc[w] = "take" => handed # 0 /\ idx[w] = handed /\ wpos[w] = SlotOf(handed)
    /\ wpc[w] \in {"wait", "claim", "take"} => running[w] = NULL

\* Each slot is empty or has the job of a position not taken out yet; a thread about to
\* store has such a position, with its slot still empty.
SlotsFit(w) ==
    /\ \A k \in Slots : jobs[k] # NULL =>
          \E i \in First(w) .. Len(order) : SlotOf(i) = k /\ jobs[k] = order[i]
    /\ \A t \in Threads : tpc[t] = "store" =>
          /\ jobs[tpos[t]] = NULL
          /\ \E i \in First(w) .. Len(order) : SlotOf(i) = tpos[t] /\ job[t] = order[i]

\* What is still to claim a position was not accepted before.
NotYetAccepted == \A t \in Threads : tpc[t] = "claim" => job[t] \notin Accepted \cup refused

InOrder(w) == PositionsFit(w) /\ SlotsFit(w) /\ NotYetAccepted

\* What left its enqueuer, and why NoJobLost is kept: an accepted job is there or with
\* its enqueuer, and a job about to be announced is there already.
TakenOver == InRing \cup {running[w] : w \in Workers} \cup finished
NoneLost == /\ \A j \in Accepted : j \in TakenOver \/
                  \E t \in Threads : tpc[t] \in {"store", "post"} /\ job[t] = j
            /\ \A t \in Threads : tpc[t] = "post" => job[t] \in TakenOver
=============================================================================
