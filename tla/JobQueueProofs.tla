--------------------------- MODULE JobQueueProofs ---------------------------
(***************************************************************************)
(* Proofs about the lock-free job queue, for any finite sets of enqueuing  *)
(* and pool threads and any queue size: its two counters are exact, and no *)
(* job is handed out twice; with one pool thread, jobs are handed over in  *)
(* order and none is lost.  And about the thread pool: jobs, tasks and     *)
(* threads live as long as they are used.                                  *)
(***************************************************************************)
EXTENDS JobQueue, ThreadPool, Induction, FiniteSetTheorems, SequenceTheorems, TLAPS

\* Only finitely many threads own a slot.
LEMMA OwnersFinite ==
  /\ IsFiniteSet(Reserving) /\ Cardinality(Reserving) \in Nat
  /\ IsFiniteSet(Fetching) /\ Cardinality(Fetching) \in Nat
<1>1. Reserving \in SUBSET Threads /\ Fetching \in SUBSET Workers
  BY DEF Reserving, Fetching
<1>2. IsFiniteSet(Reserving) /\ IsFiniteSet(Fetching)
  BY <1>1, FiniteAssumption, FS_Subset
<1> QED
  BY <1>2, FS_CardinalityType

\* JobQueue_create establishes the invariant.
LEMMA InitIInv == Init => IInv
<1> SUFFICES ASSUME Init PROVE IInv
  OBVIOUS
<1> USE SzAssumption DEF Init, JobQueue_create
<1>1. TypeOK
  BY DEF TypeOK, Slots
<1>2. Reserving = {} /\ Fetching = {}
  BY DEF Reserving, Fetching
<1>3. SlotConservation
  BY <1>2, FS_EmptySet DEF SlotConservation
<1>4. MoversHoldJobs
  BY DEF MoversHoldJobs
<1> QED
  BY <1>1, <1>3, <1>4 DEF IInv

\* The first step of JobQueue_enqueue preserves the invariant.
LEMMA EnqueueIInv ==
  ASSUME IInv, NEW t \in Threads, NEW j \in Jobs,
         Enqueue_refuse(t, j) \/ Enqueue_reserve(t, j)
  PROVE  IInv'
<1> USE SzAssumption DEF IInv, TypeOK, SlotConservation, MoversHoldJobs, queue,
        enqueuer, poolthread, history
<1>1. CASE Enqueue_refuse(t, j)
  BY <1>1 DEF Enqueue_refuse, Reserving, Fetching
<1>2. CASE Enqueue_reserve(t, j)
  <2> USE <1>2 DEF Enqueue_reserve
  <2>1. t \notin Reserving /\ Reserving' = Reserving \cup {t} /\ Fetching' = Fetching
    BY DEF Reserving, Fetching
  <2>2. Cardinality(Reserving') = Cardinality(Reserving) + 1
    BY <2>1, OwnersFinite, FS_AddElement
  <2>3. SlotConservation'
    BY <2>1, <2>2, OwnersFinite
  <2>4. TypeOK' /\ MoversHoldJobs'
    OBVIOUS
  <2> QED
    BY <2>3, <2>4
<1> QED
  BY <1>1, <1>2

\* The other steps of JobQueue_enqueue preserve the invariant.
LEMMA EnqueueStepIInv ==
  ASSUME IInv, NEW t \in Threads, EnqueueStep(t)
  PROVE  IInv'
<1> USE SzAssumption DEF IInv, TypeOK, SlotConservation, MoversHoldJobs, queue,
        enqueuer, poolthread, history
<1>3. CASE Enqueue_claim(t)
  <2> USE <1>3 DEF Enqueue_claim
  <2>1. Reserving' = Reserving /\ Fetching' = Fetching
    BY DEF Reserving, Fetching
  <2>2. order' \in Seq(Jobs)
    <3>1. job[t] \in Jobs
      OBVIOUS
    <3> QED
      BY <3>1, AppendProperties
  <2>3. Advance(enqpos) \in Slots
    BY DEF Advance, Slots
  <2>4. TypeOK' /\ MoversHoldJobs'
    BY <2>2, <2>3
  <2> QED
    BY <2>1, <2>4
<1>4. CASE Enqueue_store(t)
  <2> USE <1>4 DEF Enqueue_store
  <2>1. Reserving' = Reserving /\ Fetching' = Fetching
    BY DEF Reserving, Fetching
  <2>2. TypeOK' /\ MoversHoldJobs'
    OBVIOUS
  <2> QED
    BY <2>1, <2>2
<1>5. CASE Enqueue_post(t)
  <2> USE <1>5 DEF Enqueue_post
  <2>1. t \in Reserving /\ Reserving' = Reserving \ {t} /\ Fetching' = Fetching
    BY DEF Reserving, Fetching
  <2>2. Cardinality(Reserving') = Cardinality(Reserving) - 1
    BY <2>1, OwnersFinite, FS_RemoveElement
  <2>3. SlotConservation'
    BY <2>1, <2>2, OwnersFinite
  <2>4. avail' \in 0 .. Sz /\ count' \in 0 .. Sz
    <3>1. Cardinality(Reserving') \in Nat
      BY <2>1, <2>2, OwnersFinite, FS_EmptySet
    <3> QED
      BY <2>1, <2>3, <3>1, OwnersFinite
  <2>5. TypeOK' /\ MoversHoldJobs'
    BY <2>4
  <2> QED
    BY <2>3, <2>5
<1> QED
  BY <1>3, <1>4, <1>5 DEF EnqueueStep

\* The steps of JobQueue_dequeue and the run of a job preserve the invariant.
LEMMA WorkerIInv ==
  ASSUME IInv, NEW w \in Workers, WorkerStep(w)
  PROVE  IInv'
<1> USE SzAssumption, NullAssumption DEF IInv, TypeOK, SlotConservation,
        MoversHoldJobs, queue, enqueuer, poolthread, history
<1>1. CASE Dequeue_wait(w)
  <2> USE <1>1 DEF Dequeue_wait
  <2>1. w \notin Fetching /\ Fetching' = Fetching \cup {w} /\ Reserving' = Reserving
    BY DEF Reserving, Fetching
  <2>2. Cardinality(Fetching') = Cardinality(Fetching) + 1
    BY <2>1, OwnersFinite, FS_AddElement
  <2>3. SlotConservation'
    BY <2>1, <2>2, OwnersFinite
  <2>4. TypeOK' /\ MoversHoldJobs'
    OBVIOUS
  <2> QED
    BY <2>3, <2>4
<1>2. CASE Dequeue_claim(w)
  <2> USE <1>2 DEF Dequeue_claim
  <2>1. Reserving' = Reserving /\ Fetching' = Fetching
    BY DEF Reserving, Fetching
  <2>2. Advance(deqpos) \in Slots
    BY DEF Advance, Slots
  <2>3. TypeOK' /\ MoversHoldJobs'
    BY <2>2
  <2> QED
    BY <2>1, <2>3
<1>3. CASE Dequeue_take(w)
  <2> USE <1>3 DEF Dequeue_take
  <2>1. Reserving' = Reserving /\ Fetching' = Fetching
    BY DEF Reserving, Fetching
  <2>2. TypeOK' /\ MoversHoldJobs'
    OBVIOUS
  <2> QED
    BY <2>1, <2>2
<1>4. CASE Dequeue_free(w)
  <2> USE <1>4 DEF Dequeue_free
  <2>1. w \in Fetching /\ Fetching' = Fetching \ {w} /\ Reserving' = Reserving
    BY DEF Reserving, Fetching
  <2>2. Cardinality(Fetching') = Cardinality(Fetching) - 1
    BY <2>1, OwnersFinite, FS_RemoveElement
  <2>3. SlotConservation'
    BY <2>1, <2>2, OwnersFinite
  <2>4. avail' \in 0 .. Sz /\ count' \in 0 .. Sz
    <3>1. Cardinality(Fetching') \in Nat
      BY <2>1, <2>2, OwnersFinite, FS_EmptySet
    <3> QED
      BY <2>1, <2>3, <3>1, OwnersFinite
  <2>5. TypeOK' /\ MoversHoldJobs'
    BY <2>4
  <2> QED
    BY <2>3, <2>5
<1>5. CASE Worker_run(w)
  <2> USE <1>5 DEF Worker_run
  <2>1. Reserving' = Reserving /\ Fetching' = Fetching
    BY DEF Reserving, Fetching
  <2>2. TypeOK' /\ MoversHoldJobs'
    OBVIOUS
  <2> QED
    BY <2>1, <2>2
<1> QED
  BY <1>1, <1>2, <1>3, <1>4, <1>5 DEF WorkerStep

\* Steps that change nothing preserve the invariant.
LEMMA StutterIInv == IInv /\ UNCHANGED vars => IInv'
  BY DEF IInv, TypeOK, SlotConservation, MoversHoldJobs, Reserving, Fetching,
         vars, queue, enqueuer, poolthread, history

\* The inductive invariant holds in every reachable state.
LEMMA Invariance == Spec => []IInv
<1>1. IInv /\ [Next]_vars => IInv'
  <2> SUFFICES ASSUME IInv, [Next]_vars PROVE IInv'
    OBVIOUS
  <2>1. ASSUME NEW t \in Threads, EnqueueStep(t) PROVE IInv'
    BY <2>1, EnqueueStepIInv
  <2> QED
    BY <2>1, EnqueueIInv, WorkerIInv, StutterIInv DEF Next
<1> QED
  BY InitIInv, <1>1, PTL DEF Spec

\* Type correctness, and with it that the counters avail and count and the
\* positions stay within the ring, for every interleaving of any number of
\* enqueuing and pool threads.
THEOREM TypeCorrect == Spec => []TypeOK
<1>1. IInv => TypeOK
  BY DEF IInv
<1> QED
  BY <1>1, Invariance, PTL

\* The semaphore and the count of free slots account for every slot, however
\* the atomic steps of JobQueue_enqueue and JobQueue_dequeue interleave.
THEOREM Conservation == Spec => []SlotConservation
<1>1. IInv => SlotConservation
  BY DEF IInv
<1> QED
  BY <1>1, Invariance, PTL

-----------------------------------------------------------------------------
(* No job is taken out of the ring twice *)

\* Nothing has a place in a new queue.
LEMMA InitOneCopy == Init => OneCopy
  BY DEF Init, JobQueue_create, OneCopy, OnItsWay, OnceInRing, TakenAccepted, TakenOnce

\* A job that is offered has no place yet, so the thread that reserves a slot for it
\* is the only one to have it.
LEMMA EnqueueOneCopy ==
  ASSUME IInv, OneCopy, NEW t \in Threads, NEW j \in Jobs,
         Enqueue_refuse(t, j) \/ Enqueue_reserve(t, j)
  PROVE  OneCopy'
<1> USE DEF IInv, TypeOK, OneCopy, OnItsWay, OnceInRing, TakenAccepted, TakenOnce, Accepted,
            queue, enqueuer, poolthread, history
<1>1. CASE Enqueue_refuse(t, j)
  BY <1>1 DEF Enqueue_refuse
<1>2. CASE Enqueue_reserve(t, j)
  <2>1. /\ j \notin Accepted /\ \A u \in Threads : job[u] # j
        /\ tpc' = [tpc EXCEPT ![t] = "claim"] /\ job' = [job EXCEPT ![t] = j]
        /\ UNCHANGED <<jobs, running, finished, order>>
    BY <1>2 DEF Enqueue_reserve, Offered
  <2>2. /\ j \notin finished /\ (\A i \in Slots : jobs[i] # j)
        /\ \A w \in Workers : running[w] # j
    BY <2>1, NullAssumption
  <2>3. OnItsWay'
    BY <2>1, <2>2
  <2> QED
    BY <2>1, <2>3
<1> QED
  BY <1>1, <1>2

\* The store moves the job from the thread into a slot.
LEMMA EnqueueStepOneCopy ==
  ASSUME IInv, OneCopy, NEW t \in Threads, EnqueueStep(t)
  PROVE  OneCopy'
<1> USE DEF IInv, TypeOK, MoversHoldJobs, OneCopy, OnItsWay, OnceInRing, TakenAccepted, TakenOnce,
            queue, enqueuer, poolthread, history
<1>1. CASE Enqueue_claim(t)
  <2>1. /\ order' = Append(order, job[t]) /\ tpc' = [tpc EXCEPT ![t] = "store"]
        /\ UNCHANGED <<job, jobs, running, finished>> /\ tpc[t] = "claim" /\ job[t] \in Jobs
    BY <1>1 DEF Enqueue_claim
  <2>2. /\ Len(order) \in Nat /\ DOMAIN order = 1 .. Len(order)
        /\ DOMAIN order' = 1 .. Len(order) + 1 /\ order'[Len(order) + 1] = job[t]
        /\ \A i \in DOMAIN order : i \in DOMAIN order' /\ order'[i] = order[i]
    BY <2>1
  <2>3. Accepted \subseteq Accepted' /\ job[t] \in Accepted'
    BY <2>2 DEF Accepted
  <2>4. /\ tpc'[t] = "store" /\ \A u \in Threads : u # t => tpc'[u] = tpc[u]
    BY <2>1
  <2> HIDE DEF Accepted
  <2>5. OnItsWay'
    BY <2>1, <2>3, <2>4
  <2>6. OnceInRing' /\ TakenAccepted' /\ TakenOnce'
    BY <2>1, <2>3
  <2> QED
    BY <2>5, <2>6
<1>2. CASE Enqueue_store(t)
  <2>1. /\ jobs' = [jobs EXCEPT ![tpos[t]] = job[t]] /\ tpc' = [tpc EXCEPT ![t] = "post"]
        /\ UNCHANGED <<job, running, finished, order>> /\ tpc[t] = "store" /\ job[t] \in Jobs
        /\ tpos[t] \in Slots /\ Accepted' = Accepted
    BY <1>2 DEF Enqueue_store, Accepted
  <2>2. OnItsWay'
    BY <2>1
  <2>3. OnceInRing'
    BY <2>1
  <2> QED
    BY <2>1, <2>2, <2>3
<1>3. CASE Enqueue_post(t)
  <2>1. /\ tpc' = [tpc EXCEPT ![t] = "idle"] /\ job' = [job EXCEPT ![t] = NULL]
        /\ UNCHANGED <<jobs, running, finished, order>> /\ Accepted' = Accepted
    BY <1>3 DEF Enqueue_post, Accepted
  <2>2. OnItsWay'
    BY <2>1, NullAssumption
  <2> QED
    BY <2>1, <2>2
<1> QED
  BY <1>1, <1>2, <1>3 DEF EnqueueStep

\* The exchange moves the job from its slot to the pool thread, and its end from
\* there to the finished ones.
LEMMA WorkerOneCopy ==
  ASSUME IInv, OneCopy, NEW w \in Workers, WorkerStep(w)
  PROVE  OneCopy'
<1> USE DEF IInv, TypeOK, MoversHoldJobs, OneCopy, OnItsWay, OnceInRing, TakenAccepted, TakenOnce,
            queue, enqueuer, poolthread, history
<1>1. CASE Dequeue_wait(w) \/ Dequeue_claim(w) \/ Dequeue_free(w)
  BY <1>1 DEF Dequeue_wait, Dequeue_claim, Dequeue_free, Accepted
<1>2. CASE Dequeue_take(w)
  <2>1. /\ running' = [running EXCEPT ![w] = jobs[wpos[w]]]
        /\ jobs' = [jobs EXCEPT ![wpos[w]] = NULL] /\ jobs[wpos[w]] # NULL
        /\ UNCHANGED <<tpc, job, finished, order>> /\ wpos[w] \in Slots /\ Accepted' = Accepted
    BY <1>2 DEF Dequeue_take, Accepted
  <2>2. OnItsWay'
    BY <2>1, NullAssumption
  <2>3. OnceInRing'
    BY <2>1
  <2>4. TakenAccepted' /\ TakenOnce'
    BY <2>1
  <2> QED
    BY <2>2, <2>3, <2>4
<1>3. CASE Worker_run(w)
  <2>1. /\ finished' = finished \cup {running[w]} /\ running' = [running EXCEPT ![w] = NULL]
        /\ UNCHANGED <<tpc, job, jobs, order>> /\ running[w] \in Jobs /\ Accepted' = Accepted
    BY <1>3 DEF Worker_run, Accepted
  <2>2. OnItsWay'
    BY <2>1, NullAssumption
  <2>3. OnceInRing'
    BY <2>1
  <2>4. TakenAccepted' /\ TakenOnce'
    BY <2>1, NullAssumption
  <2> QED
    BY <2>2, <2>3, <2>4
<1> QED
  BY <1>1, <1>2, <1>3 DEF WorkerStep

\* Every job has at most one place in every reachable state.
LEMMA AlwaysOneCopy == Spec => []OneCopy
<1>1. IInv /\ OneCopy /\ [Next]_vars => OneCopy'
  <2> SUFFICES ASSUME IInv, OneCopy, [Next]_vars PROVE OneCopy'
    OBVIOUS
  <2>1. CASE UNCHANGED vars
    BY <2>1 DEF vars, queue, enqueuer, poolthread, history, OneCopy, OnItsWay, OnceInRing,
                TakenAccepted, TakenOnce, Accepted
  <2>2. ASSUME NEW t \in Threads, EnqueueStep(t) PROVE OneCopy'
    BY <2>2, EnqueueStepOneCopy
  <2>3. ASSUME NEW w \in Workers, WorkerStep(w) PROVE OneCopy'
    BY <2>3, WorkerOneCopy
  <2> QED
    BY <2>1, <2>2, <2>3, EnqueueOneCopy DEF Next
<1> QED
  BY <1>1, InitOneCopy, Invariance, PTL DEF Spec

\* threadpool.c, JobQueue_dequeue: a job is taken out of the ring by at most one pool
\* thread, once, for any number of enqueuing and pool threads and any queue size, even
\* where the positions of two enqueuers lap the ring.
THEOREM NoJobTwice == Spec => []TakenOnce
<1>1. OneCopy => TakenOnce
  BY DEF OneCopy
<1> QED
  BY <1>1, AlwaysOneCopy, PTL

-----------------------------------------------------------------------------
(* One pool thread gets the jobs in order *)

\* The next position is the one of the next slot.
LEMMA AdvanceMod ==
  ASSUME NEW x \in Nat
  PROVE  x % Sz \in Slots /\ Advance(x % Sz) = (x + 1) % Sz /\ x % Sz = SlotOf(x + 1)
<1>1. PICK n \in Nat \ {0} : n = Sz
  BY SzAssumption
<1>2. PICK r \in 0 .. n - 1 : r = x % n
  BY ModNear
<1>3. PICK y \in Nat : y = x + 1
  OBVIOUS
<1>4. PICK s \in 0 .. n - 1 : s = y % n
  BY ModNear
<1>5. s = IF r + 1 = n THEN 0 ELSE r + 1
  <2>1. CASE n = 1
    BY <2>1
  <2>2. CASE n # 1
    <3>1. x <= y /\ y - x < n
      BY <1>3, <2>2
    <3>2. NearMod(n, x, y)
      BY <3>1, ModDiff
    <3>3. s - r = y - x \/ s - r = y - x - n
      BY <1>2, <1>4, <3>2, Zenon DEF NearMod
    <3> QED
      BY <1>3, <3>3
  <2> QED
    BY <2>1, <2>2
<1>6. Advance(r) = s
  BY <1>1, <1>5, Zenon DEF Advance
<1>8. x % Sz = SlotOf(x + 1)
  <2>1. y - 1 = x
    BY <1>3
  <2>2. x % Sz = SlotOf(y)
    BY <2>1, Zenon DEF SlotOf
  <2> QED
    BY <1>3, <2>2, Zenon
<1>9. r \in Slots
  BY <1>1, Zenon DEF Slots
<1> QED
  BY <1>1, <1>2, <1>3, <1>4, <1>6, <1>8, <1>9, Zenon

\* Less than Sz positions apart, the slots are different.
LEMMA SlotsApart ==
  ASSUME NEW i \in Nat \ {0}, NEW k \in Nat \ {0}, SlotOf(i) = SlotOf(k),
         i - k < Sz, k - i < Sz
  PROVE  i = k
<1>1. PICK n \in Nat \ {0} : n = Sz
  BY SzAssumption
<1>2. PICK a \in Nat, b \in Nat : a = i - 1 /\ b = k - 1
  OBVIOUS
<1>3. a % n = b % n
  BY <1>1, <1>2, Zenon DEF SlotOf
<1>4. a - b < n /\ b - a < n
  BY <1>1, <1>2
<1>5. a = b
  <2>1. CASE a <= b
    BY <1>3, <1>4, <2>1, ModApart
  <2>2. CASE b <= a
    BY <1>3, <1>4, <2>2, ModApart
  <2> QED
    BY <2>1, <2>2
<1> QED
  BY <1>2, <1>5

\* The threads that have claimed a position are finitely many.
LEMMA StoringFinite ==
  /\ IsFiniteSet(Storing) /\ Cardinality(Storing) \in Nat
  /\ Cardinality(Storing) <= Cardinality(Reserving)
  /\ \A t \in Threads : tpc[t] = "claim" => Cardinality(Storing) + 1 <= Cardinality(Reserving)
<1>1. Storing \subseteq Reserving
  BY DEF Storing, Reserving
<1>2. /\ IsFiniteSet(Storing) /\ Cardinality(Storing) \in Nat
      /\ Cardinality(Storing) <= Cardinality(Reserving)
  BY <1>1, OwnersFinite, FS_Subset, FS_CardinalityType
<1>3. ASSUME NEW t \in Threads, tpc[t] = "claim"
      PROVE  Cardinality(Storing) + 1 <= Cardinality(Reserving)
  <2>1. t \notin Storing /\ Storing \cup {t} \subseteq Reserving
    BY <1>3 DEF Storing, Reserving
  <2>2. Cardinality(Storing \cup {t}) = Cardinality(Storing) + 1
    BY <1>2, <2>1, FS_AddElement
  <2>3. Cardinality(Storing \cup {t}) <= Cardinality(Reserving)
    BY <2>1, OwnersFinite, FS_Subset
  <2> QED
    BY <2>2, <2>3, Zenon
<1> QED
  BY <1>2, <1>3

\* The positions not taken out yet have a slot each, also with one more.
LEMMA RingHolds ==
  ASSUME NEW w, Workers = {w}, IInv, PositionsFit(w)
  PROVE  /\ Len(order) \in Nat /\ handed \in Nat /\ First(w) \in Nat \ {0}
         /\ First(w) <= Len(order) + 1 /\ handed <= Len(order)
         /\ Len(order) - First(w) < Sz
         /\ \A t \in Threads : tpc[t] = "claim" =>
               Len(order) + 1 - First(w) < Sz /\ Len(order) - handed < Sz
<1>1. /\ Len(order) \in Nat /\ handed \in Nat /\ count \in Nat /\ avail \in Nat
      /\ wpc[w] \in {"wait", "claim", "take", "free", "run"} /\ Sz \in Nat
  BY SzAssumption DEF IInv, TypeOK
<1>2. PICK f \in Nat : f = Cardinality(Fetching) /\ (wpc[w] \in {"claim", "take"} => f = 1)
  <2>1. wpc[w] \in {"claim", "take"} => Fetching = {w}
    BY DEF Fetching
  <2>2. Cardinality({w}) = 1
    BY FS_Singleton
  <2> QED
    BY <2>1, <2>2, OwnersFinite
<1>3. PICK s \in Nat : s = Cardinality(Storing)
  BY StoringFinite
<1>4. PICK r \in Nat : /\ r = Cardinality(Reserving) /\ s <= r
                       /\ \A t \in Threads : tpc[t] = "claim" => s + 1 <= r
  BY <1>3, OwnersFinite, StoringFinite
<1>5. avail + count + r + f = Sz
  BY <1>2, <1>4, Zenon DEF IInv, SlotConservation
<1>6. /\ Len(order) = handed + count + s + (IF wpc[w] = "claim" THEN 1 ELSE 0)
      /\ wpc[w] = "take" => handed # 0
  BY <1>3, Zenon DEF PositionsFit
<1>7. First(w) = IF wpc[w] = "take" THEN handed ELSE handed + 1
  BY Zenon DEF First
<1> QED
  BY <1>1, <1>2, <1>4, <1>5, <1>6, <1>7

\* The first step of JobQueue_enqueue claims no position.
LEMMA ReserveInOrder ==
  ASSUME NEW w, Workers = {w}, IInv, OneCopy, InOrder(w), NEW t \in Threads, NEW j \in Jobs,
         Enqueue_refuse(t, j) \/ Enqueue_reserve(t, j)
  PROVE  InOrder(w)'
<1>1. /\ UNCHANGED <<enqpos, deqpos, count, jobs, tpos, wpc, wpos, running, order, handed, idx>>
      /\ tpc[t] = "idle" /\ j \notin Offered
  BY DEF Enqueue_refuse, Enqueue_reserve, queue, enqueuer, poolthread, history
<1>2. /\ \A u \in Threads : u # t => tpc'[u] = tpc[u] /\ job'[u] = job[u]
      /\ \/ tpc'[t] = "idle" /\ refused' = refused \cup {j}
         \/ tpc'[t] = "claim" /\ job'[t] = j /\ refused' = refused
  BY DEF Enqueue_refuse, Enqueue_reserve, queue, enqueuer, poolthread, history, IInv, TypeOK
<1>3. Storing' = Storing
  BY <1>1, <1>2 DEF Storing
<1>4. PositionsFit(w)'
  BY <1>1, <1>3 DEF InOrder, PositionsFit
<1>5. First(w)' = First(w)
  BY <1>1 DEF First
<1>6. SlotsFit(w)'
  <2>1. SlotsFit(w)
    BY DEF InOrder
  <2>2. \A u \in Threads : tpc'[u] = "store" => u # t /\ tpc[u] = "store" /\ job'[u] = job[u]
    BY <1>2
  <2> QED
    BY <1>1, <1>5, <2>1, <2>2 DEF SlotsFit
<1>7. NotYetAccepted'
  <2>1. Accepted' = Accepted
    BY <1>1 DEF Accepted
  <2>2. j \notin Accepted /\ j \notin refused /\ \A u \in Threads : job[u] # j
    BY <1>1 DEF Offered, Accepted
  <2> HIDE DEF Accepted
  <2> QED
    BY <1>2, <2>1, <2>2 DEF InOrder, NotYetAccepted
<1> QED
  BY <1>4, <1>6, <1>7 DEF InOrder

\* A claim takes the next position, whose slot is empty.
LEMMA ClaimInOrder ==
  ASSUME NEW w, Workers = {w}, IInv, OneCopy, InOrder(w), NEW t \in Threads, Enqueue_claim(t)
  PROVE  InOrder(w)'
<1>1. /\ tpc[t] = "claim" /\ tpos' = [tpos EXCEPT ![t] = enqpos] /\ enqpos' = Advance(enqpos)
      /\ order' = Append(order, job[t]) /\ tpc' = [tpc EXCEPT ![t] = "store"]
      /\ UNCHANGED <<deqpos, count, jobs, job, wpc, wpos, running, handed, idx, refused>>
  BY DEF Enqueue_claim, poolthread
<1>2. order \in Seq(Jobs) /\ job[t] \in Jobs /\ count \in Nat
  BY <1>1 DEF IInv, TypeOK, MoversHoldJobs
<1>3. PICK n \in Nat : n = Len(order)
  BY <1>2
<1>4. /\ Len(order') = n + 1 /\ order'[n + 1] = job[t]
      /\ \A i \in 1 .. n : order'[i] = order[i]
  BY <1>1, <1>2, <1>3
<1>5. /\ tpos'[t] = n % Sz /\ tpc'[t] = "store"
      /\ \A u \in Threads : u # t => tpc'[u] = tpc[u] /\ tpos'[u] = tpos[u]
  BY <1>1, <1>3 DEF IInv, TypeOK, InOrder, PositionsFit
<1>6. n % Sz \in Slots /\ Advance(n % Sz) = (n + 1) % Sz /\ n % Sz = SlotOf(n + 1)
  BY AdvanceMod
<1>7. /\ handed \in Nat /\ First(w) \in Nat \ {0} /\ First(w) <= n + 1 /\ n + 1 - First(w) < Sz
  BY <1>1, <1>3, RingHolds DEF InOrder
<1>8. First(w)' = First(w)
  BY <1>1 DEF First
<1>9. PositionsFit(w)'
  <2>1. Storing' = Storing \cup {t} /\ t \notin Storing
    BY <1>1, <1>5 DEF Storing
  <2>2. PICK s \in Nat : s = Cardinality(Storing)
    BY StoringFinite
  <2>3. Cardinality(Storing \cup {t}) = s + 1
    BY <2>1, <2>2, StoringFinite, FS_AddElement
  <2>4. Cardinality(Storing') = s + 1
    BY <2>1, <2>3, Zenon
  <2>5. n = handed + count + s + (IF wpc[w] = "claim" THEN 1 ELSE 0)
    BY <1>3, <2>2, Zenon DEF InOrder, PositionsFit
  <2>6. n + 1 = handed + count + (s + 1) + (IF wpc[w] = "claim" THEN 1 ELSE 0)
    BY <1>2, <1>7, <2>5
  <2>7. Len(order') = handed' + count' + Cardinality(Storing') + (IF wpc'[w] = "claim" THEN 1 ELSE 0)
    BY <1>1, <1>4, <2>4, <2>6
  <2>8. enqpos' = Len(order') % Sz
    BY <1>1, <1>3, <1>4, <1>6, Zenon DEF InOrder, PositionsFit
  <2> QED
    BY <1>1, <2>7, <2>8 DEF InOrder, PositionsFit
<1>10. SlotsFit(w)'
  <2>1. SlotsFit(w)
    BY DEF InOrder
  <2>2. \A i \in First(w) .. n : i \in First(w)' .. Len(order') /\ order'[i] = order[i]
    BY <1>4, <1>7, <1>8
  <2>3. ASSUME NEW k \in Slots, jobs'[k] # NULL
        PROVE  \E i \in First(w)' .. Len(order') : SlotOf(i) = k /\ jobs'[k] = order'[i]
    <3>1. PICK i \in First(w) .. n : SlotOf(i) = k /\ jobs[k] = order[i]
      BY <1>1, <1>3, <2>1, <2>3 DEF SlotsFit
    <3> QED
      BY <1>1, <2>2, <3>1
  <2>4. jobs[n % Sz] = NULL
    <3>1. ASSUME jobs[n % Sz] # NULL PROVE FALSE
      <4>1. PICK i \in First(w) .. n : SlotOf(i) = n % Sz
        BY <1>3, <1>6, <2>1, <3>1 DEF SlotsFit
      <4>2. /\ i \in Nat \ {0} /\ n + 1 \in Nat \ {0} /\ SlotOf(i) = SlotOf(n + 1)
            /\ i - (n + 1) < Sz /\ (n + 1) - i < Sz
        BY <1>6, <1>7, <4>1, SzAssumption
      <4>3. i = n + 1
        BY <4>2, SlotsApart
      <4> QED
        BY <1>7, <4>3
    <3> QED
      BY <3>1
  <2>5. ASSUME NEW u \in Threads, tpc'[u] = "store"
        PROVE  /\ jobs'[tpos'[u]] = NULL
               /\ \E i \in First(w)' .. Len(order') : SlotOf(i) = tpos'[u] /\ job'[u] = order'[i]
    <3>1. CASE u = t
      <4>1. n + 1 \in First(w)' .. Len(order')
        BY <1>4, <1>7, <1>8
      <4>2. jobs'[tpos'[u]] = NULL /\ SlotOf(n + 1) = tpos'[u] /\ job'[u] = order'[n + 1]
        BY <1>1, <1>4, <1>5, <1>6, <2>4, <3>1
      <4> QED
        BY <4>1, <4>2
    <3>2. CASE u # t
      <4>1. tpc[u] = "store" /\ tpos'[u] = tpos[u]
        BY <1>5, <2>5, <3>2
      <4>2. jobs[tpos[u]] = NULL
        BY <2>1, <4>1 DEF SlotsFit
      <4>3. PICK i \in First(w) .. n : SlotOf(i) = tpos[u] /\ job[u] = order[i]
        BY <1>3, <2>1, <4>1 DEF SlotsFit
      <4> QED
        BY <1>1, <2>2, <4>1, <4>2, <4>3
    <3> QED
      BY <3>1, <3>2
  <2> QED
    BY <2>3, <2>5 DEF SlotsFit
<1>11. NotYetAccepted'
  <2>1. Accepted' \subseteq Accepted \cup {job[t]}
    BY <1>2, <1>3, <1>4, <1>1 DEF Accepted
  <2>2. \A u \in Threads : tpc'[u] = "claim" => u # t /\ tpc[u] = "claim" /\ job[u] # job[t]
    BY <1>1, <1>5 DEF OneCopy, OnItsWay
  <2>3. \A u \in Threads : tpc[u] = "claim" => job[u] \notin Accepted \cup refused
    BY DEF InOrder, NotYetAccepted
  <2> HIDE DEF Accepted
  <2> QED
    BY <1>1, <2>1, <2>2, <2>3 DEF NotYetAccepted
<1> QED
  BY <1>9, <1>10, <1>11 DEF InOrder

\* The store fills the slot of the thread's position.
LEMMA StoreInOrder ==
  ASSUME NEW w, Workers = {w}, IInv, OneCopy, InOrder(w), NEW t \in Threads, Enqueue_store(t)
  PROVE  InOrder(w)'
<1>1. /\ tpc[t] = "store" /\ jobs' = [jobs EXCEPT ![tpos[t]] = job[t]]
      /\ tpc' = [tpc EXCEPT ![t] = "post"]
      /\ UNCHANGED <<enqpos, deqpos, count, job, tpos, wpc, wpos, running, handed, idx, order, refused>>
  BY DEF Enqueue_store, poolthread, history
<1>2. /\ tpc'[t] = "post" /\ \A u \in Threads : u # t => tpc'[u] = tpc[u]
      /\ tpos[t] \in Slots /\ jobs'[tpos[t]] = job[t]
      /\ \A k \in Slots : k # tpos[t] => jobs'[k] = jobs[k]
      /\ \A u \in Threads : tpos[u] \in Slots
  BY <1>1 DEF IInv, TypeOK
<1>3. Storing' = Storing
  BY <1>1, <1>2 DEF Storing
<1>4. PositionsFit(w)'
  BY <1>1, <1>3 DEF InOrder, PositionsFit
<1>5. First(w)' = First(w)
  BY <1>1 DEF First
<1>6. SlotsFit(w)
  BY DEF InOrder
<1>7. PICK i \in First(w) .. Len(order) : SlotOf(i) = tpos[t] /\ job[t] = order[i]
  BY <1>1, <1>6 DEF SlotsFit
<1>8. \A k \in Slots : jobs'[k] # NULL =>
         \E x \in First(w) .. Len(order) : SlotOf(x) = k /\ jobs'[k] = order[x]
  BY <1>2, <1>6, <1>7 DEF SlotsFit
<1>9. ASSUME NEW u \in Threads, tpc'[u] = "store"
      PROVE  /\ jobs'[tpos[u]] = NULL
             /\ \E x \in First(w) .. Len(order) : SlotOf(x) = tpos[u] /\ job[u] = order[x]
  <2>1. u # t /\ tpc[u] = "store"
    BY <1>2, <1>9
  <2>2. PICK x \in First(w) .. Len(order) : SlotOf(x) = tpos[u] /\ job[u] = order[x]
    BY <1>6, <2>1 DEF SlotsFit
  <2>3. ASSUME tpos[u] = tpos[t] PROVE FALSE
    <3>1. /\ Len(order) \in Nat /\ First(w) \in Nat \ {0} /\ Len(order) - First(w) < Sz
      BY RingHolds DEF InOrder
    <3>2. i \in Nat \ {0} /\ x \in Nat \ {0} /\ i - x < Sz /\ x - i < Sz
      BY <3>1, SzAssumption
    <3>3. SlotOf(i) = SlotOf(x)
      BY <1>7, <2>2, <2>3, Zenon
    <3>4. i = x
      BY <3>2, <3>3, SlotsApart
    <3>5. job[u] = job[t]
      BY <1>7, <2>2, <3>4, Zenon
    <3> QED
      BY <1>1, <2>1, <3>5 DEF OneCopy, OnItsWay
  <2>4. jobs[tpos[u]] = NULL
    BY <1>6, <2>1 DEF SlotsFit
  <2> QED
    BY <1>2, <2>2, <2>3, <2>4
<1>10. SlotsFit(w)'
  BY <1>1, <1>5, <1>8, <1>9 DEF SlotsFit
<1>11. NotYetAccepted'
  <2>1. Accepted' = Accepted
    BY <1>1 DEF Accepted
  <2> HIDE DEF Accepted
  <2> QED
    BY <1>1, <1>2, <2>1 DEF InOrder, NotYetAccepted
<1> QED
  BY <1>4, <1>10, <1>11 DEF InOrder

\* The post turns the thread's position into a token.
LEMMA PostInOrder ==
  ASSUME NEW w, Workers = {w}, IInv, OneCopy, InOrder(w), NEW t \in Threads, Enqueue_post(t)
  PROVE  InOrder(w)'
<1>1. /\ tpc[t] = "post" /\ count' = count + 1
      /\ tpc' = [tpc EXCEPT ![t] = "idle"] /\ job' = [job EXCEPT ![t] = NULL]
      /\ UNCHANGED <<enqpos, deqpos, jobs, tpos, wpc, wpos, running, handed, idx, order, refused>>
  BY DEF Enqueue_post, poolthread, history
<1>2. /\ tpc'[t] = "idle" /\ \A u \in Threads : u # t => tpc'[u] = tpc[u] /\ job'[u] = job[u]
  BY <1>1 DEF IInv, TypeOK
<1>3. PositionsFit(w)'
  <2>1. Storing' = Storing \ {t} /\ t \in Storing
    BY <1>1, <1>2 DEF Storing
  <2>2. PICK s \in Nat : s = Cardinality(Storing)
    BY StoringFinite
  <2>3. Cardinality(Storing \ {t}) = s - 1
    BY <2>1, <2>2, StoringFinite, FS_RemoveElement
  <2>4. Cardinality(Storing') = s - 1
    BY <2>1, <2>3, Zenon
  <2>5. Len(order) = handed + count + s + (IF wpc[w] = "claim" THEN 1 ELSE 0)
    BY <2>2, Zenon DEF InOrder, PositionsFit
  <2>6. count \in Nat /\ handed \in Nat
    BY DEF IInv, TypeOK
  <2>7. Len(order) = handed + (count + 1) + (s - 1) + (IF wpc[w] = "claim" THEN 1 ELSE 0)
    BY <2>5, <2>6
  <2>8. Len(order') = handed' + count' + Cardinality(Storing') + (IF wpc'[w] = "claim" THEN 1 ELSE 0)
    BY <1>1, <2>4, <2>7
  <2> QED
    BY <1>1, <2>8 DEF InOrder, PositionsFit
<1>4. First(w)' = First(w)
  BY <1>1 DEF First
<1>5. SlotsFit(w)'
  <2>1. \A u \in Threads : tpc'[u] = "store" => u # t /\ tpc[u] = "store" /\ job'[u] = job[u]
    BY <1>2
  <2> QED
    BY <1>1, <1>4, <2>1 DEF InOrder, SlotsFit
<1>6. NotYetAccepted'
  <2>1. Accepted' = Accepted
    BY <1>1 DEF Accepted
  <2> HIDE DEF Accepted
  <2> QED
    BY <1>1, <1>2, <2>1 DEF InOrder, NotYetAccepted
<1> QED
  BY <1>3, <1>5, <1>6 DEF InOrder

\* The steps of the pool thread that leave the ring alone.
LEMMA WaitInOrder ==
  ASSUME NEW w, Workers = {w}, IInv, OneCopy, InOrder(w),
         Dequeue_wait(w) \/ Dequeue_free(w) \/ Worker_run(w)
  PROVE  InOrder(w)'
<1>1. /\ UNCHANGED <<enqpos, deqpos, jobs, tpc, job, tpos, wpos, handed, idx, order, refused>>
      /\ wpc[w] \in {"wait", "free", "run"}
  BY DEF Dequeue_wait, Dequeue_free, Worker_run, queue, enqueuer, history
<1>2. \/ wpc[w] = "wait" /\ wpc'[w] = "claim" /\ count' = count - 1 /\ running' = running
      \/ wpc[w] = "free" /\ wpc'[w] = "run" /\ count' = count
      \/ wpc[w] = "run" /\ wpc'[w] = "wait" /\ count' = count /\ running'[w] = NULL
  BY DEF Dequeue_wait, Dequeue_free, Worker_run, queue, enqueuer, history, IInv, TypeOK
<1>3. Storing' = Storing
  BY <1>1 DEF Storing
<1>4. PositionsFit(w)'
  <2>1. PICK s \in Nat : s = Cardinality(Storing)
    BY StoringFinite
  <2>2. Len(order) = handed + count + s + (IF wpc[w] = "claim" THEN 1 ELSE 0)
    BY <2>1, Zenon DEF InOrder, PositionsFit
  <2>3. count \in Nat /\ handed \in Nat
    BY DEF IInv, TypeOK
  <2>4. Len(order) = handed + count' + s + (IF wpc'[w] = "claim" THEN 1 ELSE 0)
    BY <1>2, <2>2, <2>3
  <2>5. Len(order') = handed' + count' + Cardinality(Storing') + (IF wpc'[w] = "claim" THEN 1 ELSE 0)
    BY <1>1, <1>3, <2>1, <2>4
  <2>6. wpc'[w] \in {"wait", "claim", "take"} => running'[w] = NULL
    BY <1>2 DEF InOrder, PositionsFit
  <2> QED
    BY <1>1, <1>2, <2>5, <2>6 DEF InOrder, PositionsFit
<1>5. First(w)' = First(w)
  BY <1>1, <1>2 DEF First
<1>6. SlotsFit(w)' /\ NotYetAccepted'
  BY <1>1, <1>5 DEF InOrder, SlotsFit, NotYetAccepted, Accepted
<1> QED
  BY <1>4, <1>6 DEF InOrder

\* The pool thread claims the oldest position, whose slot may still be empty.
LEMMA HandInOrder ==
  ASSUME NEW w, Workers = {w}, IInv, OneCopy, InOrder(w), Dequeue_claim(w)
  PROVE  InOrder(w)'
<1>1. /\ wpc[w] = "claim" /\ wpos' = [wpos EXCEPT ![w] = deqpos] /\ deqpos' = Advance(deqpos)
      /\ handed' = handed + 1 /\ idx' = [idx EXCEPT ![w] = handed + 1]
      /\ wpc' = [wpc EXCEPT ![w] = "take"]
      /\ UNCHANGED <<enqpos, count, jobs, tpc, job, tpos, running, order, refused>>
  BY DEF Dequeue_claim, enqueuer
<1>2. /\ wpos'[w] = deqpos /\ idx'[w] = handed + 1 /\ wpc'[w] = "take"
      /\ count \in Nat /\ handed \in Nat
  BY <1>1 DEF IInv, TypeOK
<1>3. deqpos = handed % Sz /\ running[w] = NULL
  BY <1>1 DEF InOrder, PositionsFit
<1>4. Advance(handed % Sz) = (handed + 1) % Sz /\ handed % Sz = SlotOf(handed + 1)
  BY <1>2, AdvanceMod
<1>5. Storing' = Storing
  BY <1>1 DEF Storing
<1>6. PositionsFit(w)'
  <2>1. PICK s \in Nat : s = Cardinality(Storing)
    BY StoringFinite
  <2>2. Len(order) = handed + count + s + (IF wpc[w] = "claim" THEN 1 ELSE 0)
    BY <2>1, Zenon DEF InOrder, PositionsFit
  <2>3. Len(order) = (handed + 1) + count + s + 0
    BY <1>1, <1>2, <2>2
  <2>4. Len(order') = handed' + count' + Cardinality(Storing') + (IF wpc'[w] = "claim" THEN 1 ELSE 0)
    BY <1>1, <1>2, <1>5, <2>1, <2>3
  <2>5. handed' # 0 /\ idx'[w] = handed' /\ wpos'[w] = SlotOf(handed') /\ deqpos' = handed' % Sz
    BY <1>1, <1>2, <1>3, <1>4
  <2> QED
    BY <1>1, <1>3, <2>4, <2>5 DEF InOrder, PositionsFit
<1>7. First(w)' = First(w)
  BY <1>1, <1>2 DEF First
<1>8. SlotsFit(w)' /\ NotYetAccepted'
  BY <1>1, <1>7 DEF InOrder, SlotsFit, NotYetAccepted, Accepted
<1> QED
  BY <1>6, <1>8 DEF InOrder

\* What the exchange returns is the job of the position claimed.
LEMMA TakesItsJob ==
  ASSUME NEW w, Workers = {w}, IInv, InOrder(w), Dequeue_take(w)
  PROVE  handed \in 1 .. Len(order) /\ jobs[wpos[w]] = order[handed] /\ idx[w] = handed
<1>1. wpc[w] = "take" /\ jobs[wpos[w]] # NULL /\ wpos[w] \in Slots
  BY DEF Dequeue_take, IInv, TypeOK
<1>2. idx[w] = handed /\ wpos[w] = SlotOf(handed) /\ First(w) = handed /\ handed # 0
  BY <1>1 DEF InOrder, PositionsFit, First
<1>3. PICK i \in handed .. Len(order) : SlotOf(i) = wpos[w] /\ jobs[wpos[w]] = order[i]
  BY <1>1, <1>2 DEF InOrder, SlotsFit
<1>4. Len(order) \in Nat /\ handed \in Nat \ {0} /\ Len(order) - handed < Sz /\ handed <= Len(order)
  BY <1>2, RingHolds DEF InOrder
<1>5. i \in Nat \ {0} /\ i - handed < Sz /\ handed - i < Sz
  BY <1>4, SzAssumption
<1>6. SlotOf(i) = SlotOf(handed)
  BY <1>2, <1>3, Zenon
<1>7. i = handed
  BY <1>4, <1>5, <1>6, SlotsApart
<1> QED
  BY <1>2, <1>3, <1>4, <1>7

\* The exchange empties the slot of the oldest position.
LEMMA TakeInOrder ==
  ASSUME NEW w, Workers = {w}, IInv, OneCopy, InOrder(w), Dequeue_take(w)
  PROVE  InOrder(w)'
<1>1. /\ wpc[w] = "take" /\ jobs[wpos[w]] # NULL /\ jobs' = [jobs EXCEPT ![wpos[w]] = NULL]
      /\ wpc' = [wpc EXCEPT ![w] = "free"]
      /\ UNCHANGED <<enqpos, deqpos, count, tpc, job, tpos, wpos, handed, idx, order, refused>>
  BY DEF Dequeue_take, enqueuer, history
<1>2. /\ wpc'[w] = "free" /\ wpos[w] \in Slots /\ jobs'[wpos[w]] = NULL
      /\ \A k \in Slots : k # wpos[w] => jobs'[k] = jobs[k]
      /\ \A t \in Threads : tpos[t] \in Slots
  BY <1>1 DEF IInv, TypeOK
<1>3. Storing' = Storing
  BY <1>1 DEF Storing
<1>4. PositionsFit(w)'
  BY <1>1, <1>2, <1>3 DEF InOrder, PositionsFit
<1>5. /\ First(w) = handed /\ First(w)' = handed + 1 /\ wpos[w] = SlotOf(handed)
      /\ handed \in Nat /\ Len(order) \in Nat
  BY <1>1, <1>2 DEF First, InOrder, PositionsFit, IInv, TypeOK
<1>6. \A i \in First(w) .. Len(order) : SlotOf(i) # wpos[w] => i \in First(w)' .. Len(order')
  <2>1. \A i \in handed .. Len(order) : i # handed => i \in handed + 1 .. Len(order)
    BY <1>5
  <2> QED
    BY <1>1, <1>5, <2>1
<1>7. SlotsFit(w)
  BY DEF InOrder
<1>8. ASSUME NEW k \in Slots, jobs'[k] # NULL
      PROVE  \E i \in First(w)' .. Len(order') : SlotOf(i) = k /\ jobs'[k] = order'[i]
  <2>1. k # wpos[w] /\ jobs'[k] = jobs[k]
    BY <1>2, <1>8
  <2>2. PICK i \in First(w) .. Len(order) : SlotOf(i) = k /\ jobs[k] = order[i]
    BY <1>7, <1>8, <2>1 DEF SlotsFit
  <2> QED
    BY <1>1, <1>6, <2>1, <2>2
<1>9. ASSUME NEW t \in Threads, tpc'[t] = "store"
      PROVE  /\ jobs'[tpos'[t]] = NULL
             /\ \E i \in First(w)' .. Len(order') : SlotOf(i) = tpos'[t] /\ job'[t] = order'[i]
  <2>1. jobs[tpos[t]] = NULL
    BY <1>1, <1>7, <1>9 DEF SlotsFit
  <2>2. PICK i \in First(w) .. Len(order) : SlotOf(i) = tpos[t] /\ job[t] = order[i]
    BY <1>1, <1>7, <1>9 DEF SlotsFit
  <2>3. tpos[t] # wpos[w]
    BY <1>1, <2>1
  <2> QED
    BY <1>1, <1>2, <1>6, <2>1, <2>2, <2>3
<1>10. SlotsFit(w)'
  BY <1>8, <1>9 DEF SlotsFit
<1>11. NotYetAccepted'
  BY <1>1 DEF InOrder, NotYetAccepted, Accepted
<1> QED
  BY <1>4, <1>10, <1>11 DEF InOrder

\* A new queue has claimed nothing.
LEMMA InitInOrder ==
  ASSUME NEW w, Workers = {w}, Init
  PROVE  InOrder(w)
<1>1. /\ order = <<>> /\ handed = 0 /\ count = 0 /\ enqpos = 0 /\ deqpos = 0 /\ wpc[w] = "wait"
      /\ running[w] = NULL /\ jobs = [i \in Slots |-> NULL] /\ \A t \in Threads : tpc[t] = "idle"
  BY DEF Init, JobQueue_create
<1>2. Storing = {}
  BY <1>1 DEF Storing
<1>3. 0 % Sz = 0 /\ Len(order) = 0
  BY <1>1, SzAssumption, ModSmall
<1>4. PositionsFit(w)
  BY <1>1, <1>2, <1>3, FS_EmptySet DEF PositionsFit
<1>5. SlotsFit(w) /\ NotYetAccepted
  BY <1>1 DEF SlotsFit, NotYetAccepted
<1> QED
  BY <1>4, <1>5 DEF InOrder

\* The invariant of the order holds in every reachable state.
LEMMA AlwaysInOrder ==
  ASSUME NEW w, Workers = {w}
  PROVE  Spec => [](IInv /\ OneCopy /\ InOrder(w))
<1>1. ASSUME IInv, OneCopy, InOrder(w), [Next]_vars PROVE InOrder(w)'
  <2>1. CASE UNCHANGED vars
    <3>1. UNCHANGED <<enqpos, deqpos, count, jobs, tpc, job, tpos, wpc, wpos, running, refused,
                      order, handed, idx>>
      BY <2>1 DEF vars, queue, enqueuer, poolthread, history
    <3> QED
      BY <1>1, <3>1 DEF InOrder, PositionsFit, SlotsFit, NotYetAccepted, Accepted, First, Storing
  <2>2. ASSUME NEW t \in Threads, EnqueueStep(t) PROVE InOrder(w)'
    BY <1>1, <2>2, ClaimInOrder, StoreInOrder, PostInOrder DEF EnqueueStep
  <2>3. ASSUME WorkerStep(w) PROVE InOrder(w)'
    BY <1>1, <2>3, WaitInOrder, HandInOrder, TakeInOrder DEF WorkerStep
  <2> QED
    BY <1>1, <2>1, <2>2, <2>3, ReserveInOrder DEF Next
<1>2. IInv /\ OneCopy /\ InOrder(w) /\ [Next]_vars => InOrder(w)'
  BY <1>1
<1>3. Init => InOrder(w)
  BY InitInOrder
<1> QED
  BY <1>2, <1>3, Invariance, AlwaysOneCopy, PTL DEF Spec

\* What is behind the first h elements of a sequence, and what that is element by element.
Behind(s, h) == SubSeq(s, h + 1, Len(s))
IsBehind(b, S, s, h) == /\ b \in Seq(S) /\ Len(b) = Len(s) - h
                        /\ \A i \in 1 .. Len(s) - h : h + i \in 1 .. Len(s) /\ b[i] = s[h + i]

\* Its elements.
LEMMA BehindIs ==
  ASSUME NEW S, NEW s \in Seq(S), NEW h \in 0 .. Len(s)
  PROVE  IsBehind(Behind(s, h), S, s, h)
<1>1. PICK n \in Nat : n = Len(s)
  OBVIOUS
<1>2. h \in 0 .. n /\ h + 1 \in 1 .. n + 1
  BY <1>1
<1>3. \A k \in (h + 1) .. n : s[k] \in S
  BY <1>1, <1>2
<1>4. Behind(s, h) = [i \in 1 .. n - h |-> s[h + i]]
  <2>1. Behind(s, h) = [i \in 1 .. n - (h + 1) + 1 |-> s[i + (h + 1) - 1]]
    BY <1>1, <1>2 DEF Behind
  <2> QED
    BY <1>2, <2>1
<1>5. \A i \in 1 .. n - h : h + i \in (h + 1) .. n /\ h + i \in 1 .. n
  BY <1>2
<1> QED
  BY <1>1, <1>2, <1>3, <1>4, <1>5 DEF IsBehind

\* One element more, at the end.
LEMMA BehindAppend ==
  ASSUME NEW S, NEW s \in Seq(S), NEW h \in 0 .. Len(s), NEW x \in S
  PROVE  Behind(Append(s, x), h) = Append(Behind(s, h), x)
<1>1. PICK n \in Nat : n = Len(s)
  OBVIOUS
<1>2. PICK q : q = Append(s, x)
  OBVIOUS
<1>3. q \in Seq(S) /\ Len(q) = n + 1 /\ q[n + 1] = x /\ \A i \in 1 .. n : q[i] = s[i]
  BY <1>1, <1>2
<1>4. h \in 0 .. n /\ h \in 0 .. Len(q)
  BY <1>1, <1>3
<1>5. PICK b : b = Behind(s, h)
  OBVIOUS
<1>6. b \in Seq(S) /\ Len(b) = n - h /\ \A i \in 1 .. n - h : b[i] = s[h + i]
  <2>1. IsBehind(b, S, s, h)
    BY <1>5, BehindIs
  <2> QED
    BY <1>1, <2>1 DEF IsBehind
<1>7. PICK d : d = Behind(q, h)
  OBVIOUS
<1>8. d \in Seq(S) /\ Len(d) = n + 1 - h /\ \A i \in 1 .. n + 1 - h : d[i] = q[h + i]
  <2>1. IsBehind(d, S, q, h)
    BY <1>3, <1>4, <1>7, BehindIs
  <2> QED
    BY <1>3, <2>1 DEF IsBehind
<1>9. d = Append(b, x)
  <2>1. PICK e : e = Append(b, x)
    OBVIOUS
  <2>2. e \in Seq(S) /\ Len(e) = n - h + 1 /\ e[n - h + 1] = x /\ \A i \in 1 .. n - h : e[i] = b[i]
    BY <1>4, <1>6, <2>1
  <2>3. ASSUME NEW i \in 1 .. n + 1 - h PROVE d[i] = e[i]
    <3>1. CASE i = n + 1 - h
      BY <1>3, <1>4, <1>8, <2>2, <3>1
    <3>2. CASE i # n + 1 - h
      <4>1. i \in 1 .. n - h /\ h + i \in 1 .. n
        BY <1>4, <3>2
      <4> QED
        BY <1>3, <1>6, <1>8, <2>2, <4>1
    <3> QED
      BY <3>1, <3>2
  <2>4. Len(d) = Len(e) /\ \A i \in 1 .. Len(d) : d[i] = e[i]
    BY <1>4, <1>8, <2>2, <2>3
  <2>5. d = e
    BY <1>8, <2>2, <2>4, SeqEqual
  <2> QED
    BY <2>1, <2>5, Zenon
<1> QED
  BY <1>2, <1>5, <1>7, <1>9, Zenon

\* One element less, at the front.
LEMMA BehindTail ==
  ASSUME NEW S, NEW s \in Seq(S), NEW h \in Nat, h < Len(s)
  PROVE  /\ Behind(s, h) # <<>> /\ Head(Behind(s, h)) = s[h + 1]
         /\ Behind(s, h + 1) = Tail(Behind(s, h))
<1>1. PICK n \in Nat : n = Len(s)
  OBVIOUS
<1>2. PICK g \in Nat : g = h + 1
  OBVIOUS
<1>3. h \in 0 .. Len(s) /\ g \in 0 .. Len(s) /\ n - h \in Nat \ {0}
  BY <1>1, <1>2
<1>4. PICK b : b = Behind(s, h)
  OBVIOUS
<1>5. b \in Seq(S) /\ Len(b) = n - h /\ \A i \in 1 .. n - h : b[i] = s[h + i]
  <2>1. IsBehind(b, S, s, h)
    BY <1>3, <1>4, BehindIs
  <2> QED
    BY <1>1, <2>1 DEF IsBehind
<1>6. PICK d : d = Behind(s, g)
  OBVIOUS
<1>7. d \in Seq(S) /\ Len(d) = n - g /\ \A i \in 1 .. n - g : d[i] = s[g + i]
  <2>1. IsBehind(d, S, s, g)
    BY <1>3, <1>6, BehindIs
  <2> QED
    BY <1>1, <2>1 DEF IsBehind
<1>8. b # <<>> /\ Head(b) = s[h + 1]
  BY <1>3, <1>5
<1>9. d = Tail(b)
  <2>1. PICK e : e = Tail(b)
    OBVIOUS
  <2>2. e \in Seq(S) /\ Len(e) = n - h - 1 /\ \A i \in 1 .. n - h - 1 : e[i] = b[i + 1]
    BY <1>3, <1>5, <1>8, <2>1
  <2>3. ASSUME NEW i \in 1 .. n - g PROVE d[i] = e[i]
    <3>1. i \in 1 .. n - h - 1 /\ i + 1 \in 1 .. n - h /\ g + i = h + (i + 1)
      BY <1>2
    <3> QED
      BY <1>5, <1>7, <2>2, <3>1
  <2>4. Len(d) = Len(e)
    BY <1>1, <1>2, <1>7, <2>2
  <2>5. \A i \in 1 .. Len(d) : d[i] = e[i]
    BY <1>7, <2>3
  <2>6. d = e
    BY <1>7, <2>2, <2>4, <2>5, SeqEqual
  <2> QED
    BY <2>1, <2>6, Zenon
<1> QED
  BY <1>2, <1>4, <1>6, <1>8, <1>9, Zenon

-----------------------------------------------------------------------------
(* Refinement: what claimed a position and was not handed over is pending *)

\* What the hand-off knows of was accepted or refused.
LEMMA KnownOnes ==
  ASSUME NEW w, Workers = {w}, IInv, OneCopy, InOrder(w)
  PROVE  H!Known \subseteq Accepted \cup refused \cup {NULL}
<1>1. order \in Seq(Jobs) /\ handed \in 0 .. Len(order)
  <2>1. PositionsFit(w)
    BY DEF InOrder
  <2> QED
    BY <2>1, RingHolds DEF IInv, TypeOK
<1>2. PICK b : b = Behind(order, handed)
  OBVIOUS
<1>3. ASSUME NEW i \in DOMAIN b PROVE b[i] \in Accepted
  <2>1. IsBehind(b, Jobs, order, handed)
    BY <1>1, <1>2, BehindIs
  <2>2. i \in 1 .. Len(order) - handed
    BY <2>1 DEF IsBehind
  <2>3. handed + i \in DOMAIN order /\ b[i] = order[handed + i]
    BY <1>1, <2>1, <2>2 DEF IsBehind
  <2> QED
    BY <2>3, Zenon DEF Accepted
<1>4. HandedTo[w] \in Accepted \cup {NULL}
  <2>1. CASE wpc[w] = "take"
    <3>1. idx[w] = handed /\ handed # 0
      BY <2>1 DEF InOrder, PositionsFit
    <3>2. idx[w] \in DOMAIN order
      BY <1>1, <3>1
    <3>3. HandedTo[w] = order[idx[w]]
      BY <2>1 DEF HandedTo
    <3> QED
      BY <3>2, <3>3, Zenon DEF Accepted
  <2>2. CASE wpc[w] # "take"
    BY <2>2 DEF HandedTo, OneCopy, TakenAccepted
  <2> QED
    BY <2>1, <2>2
<1>5. finished \subseteq Accepted
  BY DEF OneCopy, TakenAccepted
<1>6. H!Known = {b[i] : i \in DOMAIN b} \cup {HandedTo[v] : v \in Workers} \cup finished \cup refused
  BY <1>2 DEF H!Known, Behind
<1> QED
  BY <1>3, <1>4, <1>5, <1>6

\* Every step is a step of the hand-off, or none.
LEMMA StepRefines ==
  ASSUME NEW w, Workers = {w}, IInv, OneCopy, InOrder(w), [Next]_vars
  PROVE  [H!HNext \/ \E j \in Jobs : H!RefuseEarly(j)]_H!hvars
<1>1. order \in Seq(Jobs) /\ handed \in 0 .. Len(order) /\ handed \in Nat /\ Len(order) \in Nat
  <2>1. PositionsFit(w)
    BY DEF InOrder
  <2> QED
    BY <2>1, RingHolds DEF IInv, TypeOK
<1>2. ASSUME NEW t \in Threads, NEW j \in Jobs, Enqueue_refuse(t, j) PROVE H!RefuseEarly(j)
  <2>1. j \notin H!Known
    BY <1>2, KnownOnes, NullAssumption DEF Enqueue_refuse, Offered, Accepted
  <2> QED
    BY <1>2, <2>1 DEF Enqueue_refuse, H!RefuseEarly, HandedTo, poolthread, history
<1>3. ASSUME NEW t \in Threads, Enqueue_claim(t) PROVE job[t] \in Jobs /\ H!Accept(job[t])
  <2>1. tpc[t] = "claim" /\ order' = Append(order, job[t])
        /\ UNCHANGED <<wpc, running, handed, idx, finished, refused>>
    BY <1>3 DEF Enqueue_claim, poolthread
  <2>2. job[t] \in Jobs
    BY <2>1 DEF IInv, MoversHoldJobs
  <2>3. job[t] \notin H!Known
    <3>1. job[t] \notin Accepted \cup refused
      BY <2>1 DEF InOrder, NotYetAccepted
    <3> QED
      BY <2>2, <3>1, KnownOnes, NullAssumption
  <2>4. Len(Behind(order, handed)) < Sz
    <3>1. Len(order) - handed < Sz
      <4>1. PositionsFit(w)
        BY DEF InOrder
      <4> QED
        BY <2>1, <4>1, RingHolds
    <3>2. IsBehind(Behind(order, handed), Jobs, order, handed)
      BY <1>1, BehindIs
    <3> QED
      BY <3>1, <3>2 DEF IsBehind
  <2>5. Behind(order, handed)' = Append(Behind(order, handed), job[t])
    <3>1. Behind(order, handed)' = Behind(Append(order, job[t]), handed)
      BY <2>1 DEF Behind
    <3> QED
      BY <1>1, <2>2, <3>1, BehindAppend
  <2>6. HandedTo' = HandedTo
    <3>1. wpc[w] = "take" => idx[w] \in 1 .. Len(order)
      BY <1>1 DEF InOrder, PositionsFit
    <3>2. wpc[w] = "take" => order'[idx[w]] = order[idx[w]]
      BY <1>1, <2>1, <2>2, <3>1
    <3> QED
      BY <2>1, <3>2 DEF HandedTo
  <2> QED
    BY <2>1, <2>2, <2>3, <2>4, <2>5, <2>6 DEF H!Accept, Behind
<1>4. ASSUME Dequeue_claim(w) PROVE H!Take(w)
  <2>1. /\ wpc[w] = "claim" /\ handed' = handed + 1 /\ idx' = [idx EXCEPT ![w] = handed + 1]
        /\ wpc' = [wpc EXCEPT ![w] = "take"] /\ UNCHANGED <<running, order, finished, refused>>
    BY <1>4 DEF Dequeue_claim
  <2>2. handed < Len(order)
    BY <1>1, <2>1, StoringFinite DEF InOrder, PositionsFit, IInv, TypeOK
  <2>3. HandedTo[w] = NULL
    BY <2>1 DEF InOrder, PositionsFit, HandedTo
  <2>4. /\ Behind(order, handed) # <<>> /\ Head(Behind(order, handed)) = order[handed + 1]
        /\ Behind(order, handed + 1) = Tail(Behind(order, handed))
    BY <1>1, <2>2, BehindTail
  <2>5. Behind(order, handed)' = Behind(order, handed + 1)
    BY <2>1 DEF Behind
  <2>6. HandedTo' = [HandedTo EXCEPT ![w] = order[handed + 1]]
    <3>1. wpc'[w] = "take" /\ idx'[w] = handed + 1
      BY <2>1 DEF IInv, TypeOK
    <3> QED
      BY <2>1, <3>1 DEF HandedTo
  <2> QED
    BY <2>1, <2>3, <2>4, <2>5, <2>6 DEF H!Take, Behind
<1>5. ASSUME Worker_run(w) PROVE H!Finish(w)
  <2>1. /\ wpc[w] = "run" /\ finished' = finished \cup {running[w]}
        /\ running' = [running EXCEPT ![w] = NULL] /\ wpc' = [wpc EXCEPT ![w] = "wait"]
        /\ UNCHANGED <<order, handed, idx, refused>>
    BY <1>5 DEF Worker_run, history
  <2>2. HandedTo[w] = running[w] /\ running[w] # NULL
    BY <2>1, NullAssumption DEF HandedTo, IInv, MoversHoldJobs
  <2>3. HandedTo' = [HandedTo EXCEPT ![w] = NULL]
    <3>1. wpc'[w] = "wait" /\ running'[w] = NULL
      BY <2>1 DEF IInv, TypeOK
    <3> QED
      BY <3>1 DEF HandedTo
  <2> QED
    BY <2>1, <2>2, <2>3 DEF H!Finish
<1>6. ASSUME Dequeue_take(w) PROVE UNCHANGED H!hvars
  <2>1. /\ wpc[w] = "take" /\ running' = [running EXCEPT ![w] = jobs[wpos[w]]]
        /\ wpc' = [wpc EXCEPT ![w] = "free"] /\ UNCHANGED <<order, handed, idx, finished, refused>>
    BY <1>6 DEF Dequeue_take, history
  <2>2. jobs[wpos[w]] = order[idx[w]]
    BY <1>6, TakesItsJob
  <2>3. HandedTo' = HandedTo
    <3>1. wpc'[w] = "free" /\ running'[w] = order[idx[w]]
      BY <2>1, <2>2 DEF IInv, TypeOK
    <3> QED
      BY <2>1, <3>1 DEF HandedTo
  <2> QED
    BY <2>1, <2>3 DEF H!hvars
<1>7. ASSUME Dequeue_wait(w) \/ Dequeue_free(w) PROVE UNCHANGED H!hvars
  <2>1. /\ wpc[w] # "take" /\ wpc'[w] # "take"
        /\ UNCHANGED <<running, order, handed, idx, finished, refused>>
    BY <1>7 DEF Dequeue_wait, Dequeue_free, history, IInv, TypeOK
  <2> QED
    BY <2>1 DEF HandedTo, H!hvars
<1>8. ASSUME NEW t \in Threads, NEW j \in Jobs, Enqueue_reserve(t, j) PROVE UNCHANGED H!hvars
  BY <1>8 DEF Enqueue_reserve, poolthread, history, HandedTo, H!hvars
<1>9. ASSUME NEW t \in Threads, Enqueue_store(t) \/ Enqueue_post(t) PROVE UNCHANGED H!hvars
  BY <1>9 DEF Enqueue_store, Enqueue_post, poolthread, history, HandedTo, H!hvars
<1>10. ASSUME UNCHANGED vars PROVE UNCHANGED H!hvars
  BY <1>10 DEF vars, poolthread, history, HandedTo, H!hvars
<1> QED
  BY <1>2, <1>3, <1>4, <1>5, <1>6, <1>7, <1>8, <1>9, <1>10
  DEF Next, EnqueueStep, WorkerStep, H!HNext

\* With one pool thread the lock-free queue (JobQueue_enqueue and JobQueue_dequeue without
\* a mutex, any number of service threads, any size of the ring) is a bounded
\* first-in first-out hand-off: jobs are handed over in the order of their claims, each
\* one once, although the slots are filled and announced in any order.
THEOREM OneThreadHandsOver ==
  ASSUME NEW w, Workers = {w}
  PROVE  Spec => ImplementsHandoff
<1>1. Init => H!HInit
  BY DEF Init, HandedTo, H!HInit
<1>2. (IInv /\ OneCopy /\ InOrder(w)) /\ [Next]_vars
        => [H!HNext \/ \E j \in Jobs : H!RefuseEarly(j)]_H!hvars
  BY StepRefines
<1>3. Spec => [](IInv /\ OneCopy /\ InOrder(w))
  BY AlwaysInOrder
<1> QED
  BY <1>1, <1>2, <1>3, PTL DEF Spec, ImplementsHandoff, H!LooseSpec

-----------------------------------------------------------------------------
(* One pool thread loses no job *)

\* Nothing but null is ever overwritten, so that what was in the ring, with the pool thread
\* or finished stays in one of these.
LEMMA TakenOverStays ==
  ASSUME NEW w, Workers = {w}, IInv, OneCopy, InOrder(w), [Next]_vars
  PROVE  \A j \in Jobs : j \in TakenOver => j \in TakenOver'
<1> SUFFICES ASSUME NEW j \in Jobs, j \in TakenOver PROVE j \in TakenOver'
  OBVIOUS
<1>t. j # NULL /\ TypeOK
  BY NullAssumption DEF IInv
<1>1. CASE UNCHANGED <<jobs, running, finished>>
  BY <1>1 DEF TakenOver, InRing
<1>2. ASSUME NEW t \in Threads, Enqueue_store(t) PROVE j \in TakenOver'
  <2>1. /\ tpc[t] = "store" /\ jobs' = [jobs EXCEPT ![tpos[t]] = job[t]]
        /\ UNCHANGED <<running, finished>>
    BY <1>2 DEF Enqueue_store, poolthread
  <2>2. jobs[tpos[t]] = NULL
    BY <2>1 DEF InOrder, SlotsFit
  <2>3. \A i \in Slots : jobs[i] = j => jobs'[i] = j
    BY <1>t, <2>1, <2>2 DEF TypeOK
  <2> QED
    BY <2>1, <2>3 DEF TakenOver, InRing
<1>3. ASSUME Dequeue_take(w) PROVE j \in TakenOver'
  <2>1. /\ wpc[w] = "take" /\ running' = [running EXCEPT ![w] = jobs[wpos[w]]]
        /\ jobs' = [jobs EXCEPT ![wpos[w]] = NULL] /\ UNCHANGED finished
    BY <1>3 DEF Dequeue_take
  <2>2. running[w] = NULL /\ running'[w] = jobs[wpos[w]]
    BY <1>t, <2>1 DEF InOrder, PositionsFit, TypeOK
  <2>3. \A i \in Slots : jobs[i] = j => jobs'[i] = j \/ running'[w] = j
    BY <1>t, <2>1, <2>2 DEF TypeOK
  <2> QED
    BY <1>t, <2>1, <2>2, <2>3 DEF TakenOver, InRing
<1>4. ASSUME Worker_run(w) PROVE j \in TakenOver'
  <2>1. finished' = finished \cup {running[w]} /\ UNCHANGED jobs
    BY <1>4 DEF Worker_run, queue
  <2> QED
    BY <2>1 DEF TakenOver, InRing
<1>5. CASE Next
  <2>1. ASSUME NEW t \in Threads, NEW k \in Jobs, Enqueue_refuse(t, k) \/ Enqueue_reserve(t, k)
        PROVE  UNCHANGED <<jobs, running, finished>>
    BY <2>1 DEF Enqueue_refuse, Enqueue_reserve, queue, poolthread
  <2>2. ASSUME NEW t \in Threads, Enqueue_claim(t) \/ Enqueue_post(t)
        PROVE  UNCHANGED <<jobs, running, finished>>
    BY <2>2 DEF Enqueue_claim, Enqueue_post, poolthread
  <2>3. ASSUME Dequeue_wait(w) \/ Dequeue_claim(w) \/ Dequeue_free(w)
        PROVE  UNCHANGED <<jobs, running, finished>>
    BY <2>3 DEF Dequeue_wait, Dequeue_claim, Dequeue_free
  <2> QED
    BY <1>1, <1>2, <1>3, <1>4, <1>5, <2>1, <2>2, <2>3 DEF Next, EnqueueStep, WorkerStep
<1> QED
  BY <1>1, <1>5 DEF vars, queue, poolthread

\* Every step keeps the accepted jobs.
LEMMA StepLosesNone ==
  ASSUME NEW w, Workers = {w}, IInv, OneCopy, InOrder(w), NoneLost, [Next]_vars
  PROVE  NoneLost'
<1>t. /\ tpc \in [Threads -> {"idle", "claim", "store", "post"}]
      /\ job \in [Threads -> Jobs \cup {NULL}] /\ order \in Seq(Jobs)
      /\ \A t \in Threads : tpc[t] # "idle" => job[t] \in Jobs
  BY DEF IInv, TypeOK, MoversHoldJobs
<1>k. \A j \in Jobs : j \in TakenOver => j \in TakenOver'
  BY TakenOverStays
<1>a. \A j \in Accepted : j \in Jobs
  BY <1>t DEF Accepted
<1>1. CASE UNCHANGED <<tpc, job, order>>
  BY <1>1, <1>a, <1>k, <1>t DEF NoneLost, Accepted
<1>2. ASSUME NEW t \in Threads, NEW j \in Jobs, Enqueue_reserve(t, j) PROVE NoneLost'
  <2>1. /\ tpc[t] = "idle" /\ tpc' = [tpc EXCEPT ![t] = "claim"]
        /\ job' = [job EXCEPT ![t] = j] /\ UNCHANGED order
    BY <1>2 DEF Enqueue_reserve, history
  <2> QED
    BY <1>a, <1>k, <1>t, <2>1 DEF NoneLost, Accepted
<1>3. ASSUME NEW t \in Threads, Enqueue_claim(t) PROVE NoneLost'
  <2>1. /\ tpc[t] = "claim" /\ tpc' = [tpc EXCEPT ![t] = "store"]
        /\ order' = Append(order, job[t]) /\ UNCHANGED job
    BY <1>3 DEF Enqueue_claim
  <2>2. Accepted' = Accepted \cup {job[t]}
    BY <1>t, <2>1 DEF Accepted
  <2> QED
    BY <1>a, <1>k, <1>t, <2>1, <2>2 DEF NoneLost
<1>4. ASSUME NEW t \in Threads, Enqueue_store(t) PROVE NoneLost'
  <2>1. /\ tpc[t] = "store" /\ tpc' = [tpc EXCEPT ![t] = "post"]
        /\ jobs' = [jobs EXCEPT ![tpos[t]] = job[t]] /\ UNCHANGED <<job, order>>
    BY <1>4 DEF Enqueue_store, history
  <2>2. job[t] \in TakenOver'
    BY <2>1 DEF TakenOver, InRing, IInv, TypeOK
  <2> QED
    BY <1>a, <1>k, <1>t, <2>1, <2>2 DEF NoneLost, Accepted
<1>5. ASSUME NEW t \in Threads, Enqueue_post(t) PROVE NoneLost'
  <2>1. /\ tpc[t] = "post" /\ tpc' = [tpc EXCEPT ![t] = "idle"]
        /\ job' = [job EXCEPT ![t] = NULL] /\ UNCHANGED order
    BY <1>5 DEF Enqueue_post, history
  <2> QED
    BY <1>a, <1>k, <1>t, <2>1 DEF NoneLost, Accepted
<1>6. CASE Next
  <2>1. ASSUME NEW t \in Threads, NEW j \in Jobs, Enqueue_refuse(t, j)
        PROVE  UNCHANGED <<tpc, job, order>>
    BY <2>1 DEF Enqueue_refuse, enqueuer, history
  <2>2. ASSUME WorkerStep(w) PROVE UNCHANGED <<tpc, job, order>>
    BY <2>2 DEF WorkerStep, Dequeue_wait, Dequeue_claim, Dequeue_take, Dequeue_free, Worker_run,
       enqueuer, history
  <2> QED
    BY <1>1, <1>2, <1>3, <1>4, <1>5, <1>6, <2>1, <2>2 DEF Next, EnqueueStep
<1> QED
  BY <1>1, <1>6 DEF vars, enqueuer, history

\* With one pool thread, "this takes ownership of the PSC_ThreadJob object"
\* (threadpool.h) holds of the lock-free queue as well: for any number of service threads
\* and any size of the ring, an accepted job is in the ring, with a thread that
\* moves it, or done.
THEOREM OneThreadLosesNone ==
  ASSUME NEW w, Workers = {w}
  PROVE  Spec => []NoJobLost
<1>1. Init => NoneLost
  BY DEF Init, NoneLost, Accepted
<1>2. (IInv /\ OneCopy /\ InOrder(w)) /\ NoneLost /\ [Next]_vars => NoneLost'
  BY StepLosesNone
<1>3. NoneLost => NoJobLost
  BY DEF NoneLost, NoJobLost, TakenOver, InRing, Held
<1>4. Spec => [](IInv /\ OneCopy /\ InOrder(w))
  BY AlwaysInOrder
<1> QED
  BY <1>1, <1>2, <1>3, <1>4, PTL DEF Spec

-----------------------------------------------------------------------------
(* The thread pool (module ThreadPool) *)

\* What is appended to a queue without it is the one new element.
LEMMA PoolAppend ==
  ASSUME NEW S, NEW s \in Seq(S), NEW x \in S
  PROVE  /\ Append(s, x) \in Seq(S) /\ Len(Append(s, x)) = Len(s) + 1
         /\ Elements(Append(s, x)) = Elements(s) \cup {x}
         /\ NoRepeats(s) /\ x \notin Elements(s) => NoRepeats(Append(s, x))
<1> DEFINE a == Append(s, x)
<1>1. /\ a \in Seq(S) /\ Len(a) = Len(s) + 1 /\ DOMAIN a = 1 .. Len(s) + 1
      /\ DOMAIN s = 1 .. Len(s) /\ Len(s) \in Nat
      /\ a[Len(s) + 1] = x /\ \A i \in 1 .. Len(s) : a[i] = s[i]
  BY AppendProperties
<1> HIDE DEF a
<1>2. ASSUME NEW y
      PROVE  y \in Elements(a) <=> y \in Elements(s) \cup {x}
  BY <1>1 DEF Elements
<1>3. ASSUME NoRepeats(s), x \notin Elements(s) PROVE NoRepeats(a)
  BY <1>1, <1>3 DEF NoRepeats, Elements
<1> QED
  BY <1>1, <1>2, <1>3 DEF a

\* What is taken from a queue without repetitions is in it no more.
LEMMA PoolTake ==
  ASSUME NEW S, NEW s \in Seq(S), s # <<>>, NoRepeats(s)
  PROVE  /\ Head(s) \in S /\ Tail(s) \in Seq(S) /\ Len(Tail(s)) = Len(s) - 1
         /\ Head(s) \in Elements(s) /\ Elements(Tail(s)) = Elements(s) \ {Head(s)}
         /\ NoRepeats(Tail(s))
<1> DEFINE t == Tail(s)
<1>1. /\ t \in Seq(S) /\ Len(t) = Len(s) - 1 /\ DOMAIN t = 1 .. Len(s) - 1
      /\ DOMAIN s = 1 .. Len(s) /\ Len(s) \in Nat /\ Len(s) # 0 
      /\ Head(s) = s[1] /\ Head(s) \in S /\ \A i \in 1 .. Len(s) - 1 : t[i] = s[i + 1]
  BY HeadTailProperties, EmptySeq
<1> HIDE DEF t
<1>2. ASSUME NEW i \in DOMAIN t, NEW k \in DOMAIN t, i # k PROVE t[i] # t[k]
  <2>1. i + 1 \in DOMAIN s /\ k + 1 \in DOMAIN s /\ i + 1 # k + 1
    BY <1>1, <1>2
  <2> QED
    BY <2>1, <1>1, <1>2 DEF NoRepeats
<1>3. ASSUME NEW i \in DOMAIN t PROVE t[i] \in Elements(s) \ {Head(s)}
  <2>1. i + 1 \in DOMAIN s /\ 1 \in DOMAIN s /\ i + 1 # 1 /\ s[i + 1] = t[i]
    BY <1>1, <1>3
  <2> QED
    BY <2>1, <1>1 DEF NoRepeats, Elements
<1>4. ASSUME NEW i \in DOMAIN s, s[i] # Head(s) PROVE s[i] \in Elements(t)
  <2>1. i - 1 \in DOMAIN t /\ t[i - 1] = s[i]
    BY <1>1, <1>4
  <2> QED
    BY <2>1 DEF Elements
<1>5. Head(s) \in Elements(s)
  BY <1>1 DEF Elements
<1>6. Elements(t) = Elements(s) \ {Head(s)}
  BY <1>3, <1>4, <1>5 DEF Elements
<1> QED
  BY <1>1, <1>2, <1>5, <1>6 DEF t, NoRepeats

\* Commands of the two kinds are told apart, and each by what it is for.
LEMMA CommandsDiffer ==
  /\ \A j, k : JobDone(j) = JobDone(k) => j = k
  /\ \A v, w : WorkerDone(v) = WorkerDone(w) => v = w
  /\ \A j, w : JobDone(j) # WorkerDone(w)
  BY DEF JobDone, WorkerDone

\* The queues do not change, and neither does who ended.
LEMMA QueuesStay ==
  ASSUME UNCHANGED <<jobQueue, cmds>>
  PROVE  /\ Waiting' = Waiting /\ Scheduled' = Scheduled
         /\ NoRepeats(jobQueue)' <=> NoRepeats(jobQueue) 
         /\ NoRepeats(cmds)' <=> NoRepeats(cmds)
  BY DEF Waiting, Scheduled, NoRepeats


\* What the assumptions say of the program that is running.
LEMMA ProgramFits ==
  ASSUME PoolAssumption, NoSignalWhileBlocked, PoolTypeOK
  PROVE  /\ opts.sz \in Nat \ {0} /\ opts.stops \in BOOLEAN /\ opts.async \cap opts.blocking = {}
         /\ opts.blocking # {} => opts.timed = {} /\ opts.canceled = {} /\ ~opts.stops
         /\ Unset \notin PoolJobs /\ Unset \notin PoolThreads
  BY DEF PoolAssumption, NoSignalWhileBlocked, PoolTypeOK

\* The steps of worker() that leave both queues alone, but for the await.
LEMMA WorkerStepInv ==
  ASSUME PoolAssumption, NoSignalWhileBlocked, PoolInv, NEW w \in PoolThreads, UNCHANGED opts,
         \/ worker_wait(w) \/ worker_check(w) \/ worker_start(w)
         \/ await_return(w) \/ worker_return(w) \/ worker_clear(w)
  PROVE  PoolInv'
<1> USE DEF PoolInv, GoOn
<1>1. UNCHANGED <<opts, jobQueue, cmds, state, panicmsg, fired, held, mpc, currentJob, stop,
                  rthreads, pool, hasCompleted, jobtimer>>
  BY DEF worker_wait, worker_check, worker_start, await_return, worker_return, worker_clear,
         jobvars
<1>2. /\ thrpc[w] # "exited" /\ thrpc' = [thrpc EXCEPT ![w] = thrpc'[w]]
      /\ thrpc'[w] \in {"top", "wait", "start", "run", "ran", "post"}
  BY DEF worker_wait, worker_check, worker_start, await_return, worker_return, worker_clear,
         PoolTypeOK
<1>3. PoolTypeOK'
  <2>1. currentJob[w] \in PoolJobs \cup {Unset}
    BY DEF PoolTypeOK
  <2>2. task' \in [PoolJobs -> {"none", "live", "freed"}]
    BY <2>1 DEF PoolTypeOK, worker_wait, worker_check, worker_start, await_return,
                worker_return, worker_clear, jobvars
  <2>4. complete' \in [PoolJobs -> BOOLEAN]
    BY <2>1 DEF PoolTypeOK, worker_wait, worker_check, worker_start, await_return,
                worker_return, worker_clear, jobvars
  <2>5. pthrno' \in [PoolJobs -> PoolThreads \cup {Unset}]
    BY <2>1 DEF PoolTypeOK, worker_wait, worker_check, worker_start, await_return,
                worker_return, worker_clear, jobvars
  <2>3. thrpc' \in [PoolThreads -> {"top", "wait", "got", "start", "run", "blocked", "ran",
                                    "post", "exited"}]
    BY <1>2 DEF PoolTypeOK
  <2> QED
    BY ONLY <1>1, <2>2, <2>3, <2>4, <2>5, PoolTypeOK DEF PoolTypeOK
<1>4. \A j \in PoolJobs : complete'[j] => complete[j]
  BY DEF worker_wait, worker_check, worker_start, await_return, worker_return, worker_clear,
         jobvars, PoolTypeOK
<1>5. InOnePlace'
  <2>1. \A j \in PoolJobs : complete'[j] \in BOOLEAN /\ complete[j] \in BOOLEAN
    BY <1>3 DEF PoolTypeOK
  <2> QED
    BY <2>1, <1>1, <1>4, QueuesStay DEF InOnePlace
<1>6. WorkersHold'
  BY <1>1, <1>2, QueuesStay
     DEF InOnePlace, WorkersHold, HasJob, worker_wait, worker_check, worker_start,
         await_return, worker_return, worker_clear, jobvars, PoolTypeOK
<1>9. TasksHold'
  BY <1>1, <1>2
     DEF InOnePlace, WorkersHold, HasJob, TasksHold, worker_wait, worker_check, worker_start,
         await_return, worker_return, worker_clear, jobvars, PoolTypeOK
<1>7. Unjoined' = Unjoined
  BY <1>1, <1>2, QueuesStay DEF Unjoined, PoolTypeOK
<1>8. ThreadsCounted'
  BY <1>1, <1>2, <1>7, QueuesStay DEF ThreadsCounted, PoolTypeOK
<1> QED
  BY <1>3, <1>5, <1>6, <1>8, <1>9

\* A worker takes a job out of the queue.
LEMMA DequeueInv ==
  ASSUME PoolAssumption, NoSignalWhileBlocked, PoolInv, NEW w \in PoolThreads, UNCHANGED opts,
         worker_dequeue(w)
  PROVE  PoolInv'
<1> USE DEF PoolInv, GoOn
<1> DEFINE j == Head(jobQueue)
<1>1. /\ thrpc[w] = "wait" /\ thrpc' = [thrpc EXCEPT ![w] = "got"]
      /\ currentJob' = [currentJob EXCEPT ![w] = j] /\ jobQueue' = Tail(jobQueue)
      /\ UNCHANGED <<opts, cmds, state, hasCompleted, pthrno, task, jobtimer, panicmsg, held,
                     complete, fired, mpc, stop, rthreads, pool>>
  BY DEF worker_dequeue, jobvars
<1>2. /\ j \in PoolJobs /\ jobQueue' \in Seq(PoolJobs) /\ Len(jobQueue') = Len(jobQueue) - 1
      /\ j \in Waiting /\ Waiting' = Waiting \ {j} /\ NoRepeats(jobQueue)'
      /\ Scheduled' = Scheduled
  BY <1>1, PoolTake DEF worker_dequeue, PoolTypeOK, InOnePlace, Waiting, Scheduled
<1> HIDE DEF j
<1>3. currentJob[w] = Unset
  BY <1>1 DEF WorkersHold, HasJob
<1>4. PoolTypeOK'
  <2>1. /\ thrpc' \in [PoolThreads -> {"top", "wait", "got", "start", "run", "blocked", "ran",
                                       "post", "exited"}]
        /\ currentJob' \in [PoolThreads -> PoolJobs \cup {Unset}]
        /\ Len(jobQueue') <= opts.sz
    BY <1>1, <1>2, ProgramFits, LenProperties DEF PoolTypeOK
  <2> QED
    BY ONLY <1>1, <1>2, <2>1, PoolTypeOK DEF PoolTypeOK
<1>5. InOnePlace'
  <2>1. NoRepeats(cmds)'
    BY <1>1 DEF InOnePlace
  <2>2. \A v, x \in PoolThreads :
           v # x /\ currentJob'[v] # Unset => currentJob'[v] # currentJob'[x]
    BY <1>1, <1>2 DEF InOnePlace, WorkersHold, PoolTypeOK
  <2> QED
    BY <1>1, <1>2, <2>1, <2>2 DEF InOnePlace
<1>6. WorkersHold' /\ TasksHold'
  BY <1>1, <1>2, <1>3 DEF InOnePlace, WorkersHold, HasJob, TasksHold, PoolTypeOK
<1>7. Unjoined' = Unjoined
  BY <1>1, <1>2 DEF Unjoined, PoolTypeOK
<1>8. ThreadsCounted'
  BY <1>1, <1>2, <1>7 DEF ThreadsCounted, PoolTypeOK
<1> QED
  BY <1>4, <1>5, <1>6, <1>8

\* A worker that was told to stop ends, and schedules its being joined.
LEMMA StopInv ==
  ASSUME PoolAssumption, NoSignalWhileBlocked, PoolInv, NEW w \in PoolThreads, UNCHANGED opts,
         worker_stop(w)
  PROVE  PoolInv'
<1> USE DEF PoolInv, GoOn
<1>1. /\ thrpc[w] = "got" /\ thrpc' = [thrpc EXCEPT ![w] = "exited"]
      /\ currentJob' = [currentJob EXCEPT ![w] = Unset] /\ cmds' = Append(cmds, WorkerDone(w))
      /\ UNCHANGED <<opts, jobQueue, state, hasCompleted, pthrno, task, jobtimer, panicmsg,
                     held, complete, fired, mpc, stop, rthreads, pool>>
  BY DEF worker_stop, jobvars
<1>2. WorkerDone(w) \in PoolCommands /\ WorkerDone(w) \notin Scheduled
  BY <1>1 DEF PoolCommands, ThreadsCounted
<1>3. /\ cmds' \in Seq(PoolCommands) /\ Scheduled' = Scheduled \cup {WorkerDone(w)}
      /\ NoRepeats(cmds)' /\ Waiting' = Waiting
  BY <1>1, <1>2, PoolAppend DEF PoolTypeOK, InOnePlace, Scheduled, Waiting
<1>4. PoolTypeOK'
  <2>1. /\ thrpc' \in [PoolThreads -> {"top", "wait", "got", "start", "run", "blocked", "ran",
                                       "post", "exited"}]
        /\ currentJob' \in [PoolThreads -> PoolJobs \cup {Unset}]
    BY <1>1 DEF PoolTypeOK
  <2> QED
    BY ONLY <1>1, <1>3, <2>1, PoolTypeOK DEF PoolTypeOK
<1>5. InOnePlace'
  <2>1. NoRepeats(jobQueue)'
    BY <1>1 DEF InOnePlace
  <2>2. \A v, x \in PoolThreads :
           v # x /\ currentJob'[v] # Unset => currentJob'[v] # currentJob'[x]
    BY <1>1 DEF InOnePlace, PoolTypeOK
  <2> QED
    BY <1>1, <1>3, <2>1, <2>2, CommandsDiffer DEF InOnePlace
<1>6. WorkersHold'
  BY <1>1, <1>3, CommandsDiffer DEF WorkersHold, HasJob, PoolTypeOK
<1>7. TasksHold'
  BY <1>1, <1>3 DEF TasksHold
<1>8. Unjoined' = Unjoined
  BY <1>1, <1>3, CommandsDiffer DEF Unjoined, PoolTypeOK
<1>9. ThreadsCounted'
  BY <1>1, <1>3, <1>8, CommandsDiffer DEF ThreadsCounted, PoolTypeOK
<1> QED
  BY <1>4, <1>5, <1>6, <1>7, <1>9

\* The job of worker w is posted to the main thread, and the worker goes on
\* without it, or blocks in the await of the job.
LEMMA PostInv ==
  ASSUME PoolAssumption, NoSignalWhileBlocked, PoolInv, NEW w \in PoolThreads, UNCHANGED opts,
         worker_done(w) \/ PSC_AsyncTask_await(w)
  PROVE  PoolInv'
<1> USE DEF PoolInv, GoOn
<1> DEFINE j == currentJob[w]
<1>0. /\ thrpc[w] \in {"run", "post"} /\ j \in PoolJobs /\ state[j] = "live" /\ ~panicmsg[j]
      /\ j \notin Waiting /\ JobDone(j) \notin Scheduled /\ ~held[j] /\ ~complete[j]
      /\ JobDone(j) \in PoolCommands
  BY DEF worker_done, PSC_AsyncTask_await, WorkersHold, HasJob, PoolTypeOK, PoolCommands
<1> HIDE DEF j
<1>1. UNCHANGED <<opts, jobQueue, state, hasCompleted, pthrno, jobtimer, panicmsg,
                  held, complete, fired, mpc, stop, rthreads, pool>>
  BY DEF worker_done, PSC_AsyncTask_await, jobvars
<1>2. \/ /\ cmds' = Append(cmds, JobDone(j)) /\ task' = task
         /\ currentJob' = [currentJob EXCEPT ![w] = Unset] /\ thrpc' = [thrpc EXCEPT ![w] = "top"]
      \/ /\ cmds' = cmds /\ task' = [task EXCEPT ![j] = "live"]
         /\ currentJob' = currentJob /\ thrpc' = [thrpc EXCEPT ![w] = "ran"]
      \/ /\ cmds' = Append(cmds, JobDone(j)) /\ task' = [task EXCEPT ![j] = "live"]
         /\ currentJob' = currentJob /\ thrpc' = [thrpc EXCEPT ![w] = "blocked"]
         /\ j \in opts.blocking
  BY DEF worker_done, PSC_AsyncTask_await, jobvars, j
<1>3. /\ cmds' \in Seq(PoolCommands) /\ NoRepeats(cmds)' /\ Waiting' = Waiting
      /\ Scheduled' = Scheduled \cup (IF thrpc'[w] = "ran" THEN {} ELSE {JobDone(j)})
  <2>2. CASE thrpc'[w] = "ran"
    <3>1. cmds' = cmds
      BY <1>2, <2>2 DEF PoolTypeOK
    <3> QED
    BY <1>1, <3>1, <2>2 DEF PoolTypeOK, InOnePlace, Scheduled, Waiting
  <2>3. CASE cmds' = Append(cmds, JobDone(j))
    <3>1. Len(cmds') = Len(cmds) + 1 /\ Len(cmds) \in Nat
      BY <1>0, <2>3, PoolAppend, LenProperties DEF PoolTypeOK
    <3>2. thrpc'[w] # "ran"
      BY <1>2, <3>1 DEF PoolTypeOK
    <3> QED
      BY <1>0, <1>1, <2>3, <3>2, PoolAppend DEF PoolTypeOK, InOnePlace, Scheduled, Waiting
  <2> QED
    BY <1>2, <2>2, <2>3 DEF PoolTypeOK
<1>4. PoolTypeOK'
  <2>1. /\ thrpc' \in [PoolThreads -> {"top", "wait", "got", "start", "run", "blocked", "ran",
                                       "post", "exited"}]
        /\ currentJob' \in [PoolThreads -> PoolJobs \cup {Unset}]
        /\ task' \in [PoolJobs -> {"none", "live", "freed"}]
    BY <1>2 DEF PoolTypeOK
  <2> QED
    BY ONLY <1>1, <1>3, <2>1, PoolTypeOK DEF PoolTypeOK
<1>5. InOnePlace'
  <2>1. NoRepeats(jobQueue)'
    BY <1>1 DEF InOnePlace
  <2>2. \A v, x \in PoolThreads :
           v # x /\ currentJob'[v] # Unset => currentJob'[v] # currentJob'[x]
    BY <1>2 DEF InOnePlace, PoolTypeOK
  <2> QED
    BY <1>0, <1>1, <1>3, <2>1, <2>2, CommandsDiffer DEF InOnePlace
<1>6. WorkersHold'
  <2>1. \A v \in PoolThreads : v # w /\ currentJob[v] # Unset => currentJob[v] # j
    BY DEF InOnePlace, j
  <2> QED
  BY <1>0, <1>1, <1>2, <1>3, <2>1, CommandsDiffer, ProgramFits DEF WorkersHold, HasJob, PoolTypeOK, j
<1>7. TasksHold'
  BY <1>0, <1>1, <1>2, <1>3 DEF TasksHold, PoolTypeOK
<1>8. Unjoined' = Unjoined
  BY <1>0, <1>2, <1>3, CommandsDiffer DEF Unjoined, PoolTypeOK
<1>9. ThreadsCounted'
  BY <1>0, <1>1, <1>2, <1>3, <1>8, CommandsDiffer DEF ThreadsCounted, PoolTypeOK
<1> QED
  BY <1>4, <1>5, <1>6, <1>7, <1>9

\* A panic: the job and the end of its worker are posted together.
LEMMA PanicInv ==
  ASSUME PoolAssumption, NoSignalWhileBlocked, PoolInv, NEW w \in PoolThreads, UNCHANGED opts,
         worker_panic(w)
  PROVE  PoolInv'
<1> USE DEF PoolInv, GoOn
<1> DEFINE j == currentJob[w]
<1>0. /\ thrpc[w] = "run" /\ j \in PoolJobs /\ state[j] = "live"
      /\ j \notin Waiting /\ JobDone(j) \notin Scheduled /\ ~held[j] /\ ~complete[j]
      /\ JobDone(j) \in PoolCommands /\ WorkerDone(w) \in PoolCommands
      /\ WorkerDone(w) \notin Scheduled
  BY DEF worker_panic, WorkersHold, HasJob, PoolTypeOK, PoolCommands, ThreadsCounted
<1> HIDE DEF j
<1>1. /\ UNCHANGED <<opts, jobQueue, state, hasCompleted, pthrno, task, jobtimer,
                     held, complete, fired, mpc, stop, rthreads, pool>>
      /\ panicmsg' = [panicmsg EXCEPT ![j] = TRUE]
      /\ currentJob' = [currentJob EXCEPT ![w] = Unset] /\ thrpc' = [thrpc EXCEPT ![w] = "exited"]
  BY DEF worker_panic, j
<1>2. /\ cmds' \in Seq(PoolCommands) /\ NoRepeats(cmds)' /\ Waiting' = Waiting
      /\ Scheduled' = Scheduled \cup {JobDone(j), WorkerDone(w)}
  <2> DEFINE c == Append(cmds, JobDone(j))
  <2>1. /\ c \in Seq(PoolCommands) /\ Elements(c) = Elements(cmds) \cup {JobDone(j)}
        /\ NoRepeats(c)
    BY <1>0, PoolAppend DEF PoolTypeOK, InOnePlace, Scheduled
  <2>2. WorkerDone(w) \notin Elements(c)
    BY <1>0, <2>1, CommandsDiffer DEF Scheduled
  <2>3. cmds' = Append(c, WorkerDone(w))
    <3>1. cmds' = cmds \o <<JobDone(j), WorkerDone(w)>>
      BY DEF worker_panic, j
    <3> QED
      BY <1>0, <3>1 DEF PoolTypeOK
  <2> HIDE DEF c
  <2>4. /\ cmds' \in Seq(PoolCommands) /\ NoRepeats(cmds')
        /\ Elements(cmds') = Elements(c) \cup {WorkerDone(w)}
    BY <1>0, <2>1, <2>2, <2>3, PoolAppend
  <2> QED
    BY <1>1, <2>1, <2>4 DEF Scheduled, Waiting
<1>4. PoolTypeOK'
  <2>1. /\ thrpc' \in [PoolThreads -> {"top", "wait", "got", "start", "run", "blocked", "ran",
                                       "post", "exited"}]
        /\ currentJob' \in [PoolThreads -> PoolJobs \cup {Unset}]
        /\ panicmsg' \in [PoolJobs -> BOOLEAN]
    BY <1>1 DEF PoolTypeOK
  <2> QED
    BY ONLY <1>1, <1>2, <2>1, PoolTypeOK DEF PoolTypeOK
<1>5. InOnePlace'
  <2>1. NoRepeats(jobQueue)'
    BY <1>1 DEF InOnePlace
  <2>2. \A v, x \in PoolThreads :
           v # x /\ currentJob'[v] # Unset => currentJob'[v] # currentJob'[x]
    BY <1>1 DEF InOnePlace, PoolTypeOK
  <2> QED
    BY <1>0, <1>1, <1>2, <2>1, <2>2, CommandsDiffer DEF InOnePlace, PoolTypeOK
<1>6. WorkersHold'
  <2>1. \A v \in PoolThreads : v # w /\ currentJob[v] # Unset => currentJob[v] # j
    BY DEF InOnePlace, j
  <2> QED
    BY <1>0, <1>1, <1>2, <2>1, CommandsDiffer DEF WorkersHold, HasJob, PoolTypeOK
<1>7. TasksHold'
  BY <1>1 DEF TasksHold
<1>8. Unjoined' = Unjoined
  BY <1>0, <1>1, <1>2, CommandsDiffer DEF Unjoined, PoolTypeOK
<1>9. ThreadsCounted'
  BY <1>0, <1>1, <1>2, <1>8, CommandsDiffer DEF ThreadsCounted, PoolTypeOK
<1> QED
  BY <1>4, <1>5, <1>6, <1>7, <1>9

\* The user enqueues a job that the queue has room for, or not, and completes a
\* task.
LEMMA UserInv ==
  ASSUME PoolAssumption, NoSignalWhileBlocked, PoolInv, NEW j \in PoolJobs, UNCHANGED opts,
         \/ PSC_ThreadPool_enqueue(j) \/ PSC_ThreadPool_enqueue_full(j)
         \/ PSC_AsyncTask_complete(j)
  PROVE  PoolInv'
<1> USE DEF PoolInv
<1>1. UNCHANGED <<opts, cmds, hasCompleted, pthrno, task, panicmsg, fired, mpc,
                  thrpc, currentJob, stop, rthreads, pool>>
  BY DEF PSC_ThreadPool_enqueue, PSC_ThreadPool_enqueue_full, PSC_AsyncTask_complete
<1>2. state[j] = "new" \/ held[j] 
  BY DEF PSC_ThreadPool_enqueue, PSC_ThreadPool_enqueue_full, PSC_AsyncTask_complete
<1>3. ASSUME jobQueue' = Append(jobQueue, j), Len(jobQueue) < opts.sz
      PROVE  /\ jobQueue' \in Seq(PoolJobs) /\ Len(jobQueue') <= opts'.sz
             /\ NoRepeats(jobQueue)' /\ Waiting' = Waiting \cup {j}
  <2>1. j \notin Waiting
    BY <1>2 DEF InOnePlace
  <2>2. Len(jobQueue) \in Nat /\ opts.sz \in Nat /\ jobQueue \in Seq(PoolJobs)
    BY LenProperties, ProgramFits DEF PoolTypeOK
  <2> QED
    BY <1>1, <1>3, <2>1, <2>2, PoolAppend DEF InOnePlace, Waiting
<1>4. /\ jobQueue' \in Seq(PoolJobs) /\ Len(jobQueue') <= opts'.sz /\ NoRepeats(jobQueue)'
      /\ NoRepeats(cmds)' /\ Scheduled' = Scheduled
  <2>1. CASE jobQueue' = jobQueue
    BY <1>1, <2>1 DEF PoolTypeOK, InOnePlace, Scheduled
  <2>2. CASE jobQueue' = Append(jobQueue, j) /\ Len(jobQueue) < opts.sz
    BY <1>1, <1>3, <2>2 DEF PoolTypeOK, InOnePlace, Scheduled
  <2> QED
    BY <2>1, <2>2 DEF PSC_ThreadPool_enqueue, PSC_ThreadPool_enqueue_full, PSC_AsyncTask_complete
<1>5. \/ /\ Waiting' = Waiting \cup {j} /\ state[j] = "new" /\ state' = [state EXCEPT ![j] = "live"]
         /\ UNCHANGED <<held, complete>> /\ jobtimer' = [jobtimer EXCEPT ![j] = j \in opts.timed]
      \/ /\ Waiting' = Waiting /\ state[j] = "new" /\ state' = [state EXCEPT ![j] = "refused"]
         /\ UNCHANGED <<held, complete, jobtimer>>
      \/ /\ Waiting' = Waiting \cup {j} /\ held[j] /\ held' = [held EXCEPT ![j] = FALSE]
         /\ UNCHANGED <<state, complete>> /\ jobtimer' = [jobtimer EXCEPT ![j] = j \in opts.timed]
         /\ j \notin opts.blocking
      \/ /\ Waiting' = Waiting /\ held[j] /\ held' = [held EXCEPT ![j] = FALSE]
         /\ UNCHANGED <<state, complete, jobtimer>>
         /\ j \notin opts.blocking
      \/ /\ Waiting' = Waiting /\ held[j] /\ held' = [held EXCEPT ![j] = FALSE]
         /\ UNCHANGED <<state, jobtimer>> /\ complete' = [complete EXCEPT ![j] = TRUE]
  <2>1. CASE PSC_ThreadPool_enqueue(j)
    BY <2>1, <1>3 DEF PSC_ThreadPool_enqueue
  <2>2. CASE PSC_ThreadPool_enqueue_full(j)
    BY <2>2 DEF PSC_ThreadPool_enqueue_full, Waiting
  <2>3. CASE PSC_AsyncTask_complete(j)
    <3>1. opts.async \cap opts.blocking = {}
      BY ProgramFits
    <3>2. jobQueue' = jobQueue => Waiting' = Waiting
      BY DEF Waiting
    <3> QED
      BY <2>3, <3>1, <3>2, <1>3 DEF PSC_AsyncTask_complete
  <2> QED
    BY <2>1, <2>2, <2>3
<1>6. PoolTypeOK'
  <2>1. /\ state' \in [PoolJobs -> {"new", "refused", "live", "freed"}]
        /\ held' \in [PoolJobs -> BOOLEAN] /\ complete' \in [PoolJobs -> BOOLEAN]
    BY <1>5 DEF PoolTypeOK
  <2>2. jobtimer' \in [PoolJobs -> BOOLEAN]
    <3>1. (j \in opts.timed) \in BOOLEAN
      OBVIOUS
    <3>2. jobtimer' = jobtimer \/ jobtimer' = [jobtimer EXCEPT ![j] = j \in opts.timed]
      BY <1>5
    <3> QED
      BY <3>1, <3>2, Zenon DEF PoolTypeOK
  <2> QED
    BY ONLY <1>1, <1>4, <2>1, <2>2, PoolTypeOK DEF PoolTypeOK
<1>7. InOnePlace'
  BY <1>1, <1>4, <1>5 DEF InOnePlace, PoolTypeOK
<1>8. WorkersHold'
  BY <1>1, <1>2, <1>4, <1>5 DEF WorkersHold, HasJob, PoolTypeOK
<1>9. TasksHold'
  <2>1. \A i \in PoolJobs : held'[i] => task'[i] = "live"
    BY <1>1, <1>5 DEF TasksHold, PoolTypeOK
  <2>2. \A i \in PoolJobs : jobtimer'[i] => i \in opts.timed
    BY <1>5 DEF TasksHold, PoolTypeOK
  <2> QED
    BY <1>1, <2>1, <2>2 DEF TasksHold
<1>10. Unjoined' = Unjoined
  BY <1>1, <1>4 DEF Unjoined
<1>11. ThreadsCounted'
  BY <1>1, <1>4, <1>10 DEF ThreadsCounted
<1> QED
  BY <1>6, <1>7, <1>8, <1>9, <1>11

\* The steps of PSC_ThreadPool_cancel before the signal.
LEMMA CancelInv ==
  ASSUME PoolAssumption, NoSignalWhileBlocked, PoolInv, UNCHANGED opts,
         (\E j \in PoolJobs : PSC_ThreadPool_cancel(j)) \/ cancel_load
  PROVE  PoolInv'
<1> USE DEF PoolInv
<1>1. UNCHANGED <<opts, jobQueue, cmds, state, pthrno, task, panicmsg, held, complete,
                  fired, thrpc, currentJob, stop, rthreads, pool>>
  BY DEF PSC_ThreadPool_cancel, cancel_load, jobvars
<1>2. /\ jobtimer' \in [PoolJobs -> BOOLEAN] /\ \A j \in PoolJobs : jobtimer'[j] => jobtimer[j]
  BY DEF PSC_ThreadPool_cancel, cancel_load, jobvars, PoolTypeOK
<1>3. hasCompleted' \in [PoolJobs -> BOOLEAN]
  BY DEF PSC_ThreadPool_cancel, cancel_load, jobvars, PoolTypeOK
<1>4. mpc' \in [at : {"loop", "load", "kill"}, job : PoolJobs \cup {Unset},
                thr : PoolThreads \cup {Unset}]
  <2>1. CASE cancel_load
    <3>1. mpc.job \in PoolJobs /\ pthrno[mpc.job] \in PoolThreads \cup {Unset}
      BY <2>1 DEF PoolTypeOK, TasksHold, cancel_load
    <3> QED
      BY <2>1, <3>1 DEF cancel_load, Loop, PoolTypeOK
  <2>2. CASE \E j \in PoolJobs : PSC_ThreadPool_cancel(j)
    BY <2>2 DEF PSC_ThreadPool_cancel
  <2> QED
    BY <2>1, <2>2
<1>5. opts.blocking = {}
  <2>1. CASE cancel_load
    BY <2>1 DEF cancel_load, TasksHold
  <2>2. ASSUME NEW j \in PoolJobs, PSC_ThreadPool_cancel(j) PROVE opts.blocking = {}
    <3>1. j \in opts.canceled \/ j \in opts.timed
      BY <2>2 DEF PSC_ThreadPool_cancel, TasksHold
    <3> QED
      BY <3>1, ProgramFits
  <2> QED
    BY <2>1, <2>2
<1>6. PoolTypeOK'
  BY ONLY <1>1, <1>2, <1>3, <1>4, PoolTypeOK DEF PoolTypeOK
<1>7. InOnePlace' /\ WorkersHold'
  BY <1>1, QueuesStay DEF InOnePlace, WorkersHold, HasJob
<1>8. TasksHold'
  <2>1. /\ mpc'.at # "loop" => mpc'.job \in PoolJobs
        /\ mpc'.at = "kill" => mpc'.thr \in PoolThreads
    <3>1. CASE cancel_load
      BY <3>1 DEF cancel_load, Loop, PoolTypeOK, TasksHold
    <3>2. CASE \E j \in PoolJobs : PSC_ThreadPool_cancel(j)
      BY <3>2 DEF PSC_ThreadPool_cancel
    <3> QED
      BY <3>1, <3>2
  <2> QED
    BY <1>1, <1>2, <1>5, <2>1 DEF TasksHold
<1>9. ThreadsCounted'
  BY <1>1, QueuesStay DEF ThreadsCounted, Unjoined
<1> QED
  BY <1>6, <1>7, <1>8, <1>9

\* A signal, for a job that was canceled or to stop the pool: it finds no thread
\* that blocks in an await.
LEMMA SignalInv ==
  ASSUME PoolAssumption, NoSignalWhileBlocked, PoolInv, UNCHANGED opts,
         cancel_kill \/ PSC_ThreadPool_done
  PROVE  PoolInv'
<1> USE DEF PoolInv
<1>1. UNCHANGED <<opts, jobQueue, cmds, state, hasCompleted, pthrno, jobtimer, panicmsg, held,
                  complete, fired, currentJob, rthreads>>
  BY DEF cancel_kill, PSC_ThreadPool_done
<1>2. opts.blocking = {}
  BY ProgramFits DEF cancel_kill, PSC_ThreadPool_done, TasksHold
<1>3. \A w \in PoolThreads : thrpc[w] # "blocked"
  BY <1>2 DEF WorkersHold, HasJob
<1>4. PICK W \in SUBSET PoolThreads : Interrupted(W)
  BY DEF cancel_kill, PSC_ThreadPool_done, TasksHold
<1>5. thrpc' = [w \in PoolThreads |-> IF w \in W /\ thrpc[w] = "wait" THEN "got" ELSE thrpc[w]]
  BY <1>3, <1>4 DEF Interrupted, PoolTypeOK
<1>6. task' = task
  <2>1. \A j \in PoolJobs : ~(\E w \in W : thrpc[w] = "blocked" /\ currentJob[w] = j)
    BY <1>3, <1>4
  <2> QED
    BY <1>4, <2>1 DEF Interrupted, PoolTypeOK
<1>7. /\ mpc' \in {Loop, mpc}
      /\ pool' \in {"active", "stopping", "gone", "panic"}
      /\ pool' = "gone" => pool = "gone"
  BY DEF cancel_kill, PSC_ThreadPool_done, PoolTypeOK
<1>8. PoolTypeOK'
  <2>1. thrpc' \in [PoolThreads -> {"top", "wait", "got", "start", "run", "blocked", "ran",
                                    "post", "exited"}]
    BY <1>5 DEF PoolTypeOK
  <2>2. mpc' \in [at : {"loop", "load", "kill"}, job : PoolJobs \cup {Unset},
                  thr : PoolThreads \cup {Unset}]
    BY <1>7 DEF PoolTypeOK, Loop
  <2>3. stop' \in [PoolThreads -> BOOLEAN]
    BY DEF cancel_kill, PSC_ThreadPool_done, PoolTypeOK
  <2> QED
    BY ONLY <1>1, <1>6, <1>7, <2>1, <2>2, <2>3, PoolTypeOK DEF PoolTypeOK
<1>9. InOnePlace'
  BY <1>1, QueuesStay DEF InOnePlace
<1>10. WorkersHold'
  BY <1>1, <1>5, <1>6, QueuesStay DEF WorkersHold, HasJob
<1>11. TasksHold'
  BY <1>1, <1>2, <1>6, <1>7 DEF TasksHold, Loop
<1>12. Unjoined' = Unjoined
  BY <1>1, <1>5, QueuesStay DEF Unjoined
<1>13. ThreadsCounted'
  BY <1>1, <1>5, <1>7, <1>12, QueuesStay DEF ThreadsCounted
<1> QED
  BY <1>8, <1>9, <1>10, <1>11, <1>13

\* The main thread takes the command of a job: the job is destroyed unless its
\* task is alive.
LEMMA JobDoneInv ==
  ASSUME PoolAssumption, NoSignalWhileBlocked, PoolInv, NEW j \in PoolJobs, UNCHANGED opts,
         threadJobDone(j)
  PROVE  PoolInv'
<1> USE DEF PoolInv
<1>1. /\ UNCHANGED <<opts, jobQueue, hasCompleted, pthrno, task, panicmsg, complete, mpc, thrpc,
                     currentJob, stop, rthreads>>
      /\ jobtimer' = [jobtimer EXCEPT ![j] = FALSE]
      /\ cmds' = Tail(cmds) /\ cmds # <<>> /\ Head(cmds) = JobDone(j)
  BY DEF threadJobDone
<1>2. /\ cmds' \in Seq(PoolCommands) /\ JobDone(j) \in Scheduled /\ Waiting' = Waiting
      /\ Scheduled' = Scheduled \ {JobDone(j)} /\ NoRepeats(cmds)'
  BY <1>1, PoolTake DEF PoolTypeOK, InOnePlace, Waiting, Scheduled
<1>3. /\ j \notin Waiting /\ ~held[j] /\ ~complete[j] /\ state[j] = "live"
      /\ \A w \in PoolThreads : currentJob[w] = j =>
            thrpc[w] = "blocked" /\ task[j] = "live" /\ ~panicmsg[j]
  BY <1>2, ProgramFits DEF InOnePlace, WorkersHold
<1>4. /\ \/ /\ state' = [state EXCEPT ![j] = "freed"] /\ held' = held
            /\ panicmsg[j] \/ task[j] # "live"
         \/ /\ held' = [held EXCEPT ![j] = TRUE] /\ state' = state
            /\ task[j] = "live" /\ ~panicmsg[j]
      /\ pool' \in {"panic", pool}
  BY DEF threadJobDone
<1>11. fired' \in [PoolJobs -> Nat]
  <2>1. fired' = fired \/ fired' = [fired EXCEPT ![j] = fired[j] + 1]
    BY DEF threadJobDone
  <2>2. fired \in [PoolJobs -> Nat] /\ fired[j] + 1 \in Nat
    BY DEF PoolTypeOK
  <2> QED
    BY ONLY <2>1, <2>2
<1>5. PoolTypeOK'
  <2>1. /\ state' \in [PoolJobs -> {"new", "refused", "live", "freed"}]
        /\ held' \in [PoolJobs -> BOOLEAN] /\ jobtimer' \in [PoolJobs -> BOOLEAN]
        /\ pool' \in {"active", "stopping", "gone", "panic"}
    BY <1>1, <1>4 DEF PoolTypeOK
  <2> QED
    BY ONLY <1>1, <1>2, <1>4, <1>11, <2>1, PoolTypeOK DEF PoolTypeOK
<1>6. InOnePlace'
  <2>1. NoRepeats(jobQueue)'
    BY <1>1 DEF InOnePlace
  <2> QED
    BY <1>1, <1>2, <1>3, <1>4, <2>1, CommandsDiffer DEF InOnePlace, PoolTypeOK
<1>7. WorkersHold'
  BY <1>1, <1>2, <1>3, <1>4, ProgramFits DEF WorkersHold, HasJob, PoolTypeOK
<1>8. TasksHold'
  BY <1>1, <1>4 DEF TasksHold, PoolTypeOK
<1>9. Unjoined' = Unjoined
  BY <1>1, <1>2, CommandsDiffer DEF Unjoined
<1>10. ThreadsCounted'
  BY <1>1, <1>2, <1>4, <1>9 DEF ThreadsCounted
<1> QED
  BY <1>5, <1>6, <1>7, <1>8, <1>10

\* A worker is joined.
LEMMA WorkerDoneInv ==
  ASSUME PoolAssumption, NoSignalWhileBlocked, PoolInv, NEW w \in PoolThreads, UNCHANGED opts,
         workerDone(w)
  PROVE  PoolInv'
<1> USE DEF PoolInv
<1>1. /\ UNCHANGED <<opts, jobQueue, state, hasCompleted, pthrno, task, jobtimer, panicmsg, held,
                     complete, fired, mpc, thrpc, currentJob, stop>>
      /\ cmds' = Tail(cmds) /\ cmds # <<>> /\ Head(cmds) = WorkerDone(w)
      /\ rthreads' = rthreads - 1 /\ pool' = IF rthreads' = 0 THEN "gone" ELSE pool
  BY DEF workerDone, jobvars
<1>2. /\ cmds' \in Seq(PoolCommands) /\ WorkerDone(w) \in Scheduled /\ Waiting' = Waiting
      /\ Scheduled' = Scheduled \ {WorkerDone(w)} /\ NoRepeats(cmds)'
  BY <1>1, PoolTake DEF PoolTypeOK, InOnePlace, Waiting, Scheduled
<1>3. w \in Unjoined /\ Unjoined' = Unjoined \ {w}
  BY <1>1, <1>2, CommandsDiffer DEF Unjoined, ThreadsCounted
<1>4. /\ rthreads' = Cardinality(Unjoined') /\ rthreads' \in Nat
      /\ rthreads' < rthreads /\ rthreads \in 0 .. Cardinality(PoolThreads)
  <2>1. IsFiniteSet(PoolThreads) /\ Unjoined \subseteq PoolThreads
    BY DEF PoolAssumption, Unjoined
  <2>2. IsFiniteSet(Unjoined)
    BY <2>1, FS_Subset
  <2>3. /\ IsFiniteSet(Unjoined') /\ Cardinality(Unjoined') = Cardinality(Unjoined) - 1
        /\ Cardinality(Unjoined') \in Nat /\ Cardinality(Unjoined) \in Nat
    BY <1>3, <2>2, FS_RemoveElement, FS_CardinalityType
  <2> QED
    BY <1>1, <2>3 DEF ThreadsCounted, PoolTypeOK
<1>5. PoolTypeOK'
  <2>1. /\ rthreads' \in 0 .. Cardinality(PoolThreads)
        /\ pool' \in {"active", "stopping", "gone", "panic"}
    <3>1. Cardinality(PoolThreads) \in Nat
      BY FS_CardinalityType DEF PoolAssumption
    <3> QED
      BY <1>1, <1>4, <3>1 DEF PoolTypeOK
  <2> QED
    BY ONLY <1>1, <1>2, <2>1, PoolTypeOK DEF PoolTypeOK
<1>6. InOnePlace'
  <2>1. NoRepeats(jobQueue)'
    BY <1>1 DEF InOnePlace
  <2> QED
    BY <1>1, <1>2, <2>1, CommandsDiffer DEF InOnePlace
<1>7. WorkersHold' /\ TasksHold'
  BY <1>1, <1>2 DEF WorkersHold, HasJob, TasksHold
<1>8. pool' = "gone" => rthreads' = 0
  <2>1. pool = "gone" => rthreads = 0
    BY DEF ThreadsCounted
  <2> QED
    BY <1>1, <1>4, <2>1
<1>9. ThreadsCounted'
  BY <1>1, <1>2, <1>4, <1>8 DEF ThreadsCounted
<1> QED
  BY <1>5, <1>6, <1>7, <1>9

\* The pool starts with all its threads, and with no job anywhere.
LEMMA PoolStarts == PoolAssumption /\ PoolInit => PoolInv
<1> SUFFICES ASSUME PoolAssumption, PoolInit PROVE PoolInv
  OBVIOUS
<1> USE DEF PoolInit, PSC_ThreadPool_init, PSC_ThreadJob_create, Loop
<1>1. Waiting = {} /\ Scheduled = {} /\ NoRepeats(jobQueue) /\ NoRepeats(cmds)
  BY DEF Waiting, Scheduled, Elements, NoRepeats
<1>2. Cardinality(PoolThreads) \in Nat
  BY FS_CardinalityType DEF PoolAssumption
<1>3. PoolTypeOK
  BY <1>2 DEF PoolTypeOK, PoolAssumption
<1>4. InOnePlace
  BY <1>1 DEF InOnePlace
<1>5. WorkersHold /\ TasksHold
  BY DEF WorkersHold, HasJob, TasksHold
<1>6. Unjoined = PoolThreads
  BY DEF Unjoined
<1>7. ThreadsCounted
  BY <1>1, <1>6 DEF ThreadsCounted
<1> QED
  BY <1>3, <1>4, <1>5, <1>7 DEF PoolInv

\* The invariant says that memory is safe.
LEMMA PoolInvSafe == PoolAssumption /\ PoolInv => PoolMemorySafe
<1> SUFFICES ASSUME PoolAssumption, PoolInv PROVE PoolMemorySafe
  OBVIOUS
<1> USE DEF PoolInv
<1>1. ASSUME NEW j \in PoolJobs, Reachable(j) PROVE state[j] # "freed"
  <2>1. j \in Waiting \/ JobDone(j) \in Scheduled \/ \E w \in PoolThreads : currentJob[w] = j
    BY <1>1 DEF Reachable, Waiting, Scheduled, Elements
  <2>2. j # Unset
    BY DEF PoolAssumption
  <2> QED
    BY <2>1, <2>2 DEF InOnePlace, WorkersHold
<1>2. NoUseAfterFree
  BY <1>1 DEF NoUseAfterFree, InOnePlace, TasksHold
<1>3. pool = "gone" => \A w \in PoolThreads : thrpc[w] = "exited"
  <2> SUFFICES ASSUME pool = "gone" PROVE Unjoined = {}
    BY DEF Unjoined
  <2>1. IsFiniteSet(Unjoined)
    BY FS_Subset DEF PoolAssumption, Unjoined
  <2> QED
    BY <2>1, FS_EmptySet DEF ThreadsCounted
<1> QED
  BY <1>2, <1>3 DEF PoolMemorySafe, PoolOutlivesWorkers, InOnePlace

\* threadpool.c, worker, threadJobDone, PSC_AsyncTask_complete and stopThreads: for any
\* jobs, any finite number of threads, any queue size and any mixture of plain, awaiting,
\* canceled, timed and panicking jobs, a job or a task is alive for as long as somebody
\* can get at it, and the pool is freed after its last thread.  Only programs that
\* signal a thread on which a job may block are left out.
THEOREM PoolSafety ==
  ASSUME PoolAssumption, NoSignalWhileBlocked
  PROVE  PoolSpec => []PoolMemorySafe
<1>1. PoolInv /\ [PoolNext]_poolvars => PoolInv'
  <2> SUFFICES ASSUME PoolInv, [PoolNext]_poolvars PROVE PoolInv'
    OBVIOUS
  <2>1. CASE UNCHANGED poolvars
    BY <2>1, QueuesStay DEF poolvars, jobvars, PoolInv, PoolTypeOK, InOnePlace, WorkersHold,
       HasJob, TasksHold, ThreadsCounted, Unjoined
  <2>2. CASE PoolNext
    <3>1. UNCHANGED opts
      BY <2>2 DEF PoolNext
    <3>2. ASSUME NEW w \in PoolThreads, PoolThreadStep(w) PROVE PoolInv'
      BY <3>1, <3>2, WorkerStepInv, DequeueInv, StopInv, PostInv, PanicInv DEF PoolThreadStep
    <3>3. CASE MainStep
      BY <3>1, <3>3, CancelInv, SignalInv, JobDoneInv, WorkerDoneInv DEF MainStep
    <3> QED
      BY <2>2, <3>1, <3>2, <3>3, UserInv, CancelInv, SignalInv DEF PoolNext
  <2> QED
    BY <2>1, <2>2
<1> QED
  BY <1>1, PoolStarts, PoolInvSafe, PTL DEF PoolSpec
=============================================================================
