----------------------------- MODULE WorkProofs -----------------------------
(***************************************************************************)
(* Proofs about work that threads do for others.  The mutex build of the   *)
(* job queue (JobQueueLocked), for any set of jobs, any finite set of pool *)
(* threads and any queue size: the ring bookkeeping is consistent, and the *)
(* queue implements JobHandoff.  The resolver and its job (Resolver), and  *)
(* child processes and their commands (Process): what is destroyed while   *)
(* others work for it is not used after it is freed.                       *)
(***************************************************************************)
EXTENDS JobQueueLocked, Process, Resolver, FiniteSetTheorems, SequenceTheorems, TLAPS

-----------------------------------------------------------------------------
(* The job queue *)

\* The threads between semaphore and critical section are finitely many.
LEMMA WokenFinite == IsFiniteSet(Woken) /\ Cardinality(Woken) \in Nat
<1>1. Woken \in SUBSET Workers
  BY DEF Woken
<1>2. IsFiniteSet(Woken)
  BY <1>1, WorkersAssumption, FS_Subset
<1> QED
  BY <1>2, FS_CardinalityType

\* Advancing a position is the same as looking one slot further.
LEMMA AdvanceSlot ==
  ASSUME NEW p \in Slots, NEW n \in 0 .. Sz - 1
  PROVE  /\ SlotAt(p + n) \in Slots
         /\ Advance(SlotAt(p + n)) = SlotAt(p + n + 1)
         /\ SlotAt(Advance(p) + n) = SlotAt(p + n + 1)
         /\ Advance(p) \in Slots
  BY SzAssumption DEF Slots, SlotAt, Advance

\* Less than a round apart, different distances are different slots.
LEMMA SlotsDistinct ==
  ASSUME NEW p \in Slots, NEW m \in 0 .. Sz - 1, NEW n \in 0 .. Sz - 1, m # n
  PROVE  SlotAt(p + m) # SlotAt(p + n)
  BY SzAssumption DEF Slots, SlotAt

\* JobQueue_create establishes the invariant.
LEMMA InitIInv == Init => IInv
<1> SUFFICES ASSUME Init PROVE IInv
  OBVIOUS
<1> USE SzAssumption DEF Init, JobQueue_create
<1>1. TypeOK
  BY DEF TypeOK, Slots
<1>2. PositionsSpanQueue /\ QueuedAreJobs /\ RunningHoldsJob
  BY DEF PositionsSpanQueue, QueuedAreJobs, RunningHoldsJob, SlotAt
<1>3. Woken = {}
  BY DEF Woken
<1>4. OneTokenPerJob
  BY <1>3, FS_EmptySet DEF OneTokenPerJob
<1> QED
  BY <1>1, <1>2, <1>4 DEF IInv, QueueConsistent

\* A thread past the semaphore finds a job: the queue is not empty.
LEMMA WokenFindsJob ==
  ASSUME IInv, NEW w \in Workers, wpc[w] = "take"
  PROVE  avail < Sz /\ jobs[deqpos] \in Jobs
<1>1. w \in Woken
  BY DEF Woken
<1>2. Cardinality(Woken) # 0
  BY <1>1, WokenFinite, FS_EmptySet
<1>3. avail < Sz
  BY <1>2, WokenFinite, SzAssumption DEF IInv, TypeOK, QueueConsistent, OneTokenPerJob
<1>4. jobs[SlotAt(deqpos + 1 - 1)] \in Jobs
  BY <1>3, SzAssumption DEF IInv, TypeOK, QueueConsistent, QueuedAreJobs
<1> QED
  BY <1>3, <1>4, SzAssumption DEF IInv, TypeOK, SlotAt, Slots

\* JobQueue_enqueue preserves the invariant.
LEMMA EnqueueIInv ==
  ASSUME IInv, NEW j \in Jobs, JobQueue_enqueue(j)
  PROVE  IInv'
<1> USE SzAssumption DEF JobQueue_enqueue
<1>1. TypeOK'
  BY AdvanceSlot DEF IInv, TypeOK, Slots, Advance
<1> DEFINE n == Sz - avail
<1>2. n \in 0 .. Sz - 1 /\ (Sz - avail)' = n + 1
  BY DEF IInv, TypeOK
<1>3. enqpos = SlotAt(deqpos + n) /\ enqpos \in Slots /\ deqpos \in Slots
  BY DEF IInv, QueueConsistent, PositionsSpanQueue, TypeOK
<1>4. PositionsSpanQueue'
  <2>1. Advance(enqpos) = SlotAt(deqpos + n + 1)
    BY <1>2, <1>3, AdvanceSlot
  <2>2. deqpos + n + 1 = deqpos + (n + 1)
    BY <1>2, <1>3 DEF Slots
  <2> QED
    BY <1>2, <2>1, <2>2 DEF PositionsSpanQueue
<1>5. OneTokenPerJob'
  <2>1. Woken' = Woken
    BY DEF Woken
  <2> QED
    BY <2>1, WokenFinite DEF OneTokenPerJob, IInv, QueueConsistent, TypeOK
<1>6. ASSUME NEW k \in 1 .. (n + 1)
      PROVE  jobs'[SlotAt(deqpos + k - 1)] \in Jobs
  <2>1. k - 1 \in 0 .. Sz - 1 /\ deqpos + k - 1 = deqpos + (k - 1)
    BY <1>2, <1>3 DEF Slots
  <2>2. SlotAt(deqpos + k - 1) \in Slots
    BY <1>3, <2>1, AdvanceSlot
  <2>3. CASE k = n + 1
    BY <1>2, <1>3, <2>3 DEF IInv, TypeOK, Slots
  <2>4. CASE k # n + 1
    <3>1. SlotAt(deqpos + k - 1) # enqpos
      BY <1>2, <1>3, <2>1, <2>4, SlotsDistinct
    <3>2. jobs[SlotAt(deqpos + k - 1)] \in Jobs
      BY <1>2, <2>4 DEF IInv, QueueConsistent, QueuedAreJobs
    <3> QED
      BY <2>2, <3>1, <3>2 DEF IInv, TypeOK
  <2> QED
    BY <2>3, <2>4
<1>7. QueuedAreJobs'
  BY <1>2, <1>6 DEF QueuedAreJobs
<1>8. RunningHoldsJob'
  BY DEF RunningHoldsJob, IInv, QueueConsistent
<1> QED
  BY <1>1, <1>4, <1>5, <1>7, <1>8 DEF IInv, QueueConsistent

\* The semaphore wait preserves the invariant.
LEMMA WaitIInv ==
  ASSUME IInv, NEW w \in Workers, JobQueue_dequeue_wait(w)
  PROVE  IInv'
<1> USE SzAssumption DEF JobQueue_dequeue_wait
<1>1. TypeOK'
  BY DEF IInv, TypeOK
<1>2. w \notin Woken /\ Woken' = Woken \cup {w}
  BY DEF Woken, IInv, TypeOK
<1>3. Cardinality(Woken') = Cardinality(Woken) + 1
  BY <1>2, WokenFinite, FS_AddElement
<1>4. OneTokenPerJob'
  BY <1>3, WokenFinite DEF OneTokenPerJob, IInv, QueueConsistent, TypeOK
<1>5. PositionsSpanQueue' /\ QueuedAreJobs'
  BY DEF PositionsSpanQueue, QueuedAreJobs, IInv, QueueConsistent, SlotAt
<1>6. RunningHoldsJob'
  BY DEF RunningHoldsJob, IInv, QueueConsistent, TypeOK
<1> QED
  BY <1>1, <1>4, <1>5, <1>6 DEF IInv, QueueConsistent

\* The critical section of JobQueue_dequeue preserves the invariant.
LEMMA DequeueIInv ==
  ASSUME IInv, NEW w \in Workers, JobQueue_dequeue(w)
  PROVE  IInv'
<1> USE SzAssumption, NullAssumption DEF JobQueue_dequeue
<1>1. avail < Sz /\ jobs[deqpos] \in Jobs
  BY WokenFindsJob
<1> DEFINE n == Sz - avail
<1>2. n \in 1 .. Sz /\ n - 1 \in 0 .. Sz - 1 /\ (Sz - avail)' = n - 1
  BY <1>1 DEF IInv, TypeOK
<1>3. deqpos \in Slots /\ enqpos = SlotAt(deqpos + n)
  BY DEF IInv, TypeOK, QueueConsistent, PositionsSpanQueue
<1>4. Advance(deqpos) \in Slots
  BY <1>2, <1>3, AdvanceSlot
<1>5. TypeOK'
  BY <1>1, <1>4 DEF IInv, TypeOK
<1>6. PositionsSpanQueue'
  <2>1. SlotAt(Advance(deqpos) + (n - 1)) = SlotAt(deqpos + (n - 1) + 1)
    BY <1>2, <1>3, AdvanceSlot
  <2>2. deqpos + (n - 1) + 1 = deqpos + n
    BY <1>2, <1>3 DEF Slots
  <2> QED
    BY <1>2, <1>3, <2>1, <2>2 DEF PositionsSpanQueue
<1>7. OneTokenPerJob'
  <2>1. w \in Woken /\ Woken' = Woken \ {w}
    BY DEF Woken, IInv, TypeOK
  <2>2. Cardinality(Woken') = Cardinality(Woken) - 1
    BY <2>1, WokenFinite, FS_RemoveElement
  <2> QED
    BY <2>2, WokenFinite DEF OneTokenPerJob, IInv, QueueConsistent, TypeOK
<1>8. ASSUME NEW k \in 1 .. (n - 1)
      PROVE  jobs[SlotAt(Advance(deqpos) + k - 1)] \in Jobs
  <2>1. SlotAt(Advance(deqpos) + (k - 1)) = SlotAt(deqpos + (k - 1) + 1)
    BY <1>2, <1>3, AdvanceSlot
  <2>2. Advance(deqpos) + k - 1 = Advance(deqpos) + (k - 1)
        /\ deqpos + (k - 1) + 1 = deqpos + (k + 1) - 1
    BY <1>2, <1>3, <1>4 DEF Slots
  <2>3. jobs[SlotAt(deqpos + (k + 1) - 1)] \in Jobs
    BY <1>2 DEF IInv, QueueConsistent, QueuedAreJobs
  <2> QED
    BY <2>1, <2>2, <2>3
<1>9. QueuedAreJobs'
  BY <1>2, <1>8 DEF QueuedAreJobs
<1>10. RunningHoldsJob'
  BY <1>1 DEF RunningHoldsJob, IInv, QueueConsistent, TypeOK
<1> QED
  BY <1>5, <1>6, <1>7, <1>9, <1>10 DEF IInv, QueueConsistent

\* A refused job and the run of a job leave the ring alone.
LEMMA OtherIInv ==
  ASSUME IInv,
         \/ \E j \in Jobs : JobQueue_enqueue_full(j)
         \/ \E w \in Workers : Worker_run(w)
         \/ UNCHANGED vars
  PROVE  IInv'
<1> USE NullAssumption DEF JobQueue_enqueue_full, Worker_run, vars, queue
<1>1. TypeOK'
  BY DEF IInv, TypeOK, QueueConsistent, RunningHoldsJob
<1>2. Woken' = Woken
  BY DEF Woken, IInv, TypeOK
<1>3. PositionsSpanQueue' /\ OneTokenPerJob' /\ QueuedAreJobs'
  BY <1>2 DEF IInv, QueueConsistent, PositionsSpanQueue, OneTokenPerJob,
              QueuedAreJobs, SlotAt
<1>4. RunningHoldsJob'
  BY DEF RunningHoldsJob, IInv, QueueConsistent, TypeOK
<1> QED
  BY <1>1, <1>3, <1>4 DEF IInv, QueueConsistent

\* Type correctness and ring consistency hold in every reachable state of the
\* mutex build, for every queue size and every number of pool threads.
THEOREM Invariance == Spec => [](TypeOK /\ QueueConsistent)
<1>1. IInv /\ [Next]_vars => IInv'
  BY EnqueueIInv, WaitIInv, DequeueIInv, OtherIInv DEF Next, Enqueue, WorkerStep
<1>2. IInv <=> TypeOK /\ QueueConsistent
  BY DEF IInv
<1> QED
  BY InitIInv, <1>1, <1>2, PTL DEF Spec

-----------------------------------------------------------------------------
(* Refinement: the slots in use, from deqpos on, are what is pending *)

\* The pending jobs are a sequence of jobs, one for each slot in use.
LEMMA PendingSeq ==
  ASSUME IInv
  PROVE  /\ Pending \in Seq(Jobs)
         /\ Len(Pending) = Sz - avail
         /\ \A k \in 1 .. (Sz - avail) : Pending[k] = jobs[SlotAt(deqpos + k - 1)]
<1>1. Sz - avail \in Nat
  BY SzAssumption DEF IInv, TypeOK
<1>2. Pending \in [1 .. (Sz - avail) -> Jobs]
  BY DEF Pending, IInv, QueueConsistent, QueuedAreJobs
<1>3. Pending \in Seq(Jobs)
  BY <1>1, <1>2, SeqDef
<1>4. DOMAIN Pending = 1 .. (Sz - avail)
  BY <1>2
<1> QED
  BY <1>1, <1>3, <1>4, LenProperties DEF Pending

\* JobQueue_enqueue appends to the pending jobs.
LEMMA EnqueueAppends ==
  ASSUME IInv, NEW j \in Jobs, JobQueue_enqueue(j)
  PROVE  Pending' = Append(Pending, j)
<1> DEFINE n == Sz - avail
<1>1. n \in 0 .. Sz - 1 /\ (Sz - avail)' = n + 1
  BY SzAssumption DEF JobQueue_enqueue, IInv, TypeOK
<1>2. enqpos = SlotAt(deqpos + n) /\ enqpos \in Slots /\ deqpos \in Slots
      /\ deqpos' = deqpos
  BY DEF JobQueue_enqueue, IInv, QueueConsistent, PositionsSpanQueue, TypeOK
<1>3. IInv'
  BY EnqueueIInv
<1>4. Pending \in Seq(Jobs) /\ Len(Pending) = n
      /\ \A k \in 1 .. n : Pending[k] = jobs[SlotAt(deqpos + k - 1)]
  BY PendingSeq
<1>5. Pending' \in Seq(Jobs) /\ Len(Pending') = n + 1
      /\ \A k \in 1 .. (n + 1) : Pending'[k] = jobs'[SlotAt(deqpos + k - 1)]
  <2>1. (Pending \in Seq(Jobs))' /\ (Len(Pending) = Sz - avail)'
        /\ (\A k \in 1 .. (Sz - avail) : Pending[k] = jobs[SlotAt(deqpos + k - 1)])'
    BY <1>3, PendingSeq, PTL
  <2>2. \A k \in 1 .. (Sz - avail)' : Pending'[k] = jobs'[SlotAt(deqpos + k - 1)]
    BY <1>2, <2>1 DEF SlotAt
  <2> QED
    BY <1>1, <2>1, <2>2
<1>6. ASSUME NEW k \in 1 .. (n + 1) PROVE Pending'[k] = Append(Pending, j)[k]
  <2>1. k - 1 \in 0 .. Sz - 1 /\ deqpos + k - 1 = deqpos + (k - 1)
    BY <1>1, <1>2, SzAssumption DEF Slots
  <2>2. CASE k = n + 1
    <3>1. jobs'[enqpos] = j
      BY <1>2 DEF JobQueue_enqueue, IInv, TypeOK
    <3>2. SlotAt(deqpos + k - 1) = enqpos
      BY <1>1, <1>2, <2>2 DEF Slots
    <3> QED
      BY <1>4, <1>5, <2>2, <3>1, <3>2, AppendProperties
  <2>3. CASE k # n + 1
    <3>1. SlotAt(deqpos + k - 1) # enqpos
      BY <1>1, <1>2, <2>1, <2>3, SlotsDistinct
    <3>2. jobs'[SlotAt(deqpos + k - 1)] = jobs[SlotAt(deqpos + k - 1)]
      BY <3>1 DEF JobQueue_enqueue, IInv, TypeOK
    <3>3. k \in 1 .. n
      BY <1>1, <2>3
    <3> QED
      BY <1>4, <1>5, <3>2, <3>3, AppendProperties
  <2> QED
    BY <2>2, <2>3
<1> QED
  <2>1. Append(Pending, j) \in Seq(Jobs) /\ Len(Append(Pending, j)) = n + 1
    BY <1>4, AppendProperties
  <2> QED
    BY <1>5, <1>6, <2>1, SeqEqual

\* The critical section of JobQueue_dequeue removes the oldest pending job.
LEMMA DequeueTakesHead ==
  ASSUME IInv, NEW w \in Workers, JobQueue_dequeue(w)
  PROVE  /\ Pending # <<>>
         /\ Head(Pending) = jobs[deqpos]
         /\ Pending' = Tail(Pending)
<1> DEFINE n == Sz - avail
<1>1. n \in 1 .. Sz /\ (Sz - avail)' = n - 1
  BY WokenFindsJob, SzAssumption DEF JobQueue_dequeue, IInv, TypeOK
<1>2. deqpos \in Slots /\ deqpos' = Advance(deqpos) /\ deqpos' \in Slots
      /\ jobs' = jobs
  <2>1. deqpos \in Slots /\ deqpos' = Advance(deqpos) /\ jobs' = jobs
    BY DEF JobQueue_dequeue, IInv, TypeOK
  <2> QED
    BY <2>1, SzAssumption DEF Slots, Advance
<1>3. IInv'
  BY DequeueIInv
<1>4. Pending \in Seq(Jobs) /\ Len(Pending) = n
      /\ \A k \in 1 .. n : Pending[k] = jobs[SlotAt(deqpos + k - 1)]
  BY PendingSeq
<1>5. Pending' \in Seq(Jobs) /\ Len(Pending') = n - 1
      /\ \A k \in 1 .. (n - 1) : Pending'[k] = jobs[SlotAt(deqpos' + k - 1)]
  <2>1. (Pending \in Seq(Jobs))' /\ (Len(Pending) = Sz - avail)'
        /\ (\A k \in 1 .. (Sz - avail) : Pending[k] = jobs[SlotAt(deqpos + k - 1)])'
    BY <1>3, PendingSeq, PTL
  <2>2. \A k \in 1 .. (Sz - avail)' : Pending'[k] = jobs[SlotAt(deqpos' + k - 1)]
    BY <1>2, <2>1 DEF SlotAt
  <2> QED
    BY <1>1, <2>1, <2>2
<1>6. Pending # <<>>
  BY <1>1, <1>4
<1>7. Head(Pending) = jobs[deqpos]
  <2>1. Head(Pending) = Pending[1]
    BY <1>4, <1>6
  <2>2. deqpos + 1 - 1 = deqpos /\ SlotAt(deqpos) = deqpos
    BY <1>2, SzAssumption DEF SlotAt, Slots
  <2> QED
    BY <1>1, <1>4, <2>1, <2>2
<1>8. Tail(Pending) \in Seq(Jobs) /\ Len(Tail(Pending)) = n - 1
      /\ \A k \in 1 .. (n - 1) : Tail(Pending)[k] = Pending[k + 1]
  BY <1>1, <1>4, <1>6, HeadTailProperties
<1>9. ASSUME NEW k \in 1 .. (n - 1) PROVE Pending'[k] = Tail(Pending)[k]
  <2>1. SlotAt(Advance(deqpos) + (k - 1)) = SlotAt(deqpos + (k - 1) + 1)
    <3>1. k - 1 \in 0 .. Sz - 1
      BY <1>1, SzAssumption
    <3> QED
      BY <1>2, <3>1, AdvanceSlot
  <2>2. deqpos' + k - 1 = Advance(deqpos) + (k - 1)
        /\ deqpos + (k - 1) + 1 = deqpos + (k + 1) - 1
    BY <1>1, <1>2 DEF Slots
  <2>3. k + 1 \in 1 .. n
    BY <1>1
  <2> QED
    BY <1>4, <1>5, <1>8, <2>1, <2>2, <2>3
<1> QED
  BY <1>5, <1>6, <1>7, <1>8, <1>9, SeqEqual

\* Every step of the queue is a step of the hand-off or leaves its state alone.
LEMMA NextRefines == IInv /\ [Next]_vars => [H!HNext]_H!hvars
<1> SUFFICES ASSUME IInv, [Next]_vars PROVE [H!HNext]_H!hvars
  OBVIOUS
<1>k. Offered = H!Known
  BY DEF Offered, H!Known
<1>s. Len(Pending) = Sz - avail
  BY PendingSeq
<1>u. (avail' = avail /\ deqpos' = deqpos /\ jobs' = jobs) => Pending' = Pending
  BY DEF Pending, SlotAt
<1>1. ASSUME NEW j \in Jobs, JobQueue_enqueue_full(j) PROVE H!Refuse(j)
  BY <1>1, <1>k, <1>s, <1>u, SzAssumption DEF JobQueue_enqueue_full, queue, H!Refuse
<1>2. ASSUME NEW j \in Jobs, JobQueue_enqueue(j) PROVE H!Accept(j)
  <2>1. Len(Pending) < Sz
    BY <1>2, <1>s, SzAssumption DEF JobQueue_enqueue, IInv, TypeOK
  <2> QED
    BY <1>2, <1>k, <2>1, EnqueueAppends DEF JobQueue_enqueue, H!Accept
<1>3. ASSUME NEW w \in Workers, JobQueue_dequeue(w) PROVE H!Take(w)
  <2>1. running[w] = NULL
    BY <1>3 DEF JobQueue_dequeue, IInv, QueueConsistent, RunningHoldsJob
  <2> QED
    BY <1>3, <2>1, DequeueTakesHead DEF JobQueue_dequeue, H!Take
<1>4. ASSUME NEW w \in Workers, Worker_run(w) PROVE H!Finish(w)
  <2>1. running[w] # NULL
    BY <1>4 DEF Worker_run, IInv, QueueConsistent, RunningHoldsJob
  <2> QED
    BY <1>4, <1>u, <2>1 DEF Worker_run, queue, H!Finish
<1>5. ASSUME NEW w \in Workers, JobQueue_dequeue_wait(w) PROVE UNCHANGED H!hvars
  BY <1>5, <1>u DEF JobQueue_dequeue_wait, H!hvars
<1>6. CASE UNCHANGED vars
  BY <1>6, <1>u DEF vars, H!hvars
<1> QED
  BY <1>1, <1>2, <1>3, <1>4, <1>5, <1>6 DEF Next, Enqueue, WorkerStep, H!HNext

\* The mutex build of the job queue implements the bounded FIFO hand-off for
\* every queue size: a job is refused only when Sz jobs are queued, and every
\* job taken over goes to exactly one pool thread, in the order of enqueuing.
THEOREM Refinement == Spec => ImplementsHandoff
<1>1. Init => H!HInit
  BY SzAssumption DEF Init, JobQueue_create, H!HInit, Pending
<1>2. (TypeOK /\ QueueConsistent) /\ [Next]_vars => [H!HNext]_H!hvars
  BY NextRefines DEF IInv
<1> QED
  BY <1>1, <1>2, Invariance, PTL DEF Spec, ImplementsHandoff, H!HSpec

-----------------------------------------------------------------------------
(* The resolver *)

\* A resolver starts without a job and without names.
LEMMA ResInitial == ResInit => ResInv
<1> SUFFICES ASSUME ResInit PROVE ResInv
  OBVIOUS
<1>1. IsFiniteSet({})
  BY FS_EmptySet
<1>2. ResTypeOK
  BY <1>1 DEF ResInit, ResTypeOK, Resolvers, ThreadJobs, NoJob
<1> QED
  BY <1>2 DEF ResInit, ResInv, JobKeeps, MarkedWhenDead, OneOwed, NoJob

\* PSC_Resolver_addAddr adds one address, which has no name yet.
LEMMA ResAdds == ResInv /\ PSC_Resolver_addAddr => ResInv'
<1> SUFFICES ASSUME ResInv, PSC_Resolver_addAddr PROVE ResInv'
  OBVIOUS
<1> USE DEF ResInv
<1>1. IsFiniteSet(Entries)
  BY FS_Union DEF ResTypeOK, Resolvers, ThreadJobs, Entries
<1>2. Cardinality(Entries) + 1 \in Nat
  BY <1>1, FS_CardinalityType
<1>3. PICK c \in Nat : resolver' = [resolver EXCEPT !.unnamed = @ \cup {c}]
  BY <1>2 DEF PSC_Resolver_addAddr
<1>4. IsFiniteSet(resolver.unnamed \cup {c})
  BY FS_AddElement DEF ResTypeOK, Resolvers, ThreadJobs
<1>5. UNCHANGED <<job, user, hist>>
  BY DEF PSC_Resolver_addAddr
<1>6. /\ resolver'.life = resolver.life /\ resolver'.pool = resolver.pool
      /\ resolver'.job = resolver.job
      /\ resolver'.handling = resolver.handling /\ resolver'.names = resolver.names
      /\ resolver'.unnamed = resolver.unnamed \cup {c}
  BY <1>3 DEF ResTypeOK, Resolvers, ThreadJobs
<1>7. ResTypeOK'
  BY <1>3, <1>4, <1>5, <1>6 DEF ResTypeOK, Resolvers, ThreadJobs
<1> QED
  BY <1>5, <1>6, <1>7 DEF JobKeeps, MarkedWhenDead, OneOwed

\* A resolve, as a job or at once.
LEMMA ResResolves ==
    ASSUME NEW forceAsync \in BOOLEAN, NEW room \in BOOLEAN,
           ResInv, PSC_Resolver_resolve(forceAsync, room)
    PROVE  ResInv'
<1> USE DEF ResInv
<1>1. CASE PoolActive /\ room
  <2>1. /\ resolver' = [resolver EXCEPT !.job = TRUE]
        /\ job' = [at |-> "queued", hasCompleted |-> TRUE, left |-> resolver.unnamed]
        /\ hist' = [hist EXCEPT !.owed = 1, !.raised = 0] /\ user' = user
        /\ ~user.dead /\ resolver.life = "live" /\ ~resolver.job
        /\ job.at = "none" /\ user.at = "out"
    BY <1>1 DEF PSC_Resolver_resolve, Calls
  <2>2. /\ resolver'.life = resolver.life /\ resolver'.pool = resolver.pool
        /\ resolver'.job = TRUE
        /\ resolver'.handling = resolver.handling
        /\ resolver'.names = resolver.names /\ resolver'.unnamed = resolver.unnamed
        /\ job'.at = "queued" /\ hist'.owed = 1 /\ hist'.raised = 0 /\ hist'.bad = hist.bad
    BY <2>1 DEF ResTypeOK, Resolvers, ThreadJobs
  <2>3. ResTypeOK'
    BY <2>1, <2>2 DEF ResTypeOK, Resolvers, ThreadJobs
  <2> QED
    BY <2>1, <2>2, <2>3 DEF JobKeeps, MarkedWhenDead, OneOwed
<1>2. CASE ~(PoolActive /\ room)
  <2>1. PICK found \in SUBSET resolver.unnamed :
           resolver' = [resolver EXCEPT !.names = @ \cup found, !.unnamed = @ \ found]
    BY <1>2 DEF PSC_Resolver_resolve
  <2>2. /\ user' = [user EXCEPT !.at = "syncdone"] /\ job' = job
        /\ hist' = [hist EXCEPT !.owed = 1, !.raised = 1]
        /\ ~user.dead /\ resolver.life = "live" /\ ~resolver.job
        /\ job.at = "none" /\ user.at = "out"
    BY <1>2 DEF PSC_Resolver_resolve, Calls
  <2>3. IsFiniteSet(found) /\ IsFiniteSet(resolver.unnamed \ found)
    BY FS_Subset DEF ResTypeOK, Resolvers, ThreadJobs
  <2>4. IsFiniteSet(resolver.names \cup found)
    BY <2>3, FS_Union DEF ResTypeOK, Resolvers, ThreadJobs
  <2>5. /\ resolver'.life = resolver.life /\ resolver'.pool = resolver.pool
        /\ resolver'.job = resolver.job
        /\ resolver'.handling = resolver.handling
        /\ resolver'.names = resolver.names \cup found
        /\ resolver'.unnamed = resolver.unnamed \ found
    BY <2>1 DEF ResTypeOK, Resolvers, ThreadJobs
  <2>6. ResTypeOK'
    <3>1. resolver' \in Resolvers
      BY <2>1 DEF ResTypeOK, Resolvers
    <3>2. /\ user' \in [at : {"out", "done", "syncdone"}, dead : BOOLEAN]
          /\ hist' \in [owed : {0, 1}, raised : {0, 1}, bad : BOOLEAN]
      BY <2>2 DEF ResTypeOK
    <3> QED
      BY <2>2, <2>3, <2>4, <2>5, <3>1, <3>2 DEF ResTypeOK
  <2>7. /\ user'.at = "syncdone" /\ user'.dead = user.dead
        /\ hist'.owed = 1 /\ hist'.raised = 1 /\ hist'.bad = hist.bad
    BY <2>2 DEF ResTypeOK, Resolvers, ThreadJobs
  <2> QED
    BY <2>2, <2>5, <2>6, <2>7 DEF JobKeeps, MarkedWhenDead, OneOwed
<1> QED
  BY <1>1, <1>2

\* The pool thread takes the job, and ends it.
LEMMA ResJobMoves == ResInv /\ (jobStarts \/ jobEnds) => ResInv'
  BY DEF ResInv, jobStarts, jobEnds, ResTypeOK, Resolvers, ThreadJobs, JobKeeps, MarkedWhenDead, OneOwed

\* One address on the pool thread: the job keeps the resolver alive.
LEMMA ResProc ==
    ASSUME NEW e \in 1 .. MaxAddrs, NEW found \in BOOLEAN, ResInv, resolveProc(e, found)
    PROVE  ResInv'
<1> USE DEF ResInv
<1>1. /\ hist' = hist /\ user' = user /\ resolver.life = "live"
  BY DEF resolveProc, ResTypeOK, Resolvers, ThreadJobs, JobKeeps
<1>2. CASE resolver' = resolver
  BY <1>1, <1>2 DEF resolveProc, ResTypeOK, Resolvers, ThreadJobs, JobKeeps, MarkedWhenDead, OneOwed
<1>3. CASE resolver' = [resolver EXCEPT !.names = @ \cup {e}, !.unnamed = @ \ {e}]
  <2>1. job' = [job EXCEPT !.left = @ \ {e}] \/ job' = [job EXCEPT !.left = {}]
    BY DEF resolveProc
  <2>2. IsFiniteSet(resolver.names \cup {e}) /\ IsFiniteSet(resolver.unnamed \ {e})
    BY FS_AddElement, FS_Subset DEF ResTypeOK, Resolvers, ThreadJobs
  <2>3. /\ resolver'.life = resolver.life /\ resolver'.pool = resolver.pool
        /\ resolver'.job = resolver.job
        /\ resolver'.handling = resolver.handling
        /\ resolver'.names = resolver.names \cup {e} /\ resolver'.unnamed = resolver.unnamed \ {e}
    BY <1>3 DEF ResTypeOK, Resolvers, ThreadJobs
  <2>4. e \in Nat
    OBVIOUS
  <2>5. ResTypeOK'
    <3>1. resolver' \in Resolvers
      BY <1>3, <2>4 DEF ResTypeOK, Resolvers
    <3>2. job' \in ThreadJobs
      BY <2>1 DEF ResTypeOK, ThreadJobs
    <3> QED
      BY <1>1, <2>2, <2>3, <3>1, <3>2 DEF ResTypeOK
  <2>6. job.at = "running" /\ job'.at = "running"
    BY <2>1 DEF resolveProc, ResTypeOK, Resolvers, ThreadJobs
  <2> QED
    BY <1>1, <2>3, <2>5, <2>6 DEF JobKeeps, MarkedWhenDead, OneOwed
<1> QED
  BY <1>2, <1>3 DEF resolveProc

\* PSC_Resolver_destroy marks, cancels or frees, as the resolver is being told,
\* has a job, or neither.
LEMMA ResDestroys == "destroy" \notin InHandler /\ ResInv /\ UserDestroys => ResInv'
<1> SUFFICES ASSUME "destroy" \notin InHandler, ResInv, UserDestroys PROVE ResInv'
  OBVIOUS
<1> USE DEF ResInv
<1>1. /\ ~user.dead /\ resolver.life = "live" /\ user.at # "syncdone"
      /\ user' = [user EXCEPT !.dead = TRUE] /\ hist' = hist
      /\ resolver' = PSC_Resolver_destroy(resolver)
      /\ job' = IF resolver.job /\ resolver.handling = 0 THEN [job EXCEPT !.hasCompleted = FALSE]
                ELSE job
  BY DEF UserDestroys, Calls
<1>2. user'.at = user.at /\ user'.dead = TRUE /\ job'.at = job.at
  BY <1>1 DEF ResTypeOK, Resolvers, ThreadJobs
<1>3. CASE resolver.handling # 0
  <2>1. resolver' = [resolver EXCEPT !.handling = 2] /\ job' = job /\ user.at = "done"
    BY <1>1, <1>3 DEF PSC_Resolver_destroy, MarkedWhenDead
  <2>2. /\ resolver'.life = resolver.life /\ resolver'.pool = resolver.pool
        /\ resolver'.job = resolver.job
        /\ resolver'.names = resolver.names /\ resolver'.unnamed = resolver.unnamed
        /\ resolver'.handling = 2
    BY <2>1 DEF ResTypeOK, Resolvers, ThreadJobs
  <2>3. ResTypeOK'
    <3>1. resolver' \in Resolvers
      BY <1>1, <2>1, <2>2 DEF ResTypeOK, Resolvers
    <3>2. job' \in ThreadJobs
      BY <1>1, <2>1, <2>2 DEF ResTypeOK, ThreadJobs
    <3>3. /\ user' \in [at : {"out", "done", "syncdone"}, dead : BOOLEAN]
          /\ hist' \in [owed : {0, 1}, raised : {0, 1}, bad : BOOLEAN]
      BY <1>1, <2>1, <2>2 DEF ResTypeOK
    <3> QED
      BY <1>1, <2>1, <2>2, <3>1, <3>2, <3>3 DEF ResTypeOK
  <2> QED
    BY <1>1, <1>2, <2>1, <2>2, <2>3 DEF JobKeeps, MarkedWhenDead, OneOwed
<1>4. CASE resolver.handling = 0 /\ resolver.job
  <2>1. resolver' = [resolver EXCEPT !.pool = FALSE] /\ user.at = "out" /\ job.at # "none"
    BY <1>1, <1>4 DEF PSC_Resolver_destroy, MarkedWhenDead, JobKeeps, ResTypeOK, Resolvers, ThreadJobs
  <2>2. /\ resolver'.life = resolver.life /\ resolver'.pool = FALSE /\ resolver'.job = resolver.job
        /\ resolver'.names = resolver.names /\ resolver'.unnamed = resolver.unnamed
        /\ resolver'.handling = resolver.handling
    BY <2>1 DEF ResTypeOK, Resolvers, ThreadJobs
  <2>3. ResTypeOK'
    BY <1>1, <1>4, <2>1, <2>2 DEF ResTypeOK, Resolvers, ThreadJobs
  <2> QED
    BY <1>1, <1>2, <1>4, <2>1, <2>2, <2>3 DEF JobKeeps, MarkedWhenDead, OneOwed
<1>5. CASE resolver.handling = 0 /\ ~resolver.job
  <2>1. /\ resolver' = [resolver EXCEPT !.pool = FALSE, !.life = "freed"]
        /\ job' = job /\ job.at = "none" /\ user.at = "out"
    BY <1>1, <1>5 DEF PSC_Resolver_destroy, JobKeeps, ResTypeOK, Resolvers, ThreadJobs
  <2>2. /\ resolver'.life = "freed" /\ resolver'.pool = FALSE /\ resolver'.job = resolver.job
        /\ resolver'.names = resolver.names /\ resolver'.unnamed = resolver.unnamed
        /\ resolver'.handling = resolver.handling
    BY <2>1 DEF ResTypeOK, Resolvers, ThreadJobs
  <2>3. ResTypeOK'
    BY <1>1, <2>1, <2>2 DEF ResTypeOK, Resolvers, ThreadJobs
  <2> QED
    BY <1>1, <1>2, <1>5, <2>1, <2>2, <2>3 DEF JobKeeps, MarkedWhenDead, OneOwed
<1> QED
  BY <1>3, <1>4, <1>5

\* The job is finished, and the done event raised unless it was canceled.
LEMMA ResFinishes == ResInv /\ resolveDone => ResInv'
<1> SUFFICES ASSUME ResInv, resolveDone PROVE ResInv'
  OBVIOUS
<1> USE DEF ResInv
<1>1. /\ job.at = "left" /\ user.at = "out" /\ resolver.life = "live" /\ resolver.job
      /\ hist.owed = 1 /\ hist.raised = 0 /\ hist.bad = FALSE /\ resolver.handling = 0
      /\ resolver.pool <=> ~user.dead
  BY DEF resolveDone, JobKeeps, MarkedWhenDead, OneOwed, ResTypeOK
<1>2. job' = NoJob /\ job'.at = "none"
  BY DEF resolveDone, NoJob
<1>3. CASE ~resolver.pool
  <2>1. /\ resolver' = [resolver EXCEPT !.life = "freed"] /\ user' = user
        /\ hist' = [hist EXCEPT !.bad = hist.bad \/ resolver.life = "freed"]
    BY <1>3 DEF resolveDone
  <2>2. /\ resolver'.life = "freed" /\ resolver'.pool = resolver.pool
        /\ resolver'.job = resolver.job
        /\ resolver'.names = resolver.names /\ resolver'.unnamed = resolver.unnamed
        /\ resolver'.handling = resolver.handling
        /\ hist'.owed = 1 /\ hist'.raised = 0 /\ ~hist'.bad
    BY <1>1, <2>1 DEF ResTypeOK, Resolvers, ThreadJobs
  <2>3. ResTypeOK'
    BY <1>1, <1>2, <2>1, <2>2 DEF ResTypeOK, Resolvers, ThreadJobs, NoJob
  <2> QED
    BY <1>1, <1>2, <1>3, <2>1, <2>2, <2>3 DEF JobKeeps, MarkedWhenDead, OneOwed
<1>4. CASE resolver.pool /\ job.hasCompleted
  <2>1. /\ resolver' = [resolver EXCEPT !.handling = 1] /\ user' = [user EXCEPT !.at = "done"]
        /\ hist' = [hist EXCEPT !.raised = 1, !.bad = FALSE]
    <3>1. /\ resolver' = [resolver EXCEPT !.handling = 1] /\ user' = [user EXCEPT !.at = "done"]
          /\ hist' = [hist EXCEPT !.raised = hist.raised + 1,
                                  !.bad = hist.bad \/ user.dead \/ resolver.life = "freed"]
      BY <1>4 DEF resolveDone
    <3>2. (hist.bad \/ user.dead \/ resolver.life = "freed") = FALSE
      BY <1>1, <1>4
    <3>3. hist.raised + 1 = 1
      BY <1>1
    <3> QED
      BY <3>1, <3>2, <3>3, Zenon
  <2>2. /\ resolver'.life = resolver.life /\ resolver'.pool = resolver.pool
        /\ resolver'.job = resolver.job
        /\ resolver'.names = resolver.names /\ resolver'.unnamed = resolver.unnamed
        /\ resolver'.handling = 1 /\ user'.at = "done" /\ user'.dead = user.dead
        /\ hist'.owed = 1 /\ hist'.raised = 1
    BY <1>1, <2>1 DEF ResTypeOK, Resolvers, ThreadJobs
  <2>3. ~hist'.bad
    BY <1>1, <1>4, <2>1 DEF ResTypeOK, Resolvers, ThreadJobs
  <2>4. ResTypeOK'
    <3>1. resolver' \in Resolvers
      BY <1>1, <1>2, <2>1, <2>2 DEF ResTypeOK, Resolvers
    <3>2. job' \in ThreadJobs
      BY <1>1, <1>2, <2>1, <2>2 DEF ResTypeOK, ThreadJobs, NoJob
    <3>3. /\ user' \in [at : {"out", "done", "syncdone"}, dead : BOOLEAN]
          /\ hist' \in [owed : {0, 1}, raised : {0, 1}, bad : BOOLEAN]
      BY <1>1, <1>2, <2>1, <2>2 DEF ResTypeOK
    <3> QED
      BY <1>1, <1>2, <2>1, <2>2, <3>1, <3>2, <3>3 DEF ResTypeOK
  <2> QED
    BY <1>1, <1>2, <1>4, <2>2, <2>3, <2>4 DEF JobKeeps, MarkedWhenDead, OneOwed
<1>5. CASE resolver.pool /\ ~job.hasCompleted
  <2>1. resolver' = [resolver EXCEPT !.job = FALSE] /\ user' = user /\ hist' = hist
    BY <1>5 DEF resolveDone
  <2>2. /\ resolver'.life = resolver.life /\ resolver'.pool = resolver.pool
        /\ resolver'.job = FALSE
        /\ resolver'.names = resolver.names /\ resolver'.unnamed = resolver.unnamed
        /\ resolver'.handling = resolver.handling
    BY <1>1, <2>1 DEF ResTypeOK, Resolvers, ThreadJobs
  <2>3. ResTypeOK'
    BY <1>1, <1>2, <2>1, <2>2 DEF ResTypeOK, Resolvers, ThreadJobs, NoJob
  <2> QED
    BY <1>1, <1>2, <1>5, <2>1, <2>2, <2>3 DEF JobKeeps, MarkedWhenDead, OneOwed
<1> QED
  BY <1>3, <1>4, <1>5

\* The handlers of the done event return.
LEMMA ResReturns == ResInv /\ (doneReturns \/ syncReturns) => ResInv'
<1> SUFFICES ASSUME ResInv, doneReturns \/ syncReturns PROVE ResInv'
  OBVIOUS
<1> USE DEF ResInv
<1>1. /\ user' = [user EXCEPT !.at = "out"] /\ job' = job
      /\ user'.at = "out" /\ user'.dead = user.dead
      /\ job.at = "none" /\ resolver.life = "live"
  BY DEF doneReturns, syncReturns, ResTypeOK, Resolvers, ThreadJobs, JobKeeps
<1>2. CASE syncReturns
  <2>1. /\ resolver' = resolver /\ hist' = [hist EXCEPT !.bad = hist.bad \/ resolver.life = "freed"]
        /\ user.at = "syncdone"
    BY <1>2 DEF syncReturns
  <2>2. hist' = hist
    BY <1>1, <2>1 DEF ResTypeOK, Resolvers, ThreadJobs
  <2>3. ResTypeOK'
    BY <1>1, <2>1, <2>2 DEF ResTypeOK, Resolvers, ThreadJobs
  <2> QED
    BY <1>1, <2>1, <2>2, <2>3 DEF JobKeeps, MarkedWhenDead, OneOwed
<1>3. CASE doneReturns
  <2>1. /\ hist' = hist /\ user.at = "done" /\ resolver.pool
    BY <1>3 DEF doneReturns, JobKeeps
  <2>2. CASE user.dead
    <3>1. resolver' = PSC_Resolver_destroy([resolver EXCEPT !.job = FALSE, !.handling = 0])
      BY <1>3, <2>1, <2>2 DEF doneReturns, MarkedWhenDead
    <3>2. resolver' = [resolver EXCEPT !.job = FALSE, !.handling = 0, !.pool = FALSE, !.life = "freed"]
      BY <3>1 DEF PSC_Resolver_destroy, ResTypeOK, Resolvers, ThreadJobs
    <3>3. /\ resolver'.life = "freed" /\ resolver'.pool = FALSE /\ resolver'.job = FALSE
          /\ resolver'.names = resolver.names /\ resolver'.unnamed = resolver.unnamed
          /\ resolver'.handling = 0
      BY <3>2 DEF ResTypeOK, Resolvers, ThreadJobs
    <3>4. ResTypeOK'
      <4>1. resolver' \in Resolvers
        BY <3>2 DEF ResTypeOK, Resolvers
      <4>2. job' \in ThreadJobs
        BY <1>1, <2>1, <3>2, <3>3 DEF ResTypeOK, ThreadJobs
      <4>3. /\ user' \in [at : {"out", "done", "syncdone"}, dead : BOOLEAN]
            /\ hist' \in [owed : {0, 1}, raised : {0, 1}, bad : BOOLEAN]
        BY <1>1, <2>1, <3>2, <3>3 DEF ResTypeOK
      <4> QED
        BY <1>1, <2>1, <3>2, <3>3, <4>1, <4>2, <4>3 DEF ResTypeOK
    <3> QED
      BY <1>1, <2>1, <2>2, <3>3, <3>4 DEF JobKeeps, MarkedWhenDead, OneOwed
  <2>3. CASE ~user.dead
    <3>1. resolver' = [resolver EXCEPT !.job = FALSE, !.handling = 0]
      BY <1>3, <2>1, <2>3 DEF doneReturns, MarkedWhenDead
    <3>2. /\ resolver'.life = resolver.life /\ resolver'.pool = resolver.pool
          /\ resolver'.job = FALSE
          /\ resolver'.names = resolver.names /\ resolver'.unnamed = resolver.unnamed
          /\ resolver'.handling = 0
      BY <3>1 DEF ResTypeOK, Resolvers, ThreadJobs
    <3>3. ResTypeOK'
      <4>1. resolver' \in Resolvers
        BY <3>1 DEF ResTypeOK, Resolvers
      <4>2. job' \in ThreadJobs
        BY <1>1, <2>1, <3>1, <3>2 DEF ResTypeOK, ThreadJobs
      <4>3. /\ user' \in [at : {"out", "done", "syncdone"}, dead : BOOLEAN]
            /\ hist' \in [owed : {0, 1}, raised : {0, 1}, bad : BOOLEAN]
        BY <1>1, <2>1, <3>1, <3>2 DEF ResTypeOK
      <4> QED
        BY <1>1, <2>1, <3>1, <3>2, <4>1, <4>2, <4>3 DEF ResTypeOK
    <3> QED
      BY <1>1, <2>1, <2>3, <3>2, <3>3 DEF JobKeeps, MarkedWhenDead, OneOwed
  <2> QED
    BY <2>2, <2>3
<1> QED
  BY <1>2, <1>3

\* resolver.c: a resolver destroyed while its job is queued, runs or waits to be
\* finished, or in the done handler of a job, is not used after it is freed, nor is
\* its done event raised.  Destroying it in the handler of a synchronous resolve is
\* excluded: there PSC_Event_raise goes on with a freed event.
THEOREM ResolverSafety == "destroy" \notin InHandler => (ResSpec => []ResolverNotFreed)
<1> SUFFICES ASSUME "destroy" \notin InHandler PROVE ResSpec => []ResolverNotFreed
  OBVIOUS
<1>1. ResInv /\ [ResNext]_rvars => ResInv'
  <2> SUFFICES ASSUME ResInv, [ResNext]_rvars PROVE ResInv'
    OBVIOUS
  <2>1. CASE UNCHANGED rvars
    BY <2>1 DEF rvars, ResInv, ResTypeOK, Resolvers, ThreadJobs, JobKeeps, MarkedWhenDead, OneOwed
  <2> QED
    BY <2>1, ResAdds, ResResolves, ResJobMoves, ResProc, ResDestroys, ResFinishes, ResReturns
       DEF ResNext
<1>2. ResInv => ResolverNotFreed
  BY DEF ResInv, ResolverNotFreed
<1> QED
  BY <1>1, <1>2, ResInitial, PTL DEF ResSpec

-----------------------------------------------------------------------------
(* Child processes *)

\* Every command names an object.
LEMMA CommandHasObject == ASSUME NEW c \in Commands PROVE c.p \in Procs
  BY DEF Commands

\* What is left of a queue when its head was taken.
LEMMA TailIs ==
    ASSUME NEW S, NEW s \in Seq(S), s # <<>>
    PROVE  /\ Tail(s) \in Seq(S) /\ 1 \in DOMAIN s /\ Head(s) = s[1]
           /\ \A k \in DOMAIN Tail(s) : k \in Nat /\ k + 1 \in DOMAIN s /\ Tail(s)[k] = s[k + 1]
  OBVIOUS

\* The elements of a queue that others were put behind.
LEMMA JoinIs ==
    ASSUME NEW S, NEW s \in Seq(S), NEW t \in Seq(S)
    PROVE  /\ s \o t \in Seq(S)
           /\ \A k \in DOMAIN (s \o t) : \/ k \in DOMAIN s /\ (s \o t)[k] = s[k]
                                        \/ /\ \A l \in DOMAIN s : l < k
                                           /\ \E l \in DOMAIN t : (s \o t)[k] = t[l]
           /\ \A k \in DOMAIN s : k \in DOMAIN (s \o t) /\ (s \o t)[k] = s[k]
<1>1. /\ s \o t \in Seq(S) /\ Len(s \o t) = Len(s) + Len(t)
      /\ \A k \in 1 .. Len(s) + Len(t) :
            (s \o t)[k] = IF k <= Len(s) THEN s[k] ELSE t[k - Len(s)]
  OBVIOUS
<1>2. DOMAIN s = 1 .. Len(s) /\ DOMAIN t = 1 .. Len(t) /\ DOMAIN (s \o t) = 1 .. Len(s) + Len(t)
  BY <1>1
<1> QED
  BY <1>1, <1>2

\* An object that does not change fits as before.
LEMMA ObjectKept ==
    ASSUME NEW q \in Procs, proc'[q] = proc[q], child'[q].state = child[q].state,
           seen'.asked = seen.asked, ObjectFits(q)
    PROVE  ObjectFits(q)'
  BY DEF ObjectFits

\* The requests for the main thread are the same.
LEMMA AskedKept ==
    ASSUME ProcTypeOK, AskedOnce, mainq' = mainq, seen'.asked = seen.asked,
           \A q \in Procs : proc[q].status = "none" => proc'[q].status = "none"
    PROVE  AskedOnce'
  BY DEF AskedOnce, ProcTypeOK

\* Pids and handlers are the same.
LEMMA PidsKept ==
    ASSUME PidsApart, reg' = reg,
           \A q \in Procs : /\ proc'[q].pid = proc[q].pid
                            /\ child'[q].state = "none" <=> child[q].state = "none"
    PROVE  PidsApart'
  BY DEF PidsApart

\* A command fits as before.
LEMMA CommandKept ==
    ASSUME NEW c \in Commands, CommandFits(c),
           /\ proc'[c.p].life = proc[c.p].life /\ proc'[c.p].status = proc[c.p].status
           /\ proc'[c.p].pid = proc[c.p].pid,
           child[c.p].state \in {"none", "reaped"} => child'[c.p].state = child[c.p].state
    PROVE  CommandFits(c)'
  BY DEF CommandFits

\* Commands are taken from the front and the others fit as before.
LEMMA CommandsKept ==
    ASSUME ProcTypeOK, CommandsFit, thrq' = thrq \/ (thrq # <<>> /\ thrq' = Tail(thrq)),
           \A c \in Commands : \A k \in DOMAIN thrq :
              c = thrq[k] /\ (thrq' = thrq \/ k # 1) => CommandFits(c)'
    PROVE  CommandsFit'
<1>1. thrq \in Seq(Commands)
  BY DEF ProcTypeOK
<1>2. CASE thrq' = thrq
  <2>1. \A k \in DOMAIN thrq' : \A c : c = thrq'[k] => CommandFits(c)'
    BY <1>1, <1>2
  <2> QED
    BY <1>2, <2>1 DEF CommandsFit, CommandFits
<1>3. CASE thrq' # thrq
  <2>1. thrq # <<>> /\ thrq' = Tail(thrq)
    BY <1>3
  <2>2. \A k \in DOMAIN thrq' : k \in Nat /\ k + 1 \in DOMAIN thrq /\ thrq'[k] = thrq[k + 1]
    BY <1>1, <2>1, TailIs
  <2>3. \A k \in DOMAIN thrq' : k + 1 # 1 /\ thrq[k + 1] \in Commands
    BY <1>1, <2>2
  <2>4. \A k \in DOMAIN thrq' : \A c : c = thrq'[k] => CommandFits(c)'
    BY <2>2, <2>3
  <2>5. ASSUME NEW k \in DOMAIN thrq', thrq'[k].run # "createpipeconn",
               NEW l \in DOMAIN thrq', thrq'[l].p = thrq'[k].p
        PROVE  l <= k
    <3>1. l + 1 <= k + 1
      BY <2>2, <2>5 DEF CommandsFit
    <3> QED
      BY <2>2, <3>1
  <2> QED
    BY <2>4, <2>5 DEF CommandsFit, CommandFits
<1> QED
  BY <1>2, <1>3

\* No object was run when the threads start.
LEMMA ProcInitial == ProcAssumption /\ ProcInit => ProcInv
<1> SUFFICES ASSUME ProcAssumption, ProcInit PROVE ProcInv
  OBVIOUS
<1>1. PICK pipes \in [Procs -> PipeSets] : proc = [p \in Procs |-> Created(pipes[p])]
  BY DEF ProcInit
<1>2. \A p \in Procs : Created(pipes[p]) \in Objects
  BY <1>1 DEF ProcAssumption, Created, Objects
<1>3. proc \in [Procs -> Objects]
  BY <1>1, <1>2
<1>4. \A p \in Procs : /\ proc[p].status = "none" /\ proc[p].streams = {} /\ proc[p].done = 0
                       /\ proc[p].life = "live" /\ child[p].state = "none"
  BY <1>1 DEF ProcInit, Created
<1>5. ProcTypeOK
  BY <1>3 DEF ProcInit, ProcTypeOK
<1>6. ObjectsFit
  BY <1>4 DEF ObjectsFit, ObjectFits
<1>7. AskedOnce /\ CommandsFit /\ ~seen.freed /\ PidsApart
  BY <1>4 DEF ProcInit, AskedOnce, CommandsFit, PidsApart
<1> QED
  BY <1>5, <1>6, <1>7 DEF ProcInv

\* PSC_Process_exec and PSC_Process_run ask the main thread once.
LEMMA ProcExec == ASSUME NEW p \in Procs, ProcInv, PSC_Process_exec(p) PROVE ProcInv'
<1> USE DEF ProcInv
<1>1. /\ p \notin seen.asked /\ mainq' = Append(mainq, p)
      /\ seen' = [seen EXCEPT !.asked = seen.asked \cup {p}]
      /\ proc' = proc /\ child' = child /\ thrq' = thrq /\ reg' = reg
  BY DEF PSC_Process_exec
<1>2. /\ seen'.asked = seen.asked \cup {p} /\ seen'.freed = seen.freed
      /\ seen' \in [freed : BOOLEAN, asked : SUBSET Procs]
  BY <1>1 DEF ProcTypeOK
<1>3. /\ mainq' \in Seq(Procs) /\ DOMAIN mainq = 1 .. Len(mainq)
      /\ DOMAIN mainq' = 1 .. Len(mainq) + 1 /\ Len(mainq) \in Nat
      /\ \A k \in DOMAIN mainq : mainq'[k] = mainq[k]
      /\ mainq'[Len(mainq) + 1] = p
  BY <1>1 DEF ProcTypeOK
<1>4. ProcTypeOK'
  BY <1>1, <1>2, <1>3 DEF ProcTypeOK
<1>5. AskedOnce'
  <2>1. proc[p].status = "none"
    BY <1>1 DEF ObjectsFit, ObjectFits
  <2>2. \A k \in DOMAIN mainq' : k \in DOMAIN mainq \/ k = Len(mainq) + 1
    BY <1>3
  <2>3. \A k \in DOMAIN mainq : mainq[k] # p
    BY <1>1 DEF AskedOnce
  <2>4. \A k \in DOMAIN mainq' : mainq'[k] \in seen'.asked /\ proc'[mainq'[k]].status = "none"
    BY <1>1, <1>2, <1>3, <2>1, <2>2 DEF AskedOnce
  <2>5. \A k, l \in DOMAIN mainq' : mainq'[l] = mainq'[k] => l = k
    BY <1>3, <2>2, <2>3 DEF AskedOnce
  <2> QED
    BY <2>4, <2>5 DEF AskedOnce
<1>6. ObjectsFit'
  BY <1>1, <1>2 DEF ObjectsFit, ObjectFits
<1>7. PidsApart'
  BY <1>1 DEF PidsApart
<1>8. CommandsFit'
  BY <1>1 DEF CommandsFit, CommandFits
<1> QED
  BY <1>2, <1>4, <1>5, <1>6, <1>7, <1>8

\* PSC_Process_stop starts the kill timer; it does not end the child.
LEMMA ProcStop ==
    ASSUME NEW p \in Procs, NEW ms, ProcInv, PSC_Process_stop(p, ms) PROVE ProcInv'
<1> USE DEF ProcInv
<1>1. /\ proc' = [proc EXCEPT ![p].killtimer = (ms # 0)]
      /\ child' = [child EXCEPT ![p].state = IF child[p].state = "runs" /\ FALSE THEN "zombie"
                                             ELSE child[p].state,
                                ![p].term = child[p].term \/ child[p].state = "runs"]
      /\ mainq' = mainq /\ thrq' = thrq /\ reg' = reg /\ seen' = seen
  BY DEF PSC_Process_stop, Kill
<1>2. /\ proc' \in [Procs -> Objects]
      /\ \A q \in Procs : /\ proc'[q].life = proc[q].life /\ proc'[q].pid = proc[q].pid
                          /\ proc'[q].status = proc[q].status /\ proc'[q].done = proc[q].done
                          /\ proc'[q].streams = proc[q].streams
  <2>1. PICK b \in BOOLEAN : proc' = [proc EXCEPT ![p].killtimer = b]
    BY <1>1
  <2>2. PICK o : o = [proc[p] EXCEPT !.killtimer = b]
    OBVIOUS
  <2>3. /\ o \in Objects /\ o.life = proc[p].life /\ o.pid = proc[p].pid
        /\ o.status = proc[p].status /\ o.done = proc[p].done /\ o.streams = proc[p].streams
    BY <2>2 DEF ProcTypeOK, Objects
  <2>4. proc' = [proc EXCEPT ![p] = o]
    BY <2>1, <2>2
  <2> QED
    BY <2>3, <2>4 DEF ProcTypeOK
<1>3. /\ child' \in [Procs -> [state : {"none", "runs", "zombie", "reaped"}, term : BOOLEAN]]
      /\ \A q \in Procs : child'[q].state = child[q].state
  BY <1>1 DEF ProcTypeOK
<1>4. ProcTypeOK'
  BY <1>1, <1>2, <1>3 DEF ProcTypeOK
<1>5. AskedOnce'
  BY <1>1, <1>2, AskedKept
<1>6. ObjectsFit'
  BY <1>1, <1>2, <1>3 DEF ObjectsFit, ObjectFits
<1>7. PidsApart'
  BY <1>1, <1>2, <1>3, PidsKept
<1>8. \A c \in Commands : CommandFits(c) => CommandFits(c)'
  BY <1>2, <1>3, CommandHasObject, CommandKept
<1>9. CommandsFit'
  BY <1>1, <1>8, CommandsKept DEF CommandsFit
<1> QED
  BY <1>1, <1>4, <1>5, <1>6, <1>7, <1>9

\* The child ends, on its own, of SIGTERM or of SIGKILL.
LEMMA ProcChildEnds ==
    ASSUME NEW p \in Procs, ProcInv, forcekill(p) \/ childEnds(p) PROVE ProcInv'
<1> USE DEF ProcInv
<1>1. /\ proc' = proc /\ mainq' = mainq /\ thrq' = thrq /\ reg' = reg /\ seen' = seen
      /\ child[p].state = "runs"
  BY DEF forcekill, childEnds
<1>2. /\ child' \in [Procs -> [state : {"none", "runs", "zombie", "reaped"}, term : BOOLEAN]]
      /\ child'[p].state = "zombie"
      /\ \A q \in Procs : q # p => child'[q] = child[q]
  <2>1. CASE childEnds(p)
    BY <2>1 DEF childEnds, ProcTypeOK
  <2>2. CASE forcekill(p)
    <3>1. PICK b \in BOOLEAN : child' = [child EXCEPT ![p].state = "zombie", ![p].term = b]
      BY <1>1, <2>2 DEF forcekill, Kill
    <3> QED
      BY <3>1 DEF ProcTypeOK
  <2> QED
    BY <2>1, <2>2
<1>3. ProcTypeOK'
  BY <1>1, <1>2 DEF ProcTypeOK
<1>4. AskedOnce'
  BY <1>1, AskedKept
<1>5. ObjectsFit'
  BY <1>1, <1>2 DEF ObjectsFit, ObjectFits
<1>6. PidsApart'
  BY <1>1, <1>2, PidsKept
<1>7. \A c \in Commands : CommandFits(c) => CommandFits(c)'
  BY <1>1, <1>2, CommandHasObject, CommandKept
<1>8. CommandsFit'
  BY <1>1, <1>7, CommandsKept DEF CommandsFit
<1> QED
  BY <1>1, <1>3, <1>4, <1>5, <1>6, <1>8

\* Who works on an object that is there uses nothing that was freed.
LEMMA UseLive == ASSUME NEW p \in Procs, ProcInv, proc[p].life = "live" PROVE Use(p) = seen
<1>1. seen.freed = FALSE /\ seen \in [freed : BOOLEAN, asked : SUBSET Procs]
  BY DEF ProcInv, ProcTypeOK
<1>2. (seen.freed \/ proc[p].life = "freed") = FALSE
  BY <1>1
<1>3. Use(p) = [seen EXCEPT !.freed = FALSE]
  BY <1>2, Zenon DEF Use
<1> QED
  BY <1>1, <1>3

\* A step of the thread of the objects on p, which becomes o: when that changes what
\* the commands for p rely on, there are none but the one that is executed.
LEMMA ObjectStep ==
    ASSUME NEW p \in Procs, NEW o \in Objects, ProcInv,
           proc' = [proc EXCEPT ![p] = o], child' = child, mainq' = mainq, reg' = reg, seen' = seen,
           thrq' = thrq \/ (thrq # <<>> /\ thrq' = Tail(thrq)),
           o.pid = proc[p].pid, proc[p].status # "none", o.status # "none",
           child[p].state \in {"runs", "zombie"} => o.status = "running",
           o.status = "running" => child[p].state # "none",
           o.streams # {} => child[p].state # "none" /\ o.life = "live",
           o.life = "live" => o.done = 0,
           o.life = "freed" => o.status \in {"exited", "signaled"},
           \/ o.life = proc[p].life /\ o.status = proc[p].status
           \/ \A k \in DOMAIN thrq : thrq[k].p = p => thrq' # thrq /\ k = 1
    PROVE  ProcInv'
<1> USE DEF ProcInv
<1>1. /\ proc' \in [Procs -> Objects] /\ proc'[p] = o
      /\ \A q \in Procs : q # p => proc'[q] = proc[q]
  BY DEF ProcTypeOK
<1>2. thrq' \in Seq(Commands)
  <2>1. thrq \in Seq(Commands)
    BY DEF ProcTypeOK
  <2>2. thrq # <<>> => Tail(thrq) \in Seq(Commands)
    BY <2>1, TailIs
  <2> QED
    BY <2>1, <2>2
<1>3. ProcTypeOK'
  BY <1>1, <1>2 DEF ProcTypeOK
<1>4. AskedOnce'
  BY <1>1, AskedKept
<1>5. ObjectsFit'
  <2>1. ObjectFits(p)'
    BY <1>1 DEF ObjectsFit, ObjectFits
  <2>2. \A q \in Procs : q # p => ObjectFits(q)'
    BY <1>1, ObjectKept DEF ObjectsFit
  <2> QED
    BY <2>1, <2>2 DEF ObjectsFit
<1>6. PidsApart'
  BY <1>1, PidsKept
<1>7. ASSUME NEW c \in Commands, NEW k \in DOMAIN thrq, c = thrq[k], thrq' = thrq \/ k # 1
      PROVE  CommandFits(c)'
  <2>1. CommandFits(c) /\ c.p \in Procs
    BY <1>7, CommandHasObject DEF CommandsFit
  <2>2. /\ proc'[c.p].life = proc[c.p].life /\ proc'[c.p].status = proc[c.p].status
        /\ proc'[c.p].pid = proc[c.p].pid
    BY <1>1, <1>7, <2>1
  <2> QED
    BY <2>1, <2>2, CommandKept
<1>8. CommandsFit'
  BY <1>7, CommandsKept
<1> QED
  BY <1>3, <1>4, <1>5, <1>6, <1>8

\* The command the thread of the objects executes next.
LEMMA NextCommand ==
    ASSUME ProcInv, thrq # <<>>
    PROVE  /\ 1 \in DOMAIN thrq /\ Head(thrq) = thrq[1] /\ thrq[1] \in Commands
           /\ CommandFits(thrq[1])
           /\ thrq[1].run # "createpipeconn" => \A l \in DOMAIN thrq : thrq[l].p = thrq[1].p => l = 1
           /\ Tail(thrq) # thrq
<1>1. thrq \in Seq(Commands)
  BY DEF ProcInv, ProcTypeOK
<1>2. 1 \in DOMAIN thrq /\ Head(thrq) = thrq[1] /\ thrq[1] \in Commands
  BY <1>1
<1>3. \A l \in DOMAIN thrq : l \in Nat /\ l >= 1
  BY <1>1
<1>4. Len(Tail(thrq)) # Len(thrq)
  BY <1>1
<1> QED
  BY <1>2, <1>3, <1>4 DEF ProcInv, CommandsFit

\* A pipe is connected while the child's status is still awaited.
LEMMA ProcConnects ==
    ASSUME NEW p \in Procs, NEW i \in Streams, ProcInv, createpipeconn(p, i) PROVE ProcInv'
<1>1. /\ thrq # <<>> /\ Head(thrq) = [run |-> "createpipeconn", p |-> p, i |-> i]
      /\ thrq' = Tail(thrq) /\ proc' = [proc EXCEPT ![p].streams = proc[p].streams \cup {i}]
      /\ seen' = Use(p) /\ child' = child /\ mainq' = mainq /\ reg' = reg
  BY DEF createpipeconn
<1>2. thrq[1].run = "createpipeconn" /\ thrq[1].p = p /\ CommandFits(thrq[1])
  BY <1>1, NextCommand
<1>3. proc[p].life = "live" /\ proc[p].status = "running"
  BY <1>2 DEF CommandFits
<1>4. seen' = seen
  BY <1>1, <1>3, UseLive
<1>5. PICK o : o = [proc[p] EXCEPT !.streams = proc[p].streams \cup {i}]
  OBVIOUS
<1>6. /\ o \in Objects /\ o.pid = proc[p].pid /\ o.status = proc[p].status
      /\ o.life = proc[p].life /\ o.done = proc[p].done
  BY <1>5 DEF ProcInv, ProcTypeOK, Objects
<1>7. proc' = [proc EXCEPT ![p] = o]
  BY <1>1, <1>5
<1>8. ObjectFits(p)
  BY DEF ProcInv, ObjectsFit
<1> QED
  BY <1>1, <1>3, <1>4, <1>6, <1>7, <1>8, ObjectStep DEF ObjectFits

\* A stream is closed; the object goes when it was the last and the child has ended,
\* and then there is no command for it.
LEMMA ProcStreamCloses ==
    ASSUME NEW p \in Procs, NEW i \in Streams, ProcInv, streamClosed(p, i) PROVE ProcInv'
<1>1. /\ i \in proc[p].streams
      /\ proc' = [proc EXCEPT ![p] = tryDestroy([proc[p] EXCEPT !.streams = proc[p].streams \ {i}])]
      /\ seen' = Use(p) /\ child' = child /\ mainq' = mainq /\ thrq' = thrq /\ reg' = reg
  BY DEF streamClosed
<1>2. ObjectFits(p) /\ proc[p] \in Objects
  BY DEF ProcInv, ObjectsFit, ProcTypeOK
<1>3. /\ proc[p].life = "live" /\ child[p].state # "none" /\ proc[p].status # "none"
      /\ proc[p].done = 0
  BY <1>1, <1>2 DEF ObjectFits
<1>4. seen' = seen
  BY <1>1, <1>3, UseLive
<1>5. PICK s : s = [proc[p] EXCEPT !.streams = proc[p].streams \ {i}]
  OBVIOUS
<1>6. /\ s \in Objects /\ s.pid = proc[p].pid /\ s.status = proc[p].status /\ s.life = "live"
      /\ s.done = 0 /\ s.streams = proc[p].streams \ {i}
  BY <1>2, <1>3, <1>5 DEF Objects
<1>7. CASE s.status = "running" \/ s.streams # {}
  <2>1. proc' = [proc EXCEPT ![p] = s]
    BY <1>1, <1>5, <1>7 DEF tryDestroy
  <2> QED
    BY <1>1, <1>2, <1>3, <1>4, <1>6, <2>1, ObjectStep DEF ObjectFits
<1>8. CASE ~(s.status = "running" \/ s.streams # {})
  <2>1. PICK o : o = [s EXCEPT !.done = s.done + 1, !.life = "freed"]
    OBVIOUS
  <2>2. proc' = [proc EXCEPT ![p] = o]
    BY <1>1, <1>5, <1>8, <2>1 DEF tryDestroy
  <2>3. o = [s EXCEPT !.done = 1, !.life = "freed"]
    BY <1>6, <2>1
  <2>4. /\ o \in Objects /\ o.pid = s.pid /\ o.status = s.status /\ o.life = "freed"
        /\ o.streams = {}
    BY <1>6, <1>8, <2>3 DEF Objects
  <2>5. child[p].state = "reaped" /\ o.status \in {"exited", "signaled"}
    BY <1>2, <1>3, <1>6, <1>8, <2>4 DEF ObjectFits, ProcTypeOK, ProcInv, Objects
  <2>6. \A k \in DOMAIN thrq : thrq[k].p # p
    <3> SUFFICES ASSUME NEW k \in DOMAIN thrq, thrq[k].p = p PROVE FALSE
      OBVIOUS
    <3>1. CommandFits(thrq[k]) /\ thrq[k] \in Commands
      BY DEF ProcInv, CommandsFit, ProcTypeOK
    <3>2. thrq[k].run \in {"createpipeconn", "tryDestroy", "endprocess"}
      BY <3>1 DEF Commands
    <3> QED
      BY <1>6, <1>8, <2>5, <3>1, <3>2 DEF CommandFits
  <2> QED
    BY <1>1, <1>3, <1>4, <1>6, <2>2, <2>4, <2>5, <2>6, ObjectStep
<1> QED
  BY <1>7, <1>8

\* The child was waited for: its standard input is closed, its status is set, and the
\* object goes unless other streams are open.  The command was the last for it.
LEMMA ProcEnds == ASSUME NEW p \in Procs, ProcInv, endprocess(p) PROVE ProcInv'
<1>1. /\ thrq # <<>> /\ Head(thrq).run = "endprocess" /\ Head(thrq).p = p
      /\ thrq' = Tail(thrq)
      /\ proc' = IF Head(thrq).pid # proc[p].pid THEN proc
                 ELSE [proc EXCEPT ![p] = Ended(proc[p], Head(thrq).how)]
      /\ seen' = Use(p) /\ child' = child /\ mainq' = mainq /\ reg' = reg
  BY DEF endprocess
<1>2. /\ thrq[1].run = "endprocess" /\ thrq[1].p = p /\ CommandFits(thrq[1])
      /\ thrq[1] \in Commands /\ Head(thrq) = thrq[1] /\ thrq' # thrq
      /\ \A l \in DOMAIN thrq : thrq[l].p = p => l = 1
  BY <1>1, NextCommand
<1>3. /\ proc[p].life = "live" /\ proc[p].status = "running" /\ child[p].state = "reaped"
      /\ thrq[1].pid = proc[p].pid
  BY <1>2 DEF CommandFits
<1>4. PICK how \in {"exited", "signaled"} : proc' = [proc EXCEPT ![p] = Ended(proc[p], how)]
  <2>1. thrq[1].how \in {"exited", "signaled"}
    BY <1>2 DEF Commands
  <2> QED
    BY <1>1, <1>2, <1>3, <2>1
<1>5. ObjectFits(p) /\ proc[p] \in Objects
  BY DEF ProcInv, ObjectsFit, ProcTypeOK
<1>6. seen' = seen
  BY <1>1, <1>3, UseLive
<1>7. PICK s : s = IF 0 \in proc[p].streams
                   THEN tryDestroy([proc[p] EXCEPT !.streams = proc[p].streams \ {0}])
                   ELSE proc[p]
  OBVIOUS
<1>8. /\ s \in Objects /\ s.pid = proc[p].pid /\ s.life = "live" /\ s.done = 0
  BY <1>3, <1>5, <1>7 DEF Objects, tryDestroy, ObjectFits
<1>9. PICK e : e = [s EXCEPT !.killtimer = FALSE, !.status = how]
  OBVIOUS
<1>10. e \in Objects /\ e.pid = proc[p].pid /\ e.life = "live" /\ e.done = 0 /\ e.status = how
  BY <1>8, <1>9 DEF Objects
<1>11. Ended(proc[p], how) = tryDestroy(e)
  BY <1>7, <1>9 DEF Ended
<1>12. CASE e.streams # {}
  <2>1. proc' = [proc EXCEPT ![p] = e]
    BY <1>4, <1>11, <1>12 DEF tryDestroy
  <2> QED
    BY <1>1, <1>2, <1>3, <1>6, <1>10, <2>1, ObjectStep
<1>13. CASE e.streams = {}
  <2>1. PICK o : o = [e EXCEPT !.done = e.done + 1, !.life = "freed"]
    OBVIOUS
  <2>2. proc' = [proc EXCEPT ![p] = o]
    BY <1>4, <1>10, <1>11, <1>13, <2>1 DEF tryDestroy
  <2>3. o = [e EXCEPT !.done = 1, !.life = "freed"]
    BY <1>10, <2>1
  <2>4. /\ o \in Objects /\ o.pid = e.pid /\ o.status = how /\ o.life = "freed"
        /\ o.streams = {}
    BY <1>10, <1>13, <2>3 DEF Objects
  <2> QED
    BY <1>1, <1>2, <1>3, <1>6, <1>10, <2>2, <2>4, ObjectStep
<1> QED
  BY <1>12, <1>13

\* The process could not be started: the object goes at once.
LEMMA ProcFails == ASSUME NEW p \in Procs, ProcInv, failedDestroy(p) PROVE ProcInv'
<1>1. /\ thrq # <<>> /\ Head(thrq) = [run |-> "tryDestroy", p |-> p]
      /\ thrq' = Tail(thrq) /\ proc' = [proc EXCEPT ![p] = tryDestroy(proc[p])]
      /\ seen' = Use(p) /\ child' = child /\ mainq' = mainq /\ reg' = reg
  BY DEF failedDestroy
<1>2. /\ thrq[1].run = "tryDestroy" /\ thrq[1].p = p /\ CommandFits(thrq[1])
      /\ \A l \in DOMAIN thrq : thrq[l].p = p => l = 1
      /\ thrq' # thrq
  BY <1>1, NextCommand
<1>3. /\ proc[p].life = "live" /\ proc[p].status = "exited" /\ child[p].state = "none"
  BY <1>2 DEF CommandFits
<1>4. seen' = seen
  BY <1>1, <1>3, UseLive
<1>5. ObjectFits(p) /\ proc[p] \in Objects
  BY DEF ProcInv, ObjectsFit, ProcTypeOK
<1>6. proc[p].streams = {} /\ proc[p].done = 0
  BY <1>3, <1>5 DEF ObjectFits
<1>7. PICK o : o = [proc[p] EXCEPT !.done = proc[p].done + 1, !.life = "freed"]
  OBVIOUS
<1>8. proc' = [proc EXCEPT ![p] = o]
  BY <1>1, <1>3, <1>6, <1>7 DEF tryDestroy
<1>9. o = [proc[p] EXCEPT !.done = 1, !.life = "freed"]
  BY <1>6, <1>7
<1>10. /\ o \in Objects /\ o.pid = proc[p].pid /\ o.status = "exited" /\ o.life = "freed"
       /\ o.streams = {}
  BY <1>3, <1>5, <1>6, <1>9 DEF Objects
<1> QED
  BY <1>1, <1>2, <1>3, <1>4, <1>8, <1>10, ObjectStep

\* A queue t is s and behind it commands out of S.
Grows(s, t, S) ==
    /\ t \in Seq(Commands)
    /\ \A k \in DOMAIN s : k \in DOMAIN t /\ t[k] = s[k]
    /\ \A k \in DOMAIN t : k \in DOMAIN s \/ (t[k] \in S /\ \A l \in DOMAIN s : l < k)

\* Commands are put behind a queue.
LEMMA GrowsBy ==
    ASSUME NEW s \in Seq(Commands), NEW u \in Seq(Commands), NEW S, \A k \in DOMAIN u : u[k] \in S
    PROVE  Grows(s, s \o u, S)
<1>1. /\ s \o u \in Seq(Commands)
      /\ \A k \in DOMAIN (s \o u) : \/ k \in DOMAIN s /\ (s \o u)[k] = s[k]
                                   \/ /\ \A l \in DOMAIN s : l < k
                                      /\ \E l \in DOMAIN u : (s \o u)[k] = u[l]
      /\ \A k \in DOMAIN s : k \in DOMAIN (s \o u) /\ (s \o u)[k] = s[k]
  BY JoinIs
<1> QED
  BY <1>1 DEF Grows

\* And more behind them.
LEMMA GrowsOn ==
    ASSUME NEW s, NEW t, NEW u, NEW S, Grows(s, t, S), Grows(t, u, S)
    PROVE  Grows(s, u, S)
  BY DEF Grows

\* Commands for p are put behind the others: no earlier one ended p, and one that ends
\* it is the last.
LEMMA CommandsGrow ==
    ASSUME NEW p \in Procs, NEW S, ProcTypeOK, CommandsFit, Grows(thrq, thrq', S),
           \A c \in S : c.p = p /\ CommandFits(c)',
           \A k, l \in DOMAIN thrq' :
              k \notin DOMAIN thrq /\ thrq'[k].run # "createpipeconn" => l <= k,
           \A k \in DOMAIN thrq : thrq[k].p = p => thrq[k].run = "createpipeconn",
           \A c \in Commands : \A k \in DOMAIN thrq : c = thrq[k] => CommandFits(c)'
    PROVE  CommandsFit'
<1>1. thrq \in Seq(Commands)
  BY DEF ProcTypeOK
<1>2. \A k \in DOMAIN thrq' : \A c : c = thrq'[k] => CommandFits(c)'
  <2> SUFFICES ASSUME NEW k \in DOMAIN thrq', NEW c, c = thrq'[k] PROVE CommandFits(c)'
    OBVIOUS
  <2>1. CASE k \in DOMAIN thrq
    <3>1. c = thrq[k] /\ c \in Commands
      BY <1>1, <2>1 DEF Grows
    <3> QED
      BY <2>1, <3>1
  <2>2. CASE k \notin DOMAIN thrq
    BY <2>2 DEF Grows
  <2> QED
    BY <2>1, <2>2
<1>3. ASSUME NEW k \in DOMAIN thrq', thrq'[k].run # "createpipeconn",
             NEW l \in DOMAIN thrq', thrq'[l].p = thrq'[k].p
      PROVE  l <= k
  <2>1. CASE k \in DOMAIN thrq /\ l \in DOMAIN thrq
    BY <1>3, <2>1 DEF CommandsFit, Grows
  <2>2. CASE k \in DOMAIN thrq /\ l \notin DOMAIN thrq
    BY <1>3, <2>2 DEF Grows
  <2>3. CASE k \notin DOMAIN thrq
    BY <1>3, <2>3
  <2> QED
    BY <2>1, <2>2, <2>3
<1> QED
  BY <1>2, <1>3 DEF CommandsFit, CommandFits

\* The main thread takes the one request for p.
LEMMA MainTakes ==
    ASSUME NEW p \in Procs, ProcInv, mainq # <<>>, Head(mainq) = p, mainq' = Tail(mainq),
           seen' = seen, \A q \in Procs : q # p => proc'[q] = proc[q]
    PROVE  mainq' \in Seq(Procs) /\ AskedOnce'
<1>1. mainq \in Seq(Procs)
  BY DEF ProcInv, ProcTypeOK
<1>2. /\ mainq' \in Seq(Procs) /\ 1 \in DOMAIN mainq /\ mainq[1] = p
      /\ \A k \in DOMAIN mainq' : k \in Nat /\ k + 1 \in DOMAIN mainq /\ mainq'[k] = mainq[k + 1]
  BY <1>1, TailIs
<1>3. \A k \in DOMAIN mainq' : k \in Nat /\ k + 1 # 1 /\ k >= 1
  BY <1>2
<1>4. \A k \in DOMAIN mainq' : mainq'[k] # p /\ mainq'[k] \in Procs
  BY <1>2, <1>3 DEF ProcInv, AskedOnce
<1>5. \A k \in DOMAIN mainq' : mainq'[k] \in seen'.asked /\ proc'[mainq'[k]].status = "none"
  BY <1>2, <1>4 DEF ProcInv, AskedOnce
<1>6. \A k, l \in DOMAIN mainq' : mainq'[l] = mainq'[k] => l = k
  <2> SUFFICES ASSUME NEW k \in DOMAIN mainq', NEW l \in DOMAIN mainq', mainq'[l] = mainq'[k]
               PROVE  l = k
    OBVIOUS
  <2>1. l + 1 = k + 1
    BY <1>2 DEF ProcInv, AskedOnce
  <2> QED
    BY <1>2, <2>1
<1> QED
  BY <1>2, <1>5, <1>6 DEF AskedOnce

\* An object whose request is waiting is there, has no child, and no command is for it.
LEMMA NotBegun ==
    ASSUME NEW p \in Procs, ProcInv, mainq # <<>>, Head(mainq) = p
    PROVE  /\ proc[p].status = "none" /\ p \in seen.asked /\ child[p].state = "none"
           /\ proc[p].life = "live" /\ proc[p].streams = {} /\ proc[p].done = 0
           /\ \A k \in DOMAIN thrq : thrq[k].p # p
<1>1. mainq \in Seq(Procs) /\ thrq \in Seq(Commands) /\ proc[p] \in Objects
  BY DEF ProcInv, ProcTypeOK
<1>2. 1 \in DOMAIN mainq /\ mainq[1] = p
  BY <1>1, TailIs
<1>3. proc[p].status = "none" /\ p \in seen.asked
  BY <1>2 DEF ProcInv, AskedOnce
<1>4. ObjectFits(p)
  BY DEF ProcInv, ObjectsFit
<1>5. /\ child[p].state = "none" /\ proc[p].life = "live" /\ proc[p].streams = {}
      /\ proc[p].done = 0
  BY <1>1, <1>3, <1>4 DEF ObjectFits, Objects
<1>6. \A k \in DOMAIN thrq : thrq[k].p # p
  <2> SUFFICES ASSUME NEW k \in DOMAIN thrq, thrq[k].p = p PROVE FALSE
    OBVIOUS
  <2>1. CommandFits(thrq[k]) /\ thrq[k] \in Commands
    BY <1>1 DEF ProcInv, CommandsFit
  <2>2. thrq[k].run \in {"createpipeconn", "tryDestroy", "endprocess"}
    BY <2>1 DEF Commands
  <2> QED
    BY <1>3, <2>1, <2>2 DEF CommandFits
<1> QED
  BY <1>3, <1>5, <1>6

\* The pipes of p are commands for p.
LEMMA PipedIs ==
    ASSUME NEW p \in Procs, NEW i \in Streams
    PROVE  /\ Piped(p, i) \in Seq(Commands)
           /\ \A k \in DOMAIN Piped(p, i) :
                 Piped(p, i)[k] \in [run : {"createpipeconn"}, p : {p}, i : Streams]
<1>1. PICK c : c = [run |-> "createpipeconn", p |-> p, i |-> i]
  OBVIOUS
<1>2. c \in Commands /\ c \in [run : {"createpipeconn"}, p : {p}, i : Streams]
  BY <1>1 DEF Commands
<1>3. Piped(p, i) = <<c>> \/ Piped(p, i) = <<>>
  BY <1>1 DEF Piped
<1>4. <<c>> \in Seq(Commands) /\ \A k \in DOMAIN <<c>> : <<c>>[k] = c
  BY <1>2
<1>5. <<>> \in Seq(Commands) /\ DOMAIN <<>> = {}
  OBVIOUS
<1> QED
  BY <1>2, <1>3, <1>4, <1>5

\* The process is started under a pid that no object has had.
LEMMA ProcStarts ==
    ASSUME ~ReusePids, NEW p \in Procs, NEW pid \in FreePids, ProcInv,
           mainq # <<>>, Head(mainq) = p, mainq' = Tail(mainq), seen' = Use(p),
           proc' = [proc EXCEPT ![p].pid = pid, ![p].status = "running"],
           reg' = reg \cup {<<p, pid>>}, child' = [child EXCEPT ![p].state = "runs"],
           thrq' = thrq \o Piped(p, 0) \o Piped(p, 1) \o Piped(p, 2)
    PROVE  ProcInv'
<1>1. /\ proc[p].status = "none" /\ p \in seen.asked /\ child[p].state = "none"
      /\ proc[p].life = "live" /\ proc[p].streams = {} /\ proc[p].done = 0
      /\ \A k \in DOMAIN thrq : thrq[k].p # p
  BY NotBegun
<1>2. seen' = seen
  BY <1>1, UseLive
<1>3. pid \in Pids /\ \A q \in Procs : proc[q].pid # pid
  BY DEF FreePids
<1>4. /\ proc' \in [Procs -> Objects] /\ \A q \in Procs : q # p => proc'[q] = proc[q]
      /\ proc'[p].pid = pid /\ proc'[p].status = "running" /\ proc'[p].life = "live"
      /\ proc'[p].streams = {} /\ proc'[p].done = 0
  <2>1. PICK o : o = [proc[p] EXCEPT !.pid = pid, !.status = "running"]
    OBVIOUS
  <2>2. proc' = [proc EXCEPT ![p] = o]
    BY <2>1
  <2>3. proc \in [Procs -> Objects]
    BY DEF ProcInv, ProcTypeOK
  <2>4. /\ o \in Objects /\ o.pid = pid /\ o.status = "running" /\ o.life = "live"
        /\ o.streams = {} /\ o.done = 0
    BY <1>1, <1>3, <2>1, <2>3 DEF Objects
  <2> QED
    BY <2>2, <2>3, <2>4
<1>5. /\ child' \in [Procs -> [state : {"none", "runs", "zombie", "reaped"}, term : BOOLEAN]]
      /\ child'[p].state = "runs" /\ \A q \in Procs : q # p => child'[q] = child[q]
  BY DEF ProcInv, ProcTypeOK
<1>6. mainq' \in Seq(Procs) /\ AskedOnce'
  BY <1>2, <1>4, MainTakes
<1>7. PICK S : S = [run : {"createpipeconn"}, p : {p}, i : Streams]
  OBVIOUS
<1>8. Grows(thrq, thrq', S)
  <2>1. thrq \in Seq(Commands)
    BY DEF ProcInv, ProcTypeOK
  <2>2. 0 \in Streams /\ 1 \in Streams /\ 2 \in Streams
    BY DEF Streams
  <2>3. Grows(thrq, thrq \o Piped(p, 0), S)
    BY <1>7, <2>1, <2>2, PipedIs, GrowsBy
  <2>4. thrq \o Piped(p, 0) \in Seq(Commands)
    BY <2>3 DEF Grows
  <2>5. Grows(thrq \o Piped(p, 0), thrq \o Piped(p, 0) \o Piped(p, 1), S)
    BY <1>7, <2>2, <2>4, PipedIs, GrowsBy
  <2>6. thrq \o Piped(p, 0) \o Piped(p, 1) \in Seq(Commands)
    BY <2>5 DEF Grows
  <2>7. Grows(thrq \o Piped(p, 0) \o Piped(p, 1), thrq', S)
    BY <1>7, <2>2, <2>6, PipedIs, GrowsBy
  <2> QED
    BY <2>3, <2>5, <2>7, GrowsOn
<1>9. ProcTypeOK'
  <2>1. thrq' \in Seq(Commands)
    BY <1>8 DEF Grows
  <2> QED
    BY <1>2, <1>4, <1>5, <1>6, <2>1 DEF ProcInv, ProcTypeOK
<1>10. ObjectsFit'
  <2>1. ObjectFits(p)'
    BY <1>1, <1>2, <1>3, <1>4, <1>5 DEF ObjectFits
  <2>2. \A q \in Procs : q # p => ObjectFits(q)'
    BY <1>2, <1>4, <1>5, ObjectKept DEF ProcInv, ObjectsFit
  <2> QED
    BY <2>1, <2>2 DEF ObjectsFit
<1>11. PidsApart'
  <2>1. \A x \in reg' : \E q \in Procs : x = <<q, proc'[q].pid>> /\ child'[q].state # "none"
    BY <1>1, <1>4, <1>5 DEF ProcInv, PidsApart
  <2>2. \A q \in Procs : child'[q].state # "none" => <<q, proc'[q].pid>> \in reg'
    BY <1>4, <1>5 DEF ProcInv, PidsApart
  <2>3. \A q, r \in Procs :
          child'[q].state # "none" /\ child'[r].state # "none" /\ proc'[q].pid = proc'[r].pid
             => q = r
    BY <1>3, <1>4, <1>5 DEF ProcInv, PidsApart
  <2> QED
    BY <2>1, <2>2, <2>3 DEF PidsApart
<1>12. CommandsFit'
  <2>1. \A c \in S : c.p = p /\ CommandFits(c)'
    BY <1>4, <1>7 DEF CommandFits
  <2>2. \A c \in Commands : \A k \in DOMAIN thrq : c = thrq[k] => CommandFits(c)'
    <3> SUFFICES ASSUME NEW c \in Commands, NEW k \in DOMAIN thrq, c = thrq[k]
                 PROVE  CommandFits(c)'
      OBVIOUS
    <3>1. c.p \in Procs /\ c.p # p /\ CommandFits(c)
      BY <1>1, CommandHasObject DEF ProcInv, CommandsFit
    <3>2. proc'[c.p] = proc[c.p] /\ child'[c.p] = child[c.p]
      BY <1>4, <1>5, <3>1
    <3> QED
      BY <3>1, <3>2, CommandKept
  <2>3. \A k \in DOMAIN thrq' : k \notin DOMAIN thrq => thrq'[k].run = "createpipeconn"
    BY <1>7, <1>8 DEF Grows
  <2> QED
    BY <1>1, <1>8, <2>1, <2>2, <2>3, CommandsGrow DEF ProcInv
<1> QED
  BY <1>2, <1>6, <1>9, <1>10, <1>11, <1>12 DEF ProcInv

\* One command put behind the others is the last of the queue.
LEMMA AppendedIsLast ==
    ASSUME ProcTypeOK, NEW c \in Commands, thrq' = Append(thrq, c)
    PROVE  /\ Grows(thrq, thrq', {c})
           /\ \A k, l \in DOMAIN thrq' : k \notin DOMAIN thrq => l <= k
<1>1. thrq \in Seq(Commands)
  BY DEF ProcTypeOK
<1>2. /\ thrq' \in Seq(Commands) /\ Len(thrq) \in Nat /\ DOMAIN thrq = 1 .. Len(thrq)
      /\ DOMAIN thrq' = 1 .. Len(thrq) + 1 /\ thrq'[Len(thrq) + 1] = c
      /\ \A k \in DOMAIN thrq : thrq'[k] = thrq[k]
  BY <1>1
<1>3. \A k \in DOMAIN thrq' : k \in DOMAIN thrq \/ k = Len(thrq) + 1
  BY <1>2
<1> QED
  BY <1>2, <1>3 DEF Grows

\* The status of an object is set.
LEMMA StatusSet ==
    ASSUME NEW a \in Objects, NEW o, o = [a EXCEPT !.status = "exited"]
    PROVE  /\ o \in Objects /\ o.pid = a.pid /\ o.status = "exited" /\ o.life = a.life
           /\ o.streams = a.streams /\ o.done = a.done
  BY DEF Objects

\* The process cannot be started, and the object's thread is told to end it.
LEMMA ProcRefused ==
    ASSUME NEW p \in Procs, ProcInv,
           mainq # <<>>, Head(mainq) = p, mainq' = Tail(mainq), seen' = Use(p),
           proc' = [proc EXCEPT ![p].status = "exited"],
           thrq' = Append(thrq, [run |-> "tryDestroy", p |-> p]), reg' = reg, child' = child
    PROVE  ProcInv'
<1>1. /\ proc[p].status = "none" /\ p \in seen.asked /\ child[p].state = "none"
      /\ proc[p].life = "live" /\ proc[p].streams = {} /\ proc[p].done = 0
      /\ \A k \in DOMAIN thrq : thrq[k].p # p
  BY NotBegun
<1>2. seen' = seen
  BY <1>1, UseLive
<1>3. /\ proc' \in [Procs -> Objects] /\ \A q \in Procs : q # p => proc'[q] = proc[q]
      /\ proc'[p].pid = proc[p].pid /\ proc'[p].status = "exited" /\ proc'[p].life = "live"
      /\ proc'[p].streams = {} /\ proc'[p].done = 0
  <2>1. PICK o : o = [proc[p] EXCEPT !.status = "exited"]
    OBVIOUS
  <2>2. proc' = [proc EXCEPT ![p] = o]
    BY <2>1
  <2>3. proc \in [Procs -> Objects]
    BY DEF ProcInv, ProcTypeOK
  <2>4. /\ o \in Objects /\ o.pid = proc[p].pid /\ o.status = "exited" /\ o.life = "live"
        /\ o.streams = {} /\ o.done = 0
    BY <1>1, <2>1, <2>3, StatusSet
  <2> QED
    BY <2>2, <2>3, <2>4
<1>4. mainq' \in Seq(Procs) /\ AskedOnce'
  BY <1>2, <1>3, MainTakes
<1>5. PICK c : c = [run |-> "tryDestroy", p |-> p]
  OBVIOUS
<1>6. c \in Commands /\ c.p = p /\ c.run = "tryDestroy"
  BY <1>5 DEF Commands
<1>7. /\ Grows(thrq, thrq', {c})
      /\ \A k, l \in DOMAIN thrq' : k \notin DOMAIN thrq => l <= k
  BY <1>5, <1>6, AppendedIsLast DEF ProcInv
<1>8. ProcTypeOK'
  <2>1. thrq' \in Seq(Commands)
    BY <1>7 DEF Grows
  <2> QED
    BY <1>2, <1>3, <1>4, <2>1 DEF ProcInv, ProcTypeOK
<1>9. ObjectsFit'
  <2>1. ObjectFits(p)'
    BY <1>1, <1>2, <1>3 DEF ObjectFits
  <2>2. \A q \in Procs : q # p => ObjectFits(q)'
    BY <1>2, <1>3, ObjectKept DEF ProcInv, ObjectsFit
  <2> QED
    BY <2>1, <2>2 DEF ObjectsFit
<1>10. PidsApart'
  BY <1>3, PidsKept DEF ProcInv
<1>11. CommandsFit'
  <2>1. CommandFits(c)'
    BY <1>1, <1>3, <1>6 DEF CommandFits
  <2>2. \A d \in Commands : \A k \in DOMAIN thrq : d = thrq[k] => CommandFits(d)'
    <3> SUFFICES ASSUME NEW d \in Commands, NEW k \in DOMAIN thrq, d = thrq[k]
                 PROVE  CommandFits(d)'
      OBVIOUS
    <3>1. d.p \in Procs /\ d.p # p /\ CommandFits(d)
      BY <1>1, CommandHasObject DEF ProcInv, CommandsFit
    <3>2. proc'[d.p] = proc[d.p]
      BY <1>3, <3>1
    <3> QED
      BY <3>1, <3>2, CommandKept
  <2> QED
    BY <1>1, <1>6, <1>7, <2>1, <2>2, CommandsGrow DEF ProcInv
<1> QED
  BY <1>2, <1>4, <1>8, <1>9, <1>10, <1>11 DEF ProcInv

\* The main thread starts a process, or fails to.
LEMMA ProcRuns == ASSUME ~ReusePids, NEW p \in Procs, ProcInv, runprocess(p) PROVE ProcInv'
<1>1. mainq # <<>> /\ Head(mainq) = p /\ mainq' = Tail(mainq) /\ seen' = Use(p)
  BY DEF runprocess
<1>2. CASE \E pid \in FreePids :
             /\ proc' = [proc EXCEPT ![p].pid = pid, ![p].status = "running"]
             /\ reg' = reg \cup {<<p, pid>>} /\ child' = [child EXCEPT ![p].state = "runs"]
             /\ thrq' = thrq \o Piped(p, 0) \o Piped(p, 1) \o Piped(p, 2)
  BY <1>1, <1>2, ProcStarts
<1>3. CASE /\ proc' = [proc EXCEPT ![p].status = "exited"]
           /\ thrq' = Append(thrq, [run |-> "tryDestroy", p |-> p]) /\ reg' = reg /\ child' = child
  BY <1>1, <1>3, ProcRefused
<1> QED
  BY <1>2, <1>3 DEF runprocess

\* The service has waited for the child of p: only p's handler is for its pid, and the
\* command it sends is the last for p.
LEMMA ProcReaped == ASSUME NEW p \in Procs, ProcInv, reapChildren(p) PROVE ProcInv'
<1>1. PICK told : told = {q \in Procs : <<q, proc[p].pid>> \in reg}
  OBVIOUS
<1>2. /\ child[p].state = "zombie" /\ child' = [child EXCEPT ![p].state = "reaped"]
      /\ proc' = proc /\ mainq' = mainq /\ reg' = reg
      /\ seen' = [seen EXCEPT !.freed = seen.freed \/ \E q \in told : proc[q].life = "freed"]
  BY <1>1 DEF reapChildren
<1>3. told = {p}
  <2>1. p \in told
    BY <1>1, <1>2 DEF ProcInv, PidsApart
  <2>2. \A q \in told : q = p
    <3> SUFFICES ASSUME NEW q \in told PROVE q = p
      OBVIOUS
    <3>1. q \in Procs /\ <<q, proc[p].pid>> \in reg
      BY <1>1
    <3>2. PICK r \in Procs : <<q, proc[p].pid>> = <<r, proc[r].pid>> /\ child[r].state # "none"
      BY <3>1 DEF ProcInv, PidsApart
    <3> QED
      BY <1>2, <3>2 DEF ProcInv, PidsApart
  <2> QED
    BY <2>1, <2>2
<1>4. /\ proc[p].life = "live" /\ proc[p].status = "running" /\ proc[p].pid \in Pids
      /\ proc[p] \in Objects
  <2>1. ObjectFits(p) /\ proc[p] \in Objects
    BY DEF ProcInv, ObjectsFit, ProcTypeOK
  <2> QED
    BY <1>2, <2>1 DEF ObjectFits, Objects
<1>5. seen' = seen
  <2>1. seen.freed = FALSE /\ seen \in [freed : BOOLEAN, asked : SUBSET Procs]
    BY DEF ProcInv, ProcTypeOK
  <2>2. (seen.freed \/ \E q \in told : proc[q].life = "freed") = FALSE
    BY <1>3, <1>4, <2>1
  <2>3. seen' = [seen EXCEPT !.freed = FALSE]
    BY <1>2, <2>2, Zenon
  <2> QED
    BY <2>1, <2>3
<1>6. PICK c : c = childExited(p, p)
  OBVIOUS
<1>7. c \in Commands /\ c.p = p /\ c.run = "endprocess" /\ c.pid = proc[p].pid
  BY <1>4, <1>6 DEF childExited, Commands
<1>8. thrq' = Append(thrq, c)
  <2>1. Cardinality(told) = 1
    BY <1>3, FS_Singleton
  <2>2. PICK ord \in [1 .. 1 -> {p}] : thrq' = thrq \o [k \in DOMAIN ord |-> childExited(ord[k], p)]
    BY <1>1, <1>3, <2>1, Zenon DEF reapChildren
  <2>3. [k \in DOMAIN ord |-> childExited(ord[k], p)] = [k \in 1 .. 1 |-> c]
    BY <1>6
  <2>4. [k \in 1 .. 1 |-> c] = <<c>>
    OBVIOUS
  <2>5. thrq \in Seq(Commands)
    BY DEF ProcInv, ProcTypeOK
  <2>6. thrq \o <<c>> = Append(thrq, c)
    BY <1>7, <2>5
  <2> QED
    BY <2>2, <2>3, <2>4, <2>6
<1>9. /\ Grows(thrq, thrq', {c})
      /\ \A k, l \in DOMAIN thrq' : k \notin DOMAIN thrq => l <= k
  BY <1>7, <1>8, AppendedIsLast DEF ProcInv
<1>10. /\ child' \in [Procs -> [state : {"none", "runs", "zombie", "reaped"}, term : BOOLEAN]]
       /\ child'[p].state = "reaped" /\ \A q \in Procs : q # p => child'[q] = child[q]
  BY <1>2 DEF ProcInv, ProcTypeOK
<1>11. ProcTypeOK'
  <2>1. thrq' \in Seq(Commands)
    BY <1>9 DEF Grows
  <2> QED
    BY <1>2, <1>5, <1>10, <2>1 DEF ProcInv, ProcTypeOK
<1>12. AskedOnce'
  BY <1>2, <1>5, AskedKept DEF ProcInv
<1>13. ObjectsFit'
  BY <1>2, <1>4, <1>5, <1>10 DEF ProcInv, ObjectsFit, ObjectFits
<1>14. PidsApart'
  BY <1>2, <1>10, PidsKept DEF ProcInv
<1>15. CommandsFit'
  <2>1. CommandFits(c)'
    BY <1>2, <1>4, <1>7, <1>10 DEF CommandFits
  <2>2. \A d \in Commands : CommandFits(d) => CommandFits(d)'
    BY <1>2, <1>10, CommandHasObject, CommandKept
  <2>3. \A d \in Commands : \A k \in DOMAIN thrq : d = thrq[k] => CommandFits(d)'
    BY <2>2 DEF ProcInv, CommandsFit
  <2>4. \A k \in DOMAIN thrq : thrq[k].p = p => thrq[k].run = "createpipeconn"
    <3> SUFFICES ASSUME NEW k \in DOMAIN thrq, thrq[k].p = p
                 PROVE  thrq[k].run = "createpipeconn"
      OBVIOUS
    <3>1. CommandFits(thrq[k]) /\ thrq[k] \in Commands
      BY DEF ProcInv, CommandsFit, ProcTypeOK
    <3>2. thrq[k].run \in {"createpipeconn", "tryDestroy", "endprocess"}
      BY <3>1 DEF Commands
    <3> QED
      BY <1>2, <3>1, <3>2 DEF CommandFits
  <2> QED
    BY <1>7, <1>9, <2>1, <2>3, <2>4, CommandsGrow DEF ProcInv
<1> QED
  BY <1>5, <1>11, <1>12, <1>13, <1>14, <1>15 DEF ProcInv

\* process.c: a process object is freed once, no thread uses it afterwards, and done
\* comes after the child was waited for and its pipes were closed, for any number of
\* objects and any pipes, in every order in which the commands of the two threads and the
\* ends of the children come.  The system must not use the pid of a child again as long
\* as the handler for it is registered, which it is until the service ends.
THEOREM ProcessSafety == ProcAssumption /\ ~ReusePids => (ProcSpec => []ProcessSafe)
<1> SUFFICES ASSUME ProcAssumption, ~ReusePids PROVE ProcSpec => []ProcessSafe
  OBVIOUS
<1>1. ProcInv /\ [ProcNext]_pvars => ProcInv'
  <2> SUFFICES ASSUME ProcInv, [ProcNext]_pvars PROVE ProcInv'
    OBVIOUS
  <2>1. CASE UNCHANGED pvars
    BY <2>1 DEF pvars, ProcInv, ProcTypeOK, AskedOnce, ObjectsFit, ObjectFits, PidsApart,
                CommandsFit, CommandFits
  <2>2. CASE ProcNext
    <3>1. PICK p \in Procs :
             \/ PSC_Process_exec(p)
             \/ \E ms \in {0, 1} : PSC_Process_stop(p, ms)
             \/ ThreadStep(p) \/ forcekill(p)
             \/ \E i \in Streams : streamClosed(p, i)
             \/ runprocess(p) \/ reapChildren(p) \/ childEnds(p)
      BY <2>2 DEF ProcNext
    <3> QED
      BY <3>1, ProcExec, ProcStop, ProcConnects, ProcEnds, ProcFails, ProcChildEnds,
         ProcStreamCloses, ProcRuns, ProcReaped DEF ThreadStep
  <2> QED
    BY <2>1, <2>2
<1>2. ProcInv => ProcessSafe
  <2> SUFFICES ASSUME ProcInv PROVE ProcessSafe
    OBVIOUS
  <2>1. \A p \in Procs : proc[p] \in Objects /\ ObjectFits(p)
    BY DEF ProcInv, ProcTypeOK, ObjectsFit
  <2>2. ProcessNotFreed
    BY <2>1 DEF ProcInv, Objects, ProcessNotFreed
  <2>3. ASSUME NEW p \in Procs, proc[p].done # 0
        PROVE  /\ child[p].state \in {"none", "reaped"} /\ proc[p].streams = {}
               /\ \A k \in DOMAIN thrq : thrq[k].run = "createpipeconn" => thrq[k].p # p
    <3>1. proc[p].life = "freed"
      BY <2>1, <2>3 DEF ObjectFits, Objects
    <3>2. child[p].state \in {"none", "runs", "zombie", "reaped"}
      BY DEF ProcInv, ProcTypeOK
    <3>3. child[p].state \in {"none", "reaped"} /\ proc[p].streams = {}
      BY <2>1, <3>1, <3>2 DEF ObjectFits
    <3> QED
      BY <3>1, <3>3 DEF ProcInv, CommandsFit, CommandFits
  <2> QED
    BY <2>2, <2>3 DEF ProcessSafe, DoneAfterAll
<1> QED
  BY <1>1, <1>2, ProcInitial, PTL DEF ProcSpec

=============================================================================
