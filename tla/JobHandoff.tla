----------------------------- MODULE JobHandoff -----------------------------
(***************************************************************************)
(* What the job queue of the thread pool promises its callers: a bounded   *)
(* first-in first-out hand-off.  A job offered by a service thread is      *)
(* either taken over (return code 0) or refused because the queue holds Sz *)
(* jobs (return code -1); a job taken over is handed to exactly one pool   *)
(* thread, in the order the jobs were taken over, and then runs once.      *)
(***************************************************************************)
EXTENDS Naturals, Sequences

CONSTANTS Jobs,      \* the thread jobs ever offered to the queue
          Workers,   \* the pool threads
          Sz,        \* capacity of the queue
          NULL       \* "no job"

VARIABLES pending,   \* jobs taken over and not yet handed to a pool thread
          running,   \* the job each pool thread holds
          finished,  \* jobs whose pool thread is done with them
          refused    \* jobs the queue was too full for

hvars == <<pending, running, finished, refused>>

\* The jobs the queue has taken responsibility for or has sent back.
Known == {pending[i] : i \in DOMAIN pending} \cup
         {running[w] : w \in Workers} \cup finished \cup refused

HInit == /\ pending = <<>>
         /\ running = [w \in Workers |-> NULL]
         /\ finished = {}
         /\ refused = {}

Accept(j) == /\ j \notin Known
             /\ Len(pending) < Sz
             /\ pending' = Append(pending, j)
             /\ UNCHANGED <<running, finished, refused>>

Refuse(j) == /\ j \notin Known
             /\ Len(pending) = Sz
             /\ refused' = refused \cup {j}
             /\ UNCHANGED <<pending, running, finished>>

Take(w) == /\ running[w] = NULL
           /\ pending # <<>>
           /\ running' = [running EXCEPT ![w] = Head(pending)]
           /\ pending' = Tail(pending)
           /\ UNCHANGED <<finished, refused>>

Finish(w) == /\ running[w] # NULL
             /\ finished' = finished \cup {running[w]}
             /\ running' = [running EXCEPT ![w] = NULL]
             /\ UNCHANGED <<pending, refused>>

HNext == \/ \E j \in Jobs : Accept(j) \/ Refuse(j)
         \/ \E w \in Workers : Take(w) \/ Finish(w)

HSpec == HInit /\ [][HNext]_hvars

\* The lock-free queue also sends a job back while a slot is still being
\* filled or emptied: it promises everything but an exact refusal.
RefuseEarly(j) == /\ j \notin Known
                  /\ refused' = refused \cup {j}
                  /\ UNCHANGED <<pending, running, finished>>

LooseSpec == HInit /\ [][HNext \/ \E j \in Jobs : RefuseEarly(j)]_hvars
=============================================================================
