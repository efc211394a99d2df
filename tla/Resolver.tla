------------------------------ MODULE Resolver ------------------------------
(***************************************************************************)
(* PSC_Resolver (resolver.c): reverse lookups in a batch, by a job of the  *)
(* thread pool when there is one.  The resolver may be destroyed while the *)
(* job is queued, runs, or waits to be finished, and in the handler of the *)
(* done event.  The pool and its jobs (module ThreadPool) are external.    *)
(***************************************************************************)
EXTENDS Naturals, FiniteSets

CONSTANTS MaxAddrs,      \* bound: addresses added
          PoolActive,    \* whether there is a thread pool
          InHandler      \* what the done handler may do in a synchronous resolve

VARIABLES resolver, \* the struct PSC_Resolver; "pool" is done.pool, unset when destroyed
          job,     \* its thread job
          user,    \* [at, dead]: the user is outside or in the done handler of an
                   \* asynchronous or synchronous resolve, and has called destroy
          hist     \* done events owed, and use of a freed resolver

rvars == <<resolver, job, user, hist>>

\* Names are resolved, unresolved, or have no name.
Entries == resolver.names \cup resolver.unnamed
NoJob == [at |-> "none", hasCompleted |-> TRUE, left |-> {}]

ResInit ==
    /\ resolver = [life |-> "live", pool |-> TRUE, job |-> FALSE, handling |-> 0,
                   names |-> {}, unnamed |-> {}]
    /\ job = NoJob
    /\ user = [at |-> "out", dead |-> FALSE]
    /\ hist = [owed |-> 0, raised |-> 0, bad |-> FALSE]

\* The user's calls, on the resolver's thread, while it may use the object.
Calls == ~user.dead /\ resolver.life = "live"

PSC_Resolver_addAddr ==
    /\ Calls /\ ~resolver.job
    /\ Cardinality(Entries) < MaxAddrs
    /\ resolver' = [resolver EXCEPT !.unnamed = @ \cup {Cardinality(Entries) + 1}]
    /\ UNCHANGED <<job, user, hist>>

\* PSC_Resolver_resolve: a job if the pool takes it, else at once, unless
\* forceAsync says otherwise.  Without a job the done event is raised before it
\* returns (a resolve from that handler, which nests, is left out).
PSC_Resolver_resolve(forceAsync, room) ==
    /\ Calls /\ ~resolver.job /\ Entries # {}
    /\ job.at = "none" /\ user.at = "out"
    /\ IF PoolActive /\ room
       THEN /\ resolver' = [resolver EXCEPT !.job = TRUE]
            /\ job' = [at |-> "queued", hasCompleted |-> TRUE, left |-> resolver.unnamed]
            /\ hist' = [hist EXCEPT !.owed = 1, !.raised = 0]
            /\ UNCHANGED user
       ELSE /\ ~forceAsync
            /\ \E found \in SUBSET resolver.unnamed :
                  resolver' = [resolver EXCEPT !.names = @ \cup found, !.unnamed = @ \ found]
            /\ user' = [user EXCEPT !.at = "syncdone"]
            /\ hist' = [hist EXCEPT !.owed = 1, !.raised = 1]
            /\ UNCHANGED job

-----------------------------------------------------------------------------
(* The pool thread: resolveProc *)

jobStarts ==
    /\ job.at = "queued"
    /\ job' = [job EXCEPT !.at = IF job.hasCompleted THEN "running" ELSE "left"]
    /\ UNCHANGED <<resolver, user, hist>>

\* One entry: getnameinfo may find no name; a canceled job stops after it.
resolveProc(e, found) ==
    /\ job.at = "running" /\ e \in job.left
    /\ hist' = [hist EXCEPT !.bad = @ \/ resolver.life = "freed"]
    /\ IF ~found
       THEN job' = [job EXCEPT !.left = @ \ {e}] /\ UNCHANGED resolver
       ELSE IF ~job.hasCompleted
       THEN job' = [job EXCEPT !.left = {}] /\ UNCHANGED resolver
       ELSE /\ job' = [job EXCEPT !.left = @ \ {e}]
            /\ resolver' = [resolver EXCEPT !.names = @ \cup {e}, !.unnamed = @ \ {e}]
    /\ UNCHANGED user

jobEnds ==
    /\ job.at = "running" /\ job.left = {}
    /\ job' = [job EXCEPT !.at = "left"]
    /\ UNCHANGED <<resolver, user, hist>>

-----------------------------------------------------------------------------
(* The resolver's thread *)

\* Mutant: a canceled job's resolver is freed at once.
PSC_Resolver_destroy_now(s) ==
    IF s.handling # 0 THEN [s EXCEPT !.handling = 2]
    ELSE [s EXCEPT !.pool = FALSE, !.life = "freed"]

\* While the done event is raised, the resolver is only marked (handling -1,
\* here 2); with a job it is freed when that is finished.
PSC_Resolver_destroy(s) ==
    IF s.handling # 0 THEN [s EXCEPT !.handling = 2]
    ELSE IF s.job THEN [s EXCEPT !.pool = FALSE]
    ELSE [s EXCEPT !.pool = FALSE, !.life = "freed"]

UserDestroys ==
    /\ Calls
    /\ user.at = "syncdone" => "destroy" \in InHandler
    /\ user' = [user EXCEPT !.dead = TRUE]
    /\ resolver' = PSC_Resolver_destroy(resolver)
    /\ job' = IF resolver.job /\ resolver.handling = 0 THEN [job EXCEPT !.hasCompleted = FALSE]
              ELSE job
    /\ UNCHANGED hist

\* The job is finished: done is raised if it was not canceled; a resolver that
\* was destroyed meanwhile is freed.
resolveDone ==
    /\ job.at = "left" /\ user.at = "out"
    /\ IF ~resolver.pool
       THEN /\ resolver' = [resolver EXCEPT !.life = "freed"]
            /\ hist' = [hist EXCEPT !.bad = @ \/ resolver.life = "freed"]
            /\ UNCHANGED user
       ELSE IF job.hasCompleted
       THEN /\ resolver' = [resolver EXCEPT !.handling = 1]
            /\ user' = [user EXCEPT !.at = "done"]
            /\ hist' = [hist EXCEPT !.raised = @ + 1,
                                    !.bad = @ \/ user.dead \/ resolver.life = "freed"]
       ELSE /\ resolver' = [resolver EXCEPT !.job = FALSE]
            /\ UNCHANGED <<user, hist>>
    /\ job' = NoJob

\* Mutant: the mark is not looked at.
doneReturns_alive ==
    /\ user.at = "done"
    /\ user' = [user EXCEPT !.at = "out"]
    /\ resolver' = [resolver EXCEPT !.job = FALSE, !.handling = 0]
    /\ UNCHANGED <<job, hist>>

\* The handlers of the done event of a job return.
doneReturns ==
    /\ user.at = "done"
    /\ user' = [user EXCEPT !.at = "out"]
    /\ LET s == [resolver EXCEPT !.job = FALSE, !.handling = 0]
       IN  resolver' = IF resolver.handling = 2 THEN PSC_Resolver_destroy(s) ELSE s
    /\ UNCHANGED <<job, hist>>

\* The handlers of a synchronous resolve return, to PSC_Event_raise.
syncReturns ==
    /\ user.at = "syncdone"
    /\ user' = [user EXCEPT !.at = "out"]
    /\ hist' = [hist EXCEPT !.bad = @ \/ resolver.life = "freed"]
    /\ UNCHANGED <<resolver, job>>

ResNext ==
    \/ PSC_Resolver_addAddr \/ UserDestroys
    \/ \E forceAsync, room \in BOOLEAN : PSC_Resolver_resolve(forceAsync, room)
    \/ jobStarts \/ jobEnds
    \/ \E e \in 1 .. MaxAddrs, found \in BOOLEAN : resolveProc(e, found)
    \/ resolveDone \/ doneReturns \/ syncReturns

ResSpec == ResInit /\ [][ResNext]_rvars

\* Pool thread and service thread run, and handlers return.
ResFairness == /\ WF_rvars(jobStarts) /\ WF_rvars(jobEnds) /\ WF_rvars(resolveDone)
               /\ WF_rvars(doneReturns) /\ WF_rvars(syncReturns)
               /\ WF_rvars(\E e \in 1 .. MaxAddrs, f \in BOOLEAN : resolveProc(e, f))
ResFairSpec == ResSpec /\ ResFairness

-----------------------------------------------------------------------------
(* Properties *)

\* No thread uses a resolver that was freed, and no done event is raised for
\* one that was destroyed, wherever the job is when that happens.
ResolverNotFreed == ~hist.bad

\* The inductive invariant: what the resolver, its job and its user know of each
\* other.
Resolvers == [life : {"live", "freed"}, pool : BOOLEAN, job : BOOLEAN, handling : {0, 1, 2},
              names : SUBSET Nat, unnamed : SUBSET Nat]
ThreadJobs == [at : {"none", "queued", "running", "left"}, hasCompleted : BOOLEAN,
               left : SUBSET Nat]
ResTypeOK ==
    /\ resolver \in Resolvers /\ job \in ThreadJobs
    /\ user \in [at : {"out", "done", "syncdone"}, dead : BOOLEAN]
    /\ hist \in [owed : {0, 1}, raised : {0, 1}, bad : BOOLEAN]
    /\ IsFiniteSet(resolver.names) /\ IsFiniteSet(resolver.unnamed)

\* A job, and the done event of one, keep the resolver.
JobKeeps ==
    /\ job.at # "none" => resolver.life = "live" /\ resolver.job /\ user.at = "out"
    /\ user.at # "out" => resolver.life = "live" /\ job.at = "none"
    /\ user.at = "done" => resolver.job /\ resolver.pool
    /\ user.at = "syncdone" => ~resolver.job /\ ~user.dead
    /\ resolver.job /\ resolver.life = "live" => job.at # "none" \/ user.at = "done"

\* Destroying marks a resolver whose done event is being raised, else it takes
\* its pool and cancels its job.
MarkedWhenDead ==
    /\ resolver.handling = IF user.at = "done" THEN IF user.dead THEN 2 ELSE 1 ELSE 0
    /\ user.at # "done" => (resolver.pool <=> ~user.dead)
    /\ resolver.life = "freed" => user.dead

\* A job is owed its done event.
OneOwed ==
    /\ job.at # "none" => hist.owed = 1 /\ hist.raised = 0
    /\ hist.raised <= hist.owed

ResInv == ResTypeOK /\ JobKeeps /\ MarkedWhenDead /\ OneOwed /\ ~hist.bad

\* A destroyed resolver is freed in the end.
DestroyedIsFreed == user.dead ~> resolver.life = "freed"

\* Every resolve that was accepted is answered by exactly one done event,
\* unless the resolver is destroyed.
DoneOncePerResolve ==
    /\ [](hist.raised <= hist.owed)
    /\ resolver.job ~> (~resolver.job /\ hist.raised = 1) \/ user.dead

====
