------------------------------- MODULE Server -------------------------------
(***************************************************************************)
(* A PSC_Server (server.c, build with atomics) whose connections live on   *)
(* worker threads: the main thread accepts and hands every connection to   *)
(* a worker, the workers create and close connections, and the             *)
(* main thread shuts the server down and destroys it.  nconn counts the    *)
(* connections, and the semaphore allclosed is up while there are none.    *)
(*                                                                         *)
(* Commands reach a worker in the order they were scheduled (RunOnThread). *)
(* The loads of the scan for a less busy worker are one step: only the     *)
(* balance between workers depends on them.                                *)
(***************************************************************************)
EXTENDS Naturals, Sequences, FiniteSets

CONSTANTS Conns,    \* the connections clients ever open
          NThr,     \* PSC_Service_workers(), at least one
          Settled,  \* TRUE: the server is destroyed only while no accepted
                    \* connection waits for its worker, and no worker is between
                    \* the count and the post of the last one that was closed
          Timeouts, \* the timeouts of shutdown: a subset of {0, 1}
          Quits     \* whether the service exits

ServerAssumption ==
    /\ NThr \in Nat \ {0} /\ IsFiniteSet(Conns)
    /\ Settled \in BOOLEAN /\ Quits \in BOOLEAN /\ Timeouts \subseteq {0, 1}

Thr == 0 .. NThr - 1

VARIABLES srv,       \* "live", "shutdown" (deferred) or "freed"
          disabled, nconn, allclosed, nactive, nextthr,   \* PSC_Server
          timer,     \* shutdownTimer is running
          conn,      \* per connection: its state
          thr,       \* per connection: the worker it was given to
          tq,        \* per worker: the commands scheduled on it
          tpc,       \* per worker: where it is and on which connection
          mpc        \* the main thread: "loop", or "wait" in PSC_Server_destroy

vars == <<srv, disabled, nconn, allclosed, nactive, nextthr, timer, conn, thr,
          tq, tpc, mpc>>

Idle == [at |-> "idle"]
At(p, c) == [at |-> p, conn |-> c]
DestroyPool == [run |-> "destroyPool"]
DoAccept(c) == [run |-> "doaccept", conn |-> c]
Commands == {DestroyPool} \cup {DoAccept(c) : c \in Conns}

PSC_Server_create ==
    /\ srv = "live" /\ disabled = FALSE /\ timer = FALSE
    /\ nconn = 0 /\ allclosed = 1
    /\ nactive = [t \in Thr |-> 0] /\ nextthr = 0

Init == /\ PSC_Server_create
        /\ conn = [c \in Conns |-> "new"] /\ thr = [c \in Conns |-> 0]
        /\ tq = [t \in Thr |-> <<>>] /\ tpc = [t \in Thr |-> Idle]
        /\ mpc = "loop"

-----------------------------------------------------------------------------
(* The main thread *)

\* The scan for a worker that is less busy: s[i] is the choice after i steps.
\* The code counts on from the choice so far, so not every worker is looked at.
Scan(s) ==
    /\ s[0] = nextthr
    /\ \A i \in Thr \ {0} :
          LET thrno == (s[i - 1] + i) % NThr
          IN  s[i] = IF nactive[thrno] < nactive[s[i - 1]] THEN thrno ELSE s[i - 1]

acceptConnection(c) ==
    /\ srv = "live" /\ mpc = "loop" /\ conn[c] = "new" /\ ~disabled
    /\ conn' = [conn EXCEPT ![c] = "pending"]
    /\ \E s \in [Thr -> Thr] :
          /\ Scan(s)
          /\ nextthr' = s[NThr - 1]
          /\ thr' = [thr EXCEPT ![c] = s[NThr - 1]]
          /\ nactive' = [nactive EXCEPT ![s[NThr - 1]] = @ + 1]
          /\ tq' = [tq EXCEPT ![s[NThr - 1]] = Append(@, DoAccept(c))]
    /\ UNCHANGED <<srv, disabled, nconn, allclosed, timer, tpc, mpc>>

\* While disabled, or without a usable descriptor, it is closed at once.
acceptConnection_reject(c) ==
    /\ srv = "live" /\ mpc = "loop" /\ conn[c] = "new"
    /\ conn' = [conn EXCEPT ![c] = "closed"]
    /\ UNCHANGED <<srv, disabled, nconn, allclosed, nactive, nextthr, timer, thr,
                   tq, tpc, mpc>>

PSC_Server_disable ==
    /\ srv = "live" /\ mpc = "loop"
    /\ disabled' = TRUE
    /\ UNCHANGED <<srv, nconn, allclosed, nactive, nextthr, timer, conn, thr, tq,
                   tpc, mpc>>

PSC_Server_enable ==
    /\ srv = "live" /\ mpc = "loop"
    /\ disabled' = FALSE
    /\ UNCHANGED <<srv, nconn, allclosed, nactive, nextthr, timer, conn, thr, tq,
                   tpc, mpc>>

MayDestroy == Settled => /\ \A c \in Conns : conn[c] \notin {"pending", "opening"}
                         /\ \A t \in Thr : tpc[t].at # "post"

\* The body of PSC_Server_destroy: without connections the server is freed at
\* once; else every worker has to destroy its pool, and the last connection
\* that is closed ends the wait.
PSC_Server_destroy ==
    /\ timer' = FALSE
    /\ \/ nconn = 0 /\ srv' = "freed" /\ UNCHANGED <<tq, mpc>>
       \/ /\ nconn # 0
          /\ tq' = [t \in Thr |-> Append(tq[t], DestroyPool)]
          /\ mpc' = "wait"
          /\ UNCHANGED srv
    /\ UNCHANGED <<disabled, nconn, allclosed, nactive, nextthr, conn, thr, tpc>>

\* Called by the user ...
Destroy == srv = "live" /\ mpc = "loop" /\ MayDestroy /\ PSC_Server_destroy

\* ... or by the shutdown timer or the end of the service (forceDestroy).
forceDestroy ==
    /\ srv = "shutdown" /\ mpc = "loop" /\ (timer \/ Quits)
    /\ MayDestroy
    /\ PSC_Server_destroy

\* sem_wait(&self->allclosed), and the server is freed.
destroy_wait ==
    /\ mpc = "wait" /\ allclosed > 0
    /\ allclosed' = allclosed - 1
    /\ srv' = "freed" /\ mpc' = "loop"
    /\ UNCHANGED <<disabled, nconn, nactive, nextthr, timer, conn, thr, tq, tpc>>

\* Graceful shutdown: with connections left, only the listening sockets go, unless
\* there is no timer to be had.
PSC_Server_shutdown(timeout) ==
    /\ srv = "live" /\ mpc = "loop" /\ MayDestroy
    /\ \/ (nconn = 0 \/ timeout # 0) /\ PSC_Server_destroy
       \/ /\ nconn # 0
          /\ srv' = "shutdown" /\ timer' = (timeout # 0)
          /\ UNCHANGED <<disabled, nconn, allclosed, nactive, nextthr, conn, thr,
                         tq, tpc, mpc>>

-----------------------------------------------------------------------------
(* The workers *)

Goto(t, at) == tpc' = [tpc EXCEPT ![t] = at]

\* doaccept: the connection is created and counted; the first one takes the
\* semaphore down.
doaccept(t) ==
    /\ tpc[t] = Idle /\ tq[t] # <<>> /\ Head(tq[t]).run = "doaccept"
    /\ LET c == Head(tq[t]).conn
       IN  /\ conn' = [conn EXCEPT ![c] = "opening"]
           /\ Goto(t, At(IF nconn = 0 THEN "semwait" ELSE "register", c))
    /\ nconn' = nconn + 1
    /\ tq' = [tq EXCEPT ![t] = Tail(@)]
    /\ UNCHANGED <<srv, disabled, allclosed, nactive, nextthr, timer, thr, mpc>>

\* Mutant: the worker's count is not corrected.
doaccept_fail_keep(t) ==
    /\ tpc[t] = Idle /\ tq[t] # <<>> /\ Head(tq[t]).run = "doaccept"
    /\ conn' = [conn EXCEPT ![Head(tq[t]).conn] = "closed"]
    /\ tq' = [tq EXCEPT ![t] = Tail(@)]
    /\ UNCHANGED <<srv, disabled, nconn, allclosed, nactive, nextthr, timer, thr,
                   tpc, mpc>>

\* PSC_Connection_create fails.
doaccept_fail(t) ==
    /\ tpc[t] = Idle /\ tq[t] # <<>> /\ Head(tq[t]).run = "doaccept"
    /\ conn' = [conn EXCEPT ![Head(tq[t]).conn] = "closed"]
    /\ nactive' = [nactive EXCEPT ![t] = @ - 1]
    /\ tq' = [tq EXCEPT ![t] = Tail(@)]
    /\ UNCHANGED <<srv, disabled, nconn, allclosed, nextthr, timer, thr, tpc, mpc>>

doaccept_semwait(t) ==
    /\ tpc[t].at = "semwait" /\ allclosed > 0
    /\ allclosed' = allclosed - 1
    /\ Goto(t, At("register", tpc[t].conn))
    /\ UNCHANGED <<srv, disabled, nconn, nactive, nextthr, timer, conn, thr, tq, mpc>>

\* The rest of doaccept: removeConnection is registered, clientConnected called.
doaccept_register(t) ==
    /\ tpc[t].at = "register"
    /\ conn' = [conn EXCEPT ![tpc[t].conn] = "open"]
    /\ Goto(t, Idle)
    /\ UNCHANGED <<srv, disabled, nconn, allclosed, nactive, nextthr, timer, thr,
                   tq, mpc>>

\* Mutant: the semaphore is never posted.
removeConnection_nopost(t, c) ==
    /\ tpc[t] = Idle /\ conn[c] = "open" /\ thr[c] = t
    /\ conn' = [conn EXCEPT ![c] = "closed"]
    /\ nactive' = [nactive EXCEPT ![t] = @ - 1]
    /\ nconn' = nconn - 1
    /\ UNCHANGED <<srv, disabled, allclosed, nextthr, timer, thr, tq, tpc, mpc>>

\* A connection is closed: removeConnection, up to the post if it was the last.
\* nactive is only read by the scan of acceptConnection.
removeConnection(t, c) ==
    /\ tpc[t] = Idle /\ conn[c] = "open" /\ thr[c] = t
    /\ conn' = [conn EXCEPT ![c] = "closed"]
    /\ nactive' = [nactive EXCEPT ![t] = @ - 1]
    /\ nconn' = nconn - 1
    /\ IF nconn = 1 THEN Goto(t, At("post", c)) ELSE UNCHANGED tpc
    /\ UNCHANGED <<srv, disabled, allclosed, nextthr, timer, thr, tq, mpc>>

removeConnection_post(t) ==
    /\ tpc[t].at = "post"
    /\ allclosed' = allclosed + 1
    /\ Goto(t, Idle)
    /\ UNCHANGED <<srv, disabled, nconn, nactive, nextthr, timer, conn, thr, tq, mpc>>

OpenOn(t) == {c \in Conns : conn[c] = "open" /\ thr[c] = t}
InDestroyPool(t) == tpc[t] = Idle /\ tq[t] # <<>> /\ Head(tq[t]).run = "destroyPool"

\* destroyPool closes the worker's connections one by one (removeConnection),
\* and is done.
destroyPool_done(t) ==
    /\ InDestroyPool(t) /\ OpenOn(t) = {}
    /\ tq' = [tq EXCEPT ![t] = Tail(@)]
    /\ UNCHANGED <<srv, disabled, nconn, allclosed, nactive, nextthr, timer, conn,
                   thr, tpc, mpc>>

\* What a worker does without any client: serve its commands.
WorkerStep(t) ==
    \/ doaccept(t) \/ doaccept_fail(t) \/ doaccept_semwait(t) \/ doaccept_register(t)
    \/ removeConnection_post(t) \/ destroyPool_done(t)
    \/ InDestroyPool(t) /\ \E c \in Conns : removeConnection(t, c)

\* A client goes, or the user closes the connection.
Closes(c) == \E t \in Thr : removeConnection(t, c)

Next == \/ \E c \in Conns : \/ acceptConnection(c) \/ acceptConnection_reject(c)
                            \/ Closes(c)
        \/ PSC_Server_disable \/ PSC_Server_enable
        \/ Destroy \/ forceDestroy \/ destroy_wait
        \/ \E timeout \in Timeouts : PSC_Server_shutdown(timeout)
        \/ \E t \in Thr : WorkerStep(t)

Spec == Init /\ [][Next]_vars

\* Workers and the main thread keep running, and a shutdown timer expires.
Fairness ==
    /\ \A t \in Thr : WF_vars(WorkerStep(t))
    /\ WF_vars(destroy_wait) /\ WF_vars(forceDestroy)

-----------------------------------------------------------------------------
(* Properties. *)

TypeOK ==
    /\ srv \in {"live", "shutdown", "freed"} /\ mpc \in {"loop", "wait"}
    /\ disabled \in BOOLEAN /\ timer \in BOOLEAN
    /\ nconn \in Nat /\ allclosed \in Nat
    /\ nactive \in [Thr -> Nat] /\ nextthr \in Thr
    /\ conn \in [Conns -> {"new", "pending", "opening", "open", "closed"}]
    /\ thr \in [Conns -> Thr]
    /\ tq \in [Thr -> Seq(Commands)]
    /\ tpc \in [Thr -> {Idle} \cup [at : {"semwait", "register", "post"}, conn : Conns]]

Waiting == {t \in Thr : tpc[t].at = "semwait"}
Posting == {t \in Thr : tpc[t].at = "post"}
Counted == {c \in Conns : conn[c] \in {"opening", "open"}}
Active(t) == {c \in Conns : thr[c] = t /\ conn[c] \in {"pending", "opening", "open"}}

CountersAgree ==
    /\ nconn = Cardinality(Counted)
    /\ \A t \in Thr : nactive[t] = Cardinality(Active(t))
SemaphoreAgrees ==
    allclosed + Cardinality(Posting) + (IF nconn = 0 THEN 0 ELSE 1) = 1 + Cardinality(Waiting)

\* Until the server is freed the counters agree with the connections there
\* are, and the semaphore, up to the waits and posts under way, is up exactly
\* while there are none.
CountsExact == srv # "freed" => CountersAgree /\ SemaphoreAgrees

\* "This will close all active client connections and stop listening"
\* (server.h): once the server is freed, no connection of it is left, none is
\* still to be created for it, and no worker is still to post its semaphore.
AllClosedWhenDestroyed ==
    srv = "freed" => /\ \A c \in Conns : conn[c] \in {"new", "closed"}
                     /\ \A t \in Thr : tpc[t].at # "post"

\* The counters agree with the connections there are, and once the server is
\* freed no connection of it is left and no worker works on it.
ConnectionsCounted == CountsExact /\ AllClosedWhenDestroyed

\* Every command to accept is for a connection that waits for this worker, and
\* there is one at most.
CommandsAgree == \A t \in Thr : \A i \in DOMAIN tq[t] : tq[t][i].run = "doaccept" =>
    LET c == tq[t][i].conn
    IN  /\ conn[c] = "pending" /\ thr[c] = t
        /\ \A k \in DOMAIN tq[t] : tq[t][k] = DoAccept(c) => k = i

\* A worker in the middle of doaccept creates a connection of its own.
WorkersAgree == \A t \in Thr : tpc[t].at \in {"semwait", "register"} =>
    conn[tpc[t].conn] = "opening" /\ thr[tpc[t].conn] = t

\* From a shutdown or the wait on, nothing is left to be created.
NothingToCreate == Settled /\ (mpc = "wait" \/ srv # "live") =>
    \A c \in Conns : conn[c] \notin {"pending", "opening"}

\* The inductive invariant.
IInv == /\ TypeOK /\ CountersAgree /\ (srv # "freed" => SemaphoreAgrees)
        /\ (Settled => AllClosedWhenDestroyed)
        /\ CommandsAgree /\ WorkersAgree /\ NothingToCreate /\ (mpc = "wait" => srv # "freed")

\* PSC_Server_destroy comes back: the wait for the last connection ends.
DestroyCompletes == mpc = "wait" ~> srv = "freed"

\* Graceful shutdown defers destruction "until all client connections are closed
\* or the given timeout is reached.  The server is finally destroyed" (server.h):
\* with a timeout it is destroyed, however long the clients stay.
ShutdownCompletes == timer ~> srv = "freed"
=============================================================================
