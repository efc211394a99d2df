------------------------------ MODULE Service ------------------------------
(***************************************************************************)
(* PSC_Service (service.c): serviceLoop on the main thread and on the      *)
(* worker threads, from startup to the end.  Build: epoll, signalfd,       *)
(* eventfd, lock-free command queues.  What one round of events does with  *)
(* descriptors is in Watch, the command queue in CommandQueue.             *)
(*                                                                         *)
(* The main thread waits at "wait" and handles events, and runs commands   *)
(* and eventsDone handlers, at "round"; what a handler may do there is an  *)
(* action of its own.                                                      *)
(***************************************************************************)
EXTENDS Integers, FiniteSets

CONSTANTS SvcWorkers,  \* the worker threads, 0 .. opts->workerThreads - 1
          MaxLocks,    \* shutdown locks the application takes at a time
          MaxTerms,    \* termination signals sent
          Settled      \* TRUE: workers start, and before the first event is handled

SvcAssumption == MaxLocks \in Nat /\ MaxTerms \in Nat

VARIABLES main,    \* [pc, rc, got]: position, return value, what woke it up
          ref,     \* shutdownRef of the main thread's Service
          mainsvc, \* TRUE: mainsvc is set
          sig,     \* [mask, fd, rec, hdl]: blocked user signal, seen by signalfd,
                   \* its SigHdlRec exists, its handler is set
          shutdownTimer, \* shutdownTimer: "none", "armed", "fired", "expired" (and handled)
          threadpool, \* the thread pool: "none", "up", "stopping", "stopped"
          cq,      \* the main thread's command queue: "zero", "live", "dead"
          worker,  \* per worker [pc, ref, cq, told, stop]: told to stop, and its queue
                   \* holds the command
          app      \* what happened: see SvcInit

svars == <<main, ref, mainsvc, sig, shutdownTimer, threadpool, cq, worker, app>>

SvcInit ==
    /\ main = [pc |-> "begin", rc |-> 1, got |-> {}]
    /\ ref = 0 /\ mainsvc = FALSE
    /\ \E h \in BOOLEAN : sig = [mask |-> "orig", fd |-> FALSE, usr |-> FALSE,
                                 rec |-> h, hdl |-> h]
    /\ shutdownTimer = "none" /\ cq = "zero"
    /\ \E run \in BOOLEAN : threadpool = IF run THEN "up" ELSE "none"
    /\ worker = [w \in SvcWorkers |-> [pc |-> "none", ref |-> 0, cq |-> "zero",
                                     told |-> FALSE, stop |-> FALSE]]
    /\ app = [hold |-> 0, forced |-> FALSE, terms |-> 0, pending |-> FALSE, quit |-> "no",
              notimer |-> FALSE, crashed |-> FALSE]

-----------------------------------------------------------------------------
(* Startup on the main thread *)

Goto(pc) == main' = [main EXCEPT !.pc = pc]
Fail(pc, rc) == main' = [main EXCEPT !.pc = pc, !.rc = rc]

\* Signals are blocked, signalfd and epoll set up.  Without the thread pool, or
\* when the signals cannot be blocked, nothing was done yet.
begin ==
    /\ main.pc = "begin"
    /\ \/ Fail("returned", 1) /\ UNCHANGED sig
       \/ /\ sig' = [sig EXCEPT !.mask = "blocked"]
          /\ Goto("prestartup") \/ Fail("done", 1)
    /\ UNCHANGED <<ref, mainsvc, shutdownTimer, threadpool, cq, worker, app>>

\* The prestartup event; then the user is switched, and a failure of that returns
\* at once.
prestartup ==
    /\ main.pc = "prestartup"
    /\ Goto("startup") \/ Fail("done", 2) \/ Fail("returned", 1)
    /\ UNCHANGED <<ref, mainsvc, sig, shutdownTimer, threadpool, cq, worker, app>>

\* The startup event, then the signals with handlers are blocked, the command
\* queue is created and the service is published.  A failure to block them
\* returns at once, too.
startup ==
    /\ main.pc = "startup"
    /\ \/ Fail("done", 2) /\ UNCHANGED <<sig, cq, mainsvc>>
       \/ Fail("returned", 0) /\ UNCHANGED <<sig, cq, mainsvc>>
       \/ /\ sig' = [sig EXCEPT !.usr = sig.rec, !.fd = sig.rec]
          /\ \/ Fail("create", 0) /\ cq' = "live" /\ mainsvc' = TRUE
             \/ Fail("shutdown", 0) /\ cq' = "none" /\ UNCHANGED mainsvc
    /\ UNCHANGED <<ref, shutdownTimer, threadpool, worker, app>>

\* One worker thread; when it cannot be created, the service ends.
createWorker(w) ==
    /\ main.pc = "create" /\ worker[w].pc = "none"
    /\ \A v \in SvcWorkers : v < w => worker[v].pc # "none"
    /\ \/ worker' = [worker EXCEPT ![w].pc = "start"] /\ UNCHANGED main
       \/ ~Settled /\ Goto("shutdown") /\ UNCHANGED worker
    /\ UNCHANGED <<ref, mainsvc, sig, shutdownTimer, threadpool, cq, app>>

\* Only now is shutdownRef set, and the loop begins.
serviceRuns ==
    /\ main.pc = "create" /\ \A w \in SvcWorkers : worker[w].pc # "none"
    /\ Settled => \A w \in SvcWorkers : worker[w].pc = "loop"
    /\ Goto("wait") /\ ref' = -1
    /\ UNCHANGED <<mainsvc, sig, shutdownTimer, threadpool, cq, worker, app>>

-----------------------------------------------------------------------------
(* The loop on the main thread *)

\* The wait returns: for a signal, the timer, the pool or something else.  What
\* it reports is handled in this round.
Ready == (IF app.pending THEN {"term"} ELSE {})
         \cup (IF shutdownTimer = "fired" THEN {"timer"} ELSE {})
         \cup (IF threadpool = "stopped" THEN {"pool"} ELSE {})
processEvents ==
    /\ main.pc = "wait"
    /\ \/ main' = [main EXCEPT !.pc = "round", !.got = Ready]
       \/ Fail("shutdown", 1)
    /\ UNCHANGED <<ref, mainsvc, sig, shutdownTimer, threadpool, cq, worker, app>>
Handle(e) == /\ main.pc = "round" /\ e \in main.got
             /\ main' = [main EXCEPT !.got = @ \ {e}]

\* PSC_Service_shutdownLock n times in a service that shuts down, with nothing
\* counted.  The first creates the timer; every one that cannot, k in all, has the
\* service exit immediately: the count is 0 again.
Failing(n) == IF shutdownTimer = "none" THEN 0 .. n ELSE {0}
ShutdownLocks(n, k) == n - k
Arm(n) == IF n > 0 /\ shutdownTimer = "none" THEN "armed" ELSE shutdownTimer

\* Mutant: the locks taken by the shutdown handlers are forgotten.
handleSigfd_after ==
    /\ Handle("term")
    /\ \E n \in 0 .. MaxLocks - app.hold :
          /\ ref' = 0 /\ shutdownTimer' = Arm(n)
          /\ app' = [app EXCEPT !.pending = FALSE, !.hold = @ + n, !.terms = @ + 1,
                                !.forced = @ \/ ref >= 0]
    /\ UNCHANGED <<mainsvc, sig, threadpool, cq, worker>>

\* SIGTERM or SIGINT: the shutdown event, whose handlers may take locks.
handleSigfd ==
    /\ Handle("term")
    /\ \E n \in 0 .. MaxLocks - app.hold : \E k \in Failing(n) :
          /\ ref' = ShutdownLocks(n, k) /\ shutdownTimer' = Arm(n - k)
          /\ app' = [app EXCEPT !.pending = FALSE, !.hold = @ + n, !.terms = @ + 1,
                                !.forced = @ \/ ref >= 0 \/ k > 0,
                                !.notimer = @ \/ k > 0]
    /\ UNCHANGED <<mainsvc, sig, threadpool, cq, worker>>

\* The timer of 5 seconds.
shutdownTimeout ==
    /\ Handle("timer")
    /\ ref' = 0 /\ shutdownTimer' = "expired"
    /\ app' = [app EXCEPT !.forced = TRUE]
    /\ UNCHANGED <<mainsvc, sig, threadpool, cq, worker>>

PSC_Service_shutdownUnlock ==
    /\ main.pc = "round" /\ app.hold > 0
    /\ ref' = IF ref > 0 THEN ref - 1 ELSE ref
    /\ app' = [app EXCEPT !.hold = @ - 1]
    /\ UNCHANGED <<main, mainsvc, sig, shutdownTimer, threadpool, cq, worker>>

\* The last thread of the pool has stopped.
poolStopped ==
    /\ Handle("pool")
    /\ threadpool' = "none" /\ ref' = IF ref > 0 THEN ref - 1 ELSE ref
    /\ UNCHANGED <<mainsvc, sig, shutdownTimer, cq, worker, app>>

\* On the main thread, or on another one: the loop is not woken up.
PSC_Service_quit(where) ==
    /\ IF where = "here" THEN main.pc = "round" ELSE mainsvc
    /\ app.quit = "no"
    /\ ref' = IF ref = -1 THEN 0 ELSE ref
    /\ app' = [app EXCEPT !.quit = where]
    /\ UNCHANGED <<main, mainsvc, sig, shutdownTimer, threadpool, cq, worker>>

\* On the main thread, in the loop: handlers are called, and it is left.
PSC_Service_panic ==
    /\ main.pc = "round" /\ Fail("shutdown", 1)
    /\ UNCHANGED <<ref, mainsvc, sig, shutdownTimer, threadpool, cq, worker, app>>

\* PSC_Service_registerSignal in the loop, for a signal that is not the
\* service's own.  A record, once there, stays.
registerSignal(on) ==
    /\ main.pc = "round"
    /\ sig' = CASE sig.rec /\ ~on -> [sig EXCEPT !.usr = FALSE, !.fd = FALSE, !.hdl = FALSE]
                [] ~sig.rec /\ on -> [sig EXCEPT !.usr = TRUE, !.fd = TRUE,
                                                 !.rec = TRUE, !.hdl = TRUE]
                [] OTHER -> [sig EXCEPT !.rec = TRUE, !.hdl = on]
    /\ UNCHANGED <<main, ref, mainsvc, shutdownTimer, threadpool, cq, worker, app>>

\* PSC_Service_runOnThread(w, ..) on the main thread, on another worker or on a
\* pool thread, while there are workers.  A queue that does not exist, or does no
\* more, is used all the same; what then happens is undefined, and only noted.
Enqueue(w) == [app EXCEPT !.crashed = @ \/ worker[w].cq # "live"]
PSC_Service_runOnThread(w) ==
    /\ cq = "live"
    /\ \/ main.pc = "round" \/ threadpool \in {"up", "stopping"}
       \/ \E v \in SvcWorkers \ {w} : worker[v].pc = "loop"
    /\ app' = Enqueue(w)
    /\ UNCHANGED <<main, ref, mainsvc, sig, shutdownTimer, threadpool, cq, worker>>

\* The end of a round.  With PSC_Service_run the pool is stopped first, which
\* takes a shutdown lock; a pool that still stops takes another one.  Without a
\* timer for that lock, the loop is left while the pool stops.
roundEnd ==
    /\ main.pc = "round" /\ main.got = {}
    /\ IF ref = 0 /\ threadpool # "none"
       THEN /\ threadpool' = IF threadpool = "up" THEN "stopping" ELSE threadpool
            /\ \E k \in Failing(1) :
                  /\ ref' = ShutdownLocks(1, k) /\ shutdownTimer' = Arm(1 - k)
                  /\ Goto(IF k = 1 THEN "shutdown" ELSE "wait")
                  /\ app' = [app EXCEPT !.notimer = @ \/ k > 0]
       ELSE /\ Goto(IF ref = 0 THEN "shutdown" ELSE "wait")
            /\ UNCHANGED <<threadpool, ref, shutdownTimer, app>>
    /\ UNCHANGED <<mainsvc, sig, cq, worker>>

-----------------------------------------------------------------------------
(* The end on the main thread *)

shutdown ==
    /\ main.pc = "shutdown" /\ Goto("done") /\ shutdownTimer' = "none"
    /\ UNCHANGED <<ref, mainsvc, sig, threadpool, cq, worker, app>>

\* Worker after worker is told to stop, and waited for: also one that did not
\* start, or was never created.
stopWorker(w) ==
    /\ main.pc = "done" /\ cq = "live"
    /\ ~worker[w].told /\ \A v \in SvcWorkers : v < w => worker[v].pc = "joined"
    /\ worker' = [worker EXCEPT ![w].told = TRUE, ![w].stop = worker[w].cq = "live"]
    /\ app' = Enqueue(w)
    /\ UNCHANGED <<main, ref, mainsvc, sig, shutdownTimer, threadpool, cq>>
joinWorker(w) ==
    /\ main.pc = "done" /\ worker[w].told /\ worker[w].pc \in {"none", "ended"}
    /\ worker' = [worker EXCEPT ![w].pc = "joined"]
    /\ UNCHANGED <<main, ref, mainsvc, sig, shutdownTimer, threadpool, cq, app>>

cleanup ==
    /\ main.pc = "done" /\ (cq = "live" => \A w \in SvcWorkers : worker[w].pc = "joined")
    /\ Goto("ended") /\ cq' = "dead" /\ mainsvc' = FALSE
    /\ sig' = [mask |-> "orig", fd |-> FALSE, usr |-> FALSE, rec |-> FALSE, hdl |-> FALSE]
    /\ UNCHANGED <<ref, shutdownTimer, threadpool, worker, app>>

-----------------------------------------------------------------------------
(* A worker *)

\* runsecondary, and the startup of serviceLoop: the queue exists from here on.
runsecondary(w) ==
    /\ worker[w].pc = "start"
    /\ \/ worker' = [worker EXCEPT ![w].pc = "loop", ![w].ref = -1, ![w].cq = "live"]
       \/ ~Settled /\ worker' = [worker EXCEPT ![w].pc = "ended"]
    /\ UNCHANGED <<main, ref, mainsvc, sig, shutdownTimer, threadpool, cq, app>>

\* Mutant: nothing tells the worker to stop.
shutdownWorker_not(w) ==
    /\ worker[w].pc = "loop" /\ worker[w].stop
    /\ worker' = [worker EXCEPT ![w].stop = FALSE]
    /\ UNCHANGED <<main, ref, mainsvc, sig, shutdownTimer, threadpool, cq, app>>
\* shutdownWorker is run: the worker leaves its loop and destroys the queue.
shutdownWorker(w) ==
    /\ worker[w].pc = "loop" /\ worker[w].stop
    /\ worker' = [worker EXCEPT ![w].ref = 0, ![w].pc = "ended", ![w].cq = "dead"]
    /\ UNCHANGED <<main, ref, mainsvc, sig, shutdownTimer, threadpool, cq, app>>

\* External: the time is over, the last pool thread ends, a termination signal comes.
TimerFires == /\ shutdownTimer = "armed" /\ shutdownTimer' = "fired"
              /\ UNCHANGED <<main, ref, mainsvc, sig, threadpool, cq, worker, app>>
PoolThreadsEnd == /\ threadpool = "stopping" /\ threadpool' = "stopped"
                  /\ UNCHANGED <<main, ref, mainsvc, sig, shutdownTimer, cq, worker, app>>
Sigterm ==
    /\ ~app.pending /\ app.terms < MaxTerms /\ main.pc \in {"wait", "round"}
    /\ app' = [app EXCEPT !.pending = TRUE]
    /\ UNCHANGED <<main, ref, mainsvc, sig, shutdownTimer, threadpool, cq, worker>>

-----------------------------------------------------------------------------
Startup == begin \/ prestartup \/ startup \/ serviceRuns \/ \E w \in SvcWorkers : createWorker(w)
End == shutdown \/ cleanup \/ \E w \in SvcWorkers : stopWorker(w) \/ joinWorker(w)
SvcNext ==
    \/ Startup \/ processEvents \/ handleSigfd \/ shutdownTimeout \/ poolStopped
    \/ PSC_Service_shutdownUnlock \/ \E where \in {"here", "elsewhere"} : PSC_Service_quit(where)
    \/ PSC_Service_panic \/ \E on \in BOOLEAN : registerSignal(on)
    \/ \E w \in SvcWorkers : PSC_Service_runOnThread(w)
    \/ roundEnd \/ End \/ TimerFires \/ PoolThreadsEnd \/ Sigterm
    \/ \E w \in SvcWorkers : runsecondary(w) \/ shutdownWorker(w)

SvcSpec == SvcInit /\ [][SvcNext]_svars

Handling == handleSigfd \/ shutdownTimeout \/ poolStopped \/ roundEnd
\* The threads run, the main thread wakes up for what is ready, time passes and
\* pool threads finish their jobs.
SvcFairness ==
    /\ WF_svars(Startup) /\ WF_svars(End) /\ WF_svars(Handling)
    /\ WF_svars(Ready # {} /\ processEvents)
    /\ WF_svars(TimerFires) /\ WF_svars(PoolThreadsEnd)
    /\ \A w \in SvcWorkers : WF_svars(runsecondary(w)) /\ WF_svars(shutdownWorker(w))
SvcFairSpec == SvcSpec /\ SvcFairness

-----------------------------------------------------------------------------
(* Properties *)

\* The loop is not left while shutdown locks are held, unless the timer
\* expired, a termination signal came while the service was shutting down
\* already, there was no timer to be had, or it failed.
DelayHonoured ==
    main.pc \in {"shutdown", "done", "ended"} /\ main.rc = 0 /\ app.terms > 0 =>
        app.hold = 0 \/ app.forced

\* With PSC_Service_run, a service whose workers were created and that did not
\* fail ends only after the last pool thread stopped, unless there was no timer.
Ran == mainsvc /\ \A w \in SvcWorkers : worker[w].pc # "none"
PoolStoppedFirst ==
    main.pc = "shutdown" /\ main.rc = 0 /\ Ran /\ ~app.notimer => threadpool = "none"

\* Commands are only ever put into a queue that exists.  No run checks it, for it
\* does not hold: workers start after they can be posted to, and stop one by one.
CommandsKept == ~app.crashed

\* Shutdown locks delay the end, and the loop ends after the last pool thread.
EndsInOrder == DelayHonoured /\ PoolStoppedFirst

\* A signal with a handler comes to the loop.  No run checks it, for it does not
\* hold: the handler of a signal that had one before is set, and nothing else.
HandlerGetsSignal == main.pc \in {"wait", "round"} /\ sig.hdl => sig.usr /\ sig.fd

\* Locks that were taken after the only timeout there is are waited for forever.
LockedAgain == shutdownTimer = "expired" /\ app.hold > 0 /\ ref > 0

\* A termination signal ends the service: handlers are done with their locks, or
\* the timer ends the delay, pool threads and workers stop, and are waited for.
TermEnds == app.pending /\ main.pc \in {"wait", "round"} ~> main.pc = "ended" \/ LockedAgain

\* PSC_Service_quit on the main thread ends the service.
QuitEnds == app.quit = "here" ~> main.pc = "ended" \/ LockedAgain

\* PSC_Service_quit ends the service on whatever thread it is called.
QuitElsewhereEnds == app.quit = "elsewhere" ~> main.pc = "ended" \/ LockedAgain

-----------------------------------------------------------------------------
(* The inductive invariant *)

MainPcs == {"begin", "prestartup", "startup", "create", "wait", "round", "shutdown",
            "done", "ended", "returned"}
Mains == [pc : MainPcs, rc : {0, 1, 2}, got : SUBSET {"term", "timer", "pool"}]
Signals == [mask : {"orig", "blocked"}, fd : BOOLEAN, usr : BOOLEAN, rec : BOOLEAN,
            hdl : BOOLEAN]
WorkerStates == [pc : {"none", "start", "loop", "ended", "joined"}, ref : {0, -1},
                 cq : {"zero", "live", "dead"}, told : BOOLEAN, stop : BOOLEAN]
Happened == [hold : Nat, forced : BOOLEAN, terms : Nat, pending : BOOLEAN,
             quit : {"no", "here", "elsewhere"}, notimer : BOOLEAN, crashed : BOOLEAN]

SvcTypeOK ==
    /\ main \in Mains /\ ref \in Int /\ mainsvc \in BOOLEAN /\ sig \in Signals
    /\ shutdownTimer \in {"none", "armed", "fired", "expired"}
    /\ threadpool \in {"none", "up", "stopping", "stopped"}
    /\ cq \in {"zero", "live", "none", "dead"}
    /\ worker \in [SvcWorkers -> WorkerStates] /\ app \in Happened

InLoop == main.pc \in {"wait", "round"}

\* What waits for the end is counted, until the delay is cut short: every lock
\* the handlers hold, and the one for a pool that stops.
LocksCounted ==
    InLoop /\ ~app.forced =>
        /\ app.terms > 0 => ref >= app.hold
        /\ threadpool \in {"stopping", "stopped"} => ref > app.hold

\* Signals, and so locks, come only to a service that runs, and only there the
\* pool is stopped; that it has stopped is seen once.
LocksInLoop ==
    /\ app.terms = 0 => app.hold = 0
    /\ app.terms > 0 \/ threadpool \in {"stopping", "stopped"} =>
           main.pc \in {"wait", "round", "shutdown", "done", "ended"}
    /\ main.pc = "round" /\ "pool" \in main.got => threadpool = "stopped"

\* The service is published at the end of its startup.
Published == mainsvc => main.pc \notin {"begin", "prestartup", "startup"}

SvcInv == SvcTypeOK /\ LocksCounted /\ LocksInLoop /\ Published /\ EndsInOrder
=============================================================================
