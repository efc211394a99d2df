----------------------------- MODULE MCService -----------------------------
(***************************************************************************)
(* The parts that make up a service, each on an instance of its own: "part" *)
(* says which of them the behaviour is about, the others stay as they are. *)
(* Fairness is a hypothesis of the liveness properties, part by part.      *)
(***************************************************************************)
EXTENDS Event, ThreadPool, JobQueue, Service, Watch, Timer, Process, Daemon

VARIABLE part

-----------------------------------------------------------------------------
(* Values for constants; the small ones are in the configuration. *)

\* Of three handlers, two are for the same identifier.
Ids3 == [h \in Handlers |-> IF h = "h3" THEN 1 ELSE 0]

\* Two jobs and what a program may do with them.
Plain == [sz |-> 2, async |-> {}, blocking |-> {}, timed |-> {}, canceled |-> {},
          panicking |-> {}, stops |-> FALSE]
\* Jobs are canceled by the user and by their timeouts.
Cancels == [Plain EXCEPT !.timed = {"j1", "j2"}, !.canceled = {"j1"}]
\* Jobs await tasks, on threads and off them.
Awaits == [Plain EXCEPT !.async = {"j1"}, !.blocking = {"j2"}]
\* A short queue overflows, a job panics, and the pool is stopped.
Stops == [Plain EXCEPT !.sz = 1, !.async = {"j1"}, !.timed = {"j2"}, !.canceled = {"j2"},
                       !.panicking = {"j2"}, !.stops = TRUE]
Programs == {Cancels, Awaits, Stops}

\* A child without pipes, one with one to write to, and one with another to read from.
Pipes == {{}, {0}, {0, 1}}

ASSUME /\ EventAssumption /\ PoolAssumption /\ NoSignalWhileBlocked /\ SvcAssumption
       /\ WatchAssumption /\ TimerAssumption /\ ProcAssumption /\ DaemonAssumption

-----------------------------------------------------------------------------
Parts == {"event", "pool", "jobqueue", "service", "watch", "timer", "process", "daemon"}

\* A part that is not looked at starts in one way only.
MCInit ==
    /\ part \in Parts
    /\ EventInit /\ PoolInit /\ Init /\ SvcInit /\ WatchInit /\ TimerInit /\ ProcInit
    /\ DaemonInit
    /\ part # "pool" => opts = Stops
    /\ part # "service" => threadpool = "none" /\ ~sig.hdl
    /\ part # "watch" => be = "epoll"
    /\ part # "process" => \A p \in Procs : proc[p].pipes = {}
    /\ part # "daemon" => serial

MCNext ==
    \/ part = "event" /\ EventNext
       /\ UNCHANGED <<part, poolvars, vars, svars, wvars, tvars, pvars, dvars>>
    \/ part = "pool" /\ PoolNext
       /\ UNCHANGED <<part, evars, vars, svars, wvars, tvars, pvars, dvars>>
    \/ part = "jobqueue" /\ Next
       /\ UNCHANGED <<part, evars, poolvars, svars, wvars, tvars, pvars, dvars>>
    \/ part = "service" /\ SvcNext
       /\ UNCHANGED <<part, evars, poolvars, vars, wvars, tvars, pvars, dvars>>
    \/ part = "watch" /\ WatchNext
       /\ UNCHANGED <<part, evars, poolvars, vars, svars, tvars, pvars, dvars>>
    \/ part = "timer" /\ TimerNext
       /\ UNCHANGED <<part, evars, poolvars, vars, svars, wvars, pvars, dvars>>
    \/ part = "process" /\ ProcNext
       /\ UNCHANGED <<part, evars, poolvars, vars, svars, wvars, tvars, dvars>>
    \/ part = "daemon" /\ DaemonNext
       /\ UNCHANGED <<part, evars, poolvars, vars, svars, wvars, tvars, pvars>>

MCSpec == MCInit /\ [][MCNext]_<<part, evars, poolvars, vars, svars, wvars, tvars, pvars, dvars>>

-----------------------------------------------------------------------------
(* Liveness of the parts; their invariants are in their modules *)

\* threadpool.c: in a pool that is not stopped an accepted job finishes, once.
EveryJobFinishes == part = "pool" /\ PoolFairness => AcceptedFinishes

\* service.c: a termination signal, and PSC_Service_quit on the main thread, end the
\* service.
EndsWhenAsked == part = "service" /\ SvcFairness => TermEnds /\ QuitEnds

\* service.c, processEvents: a descriptor that stays ready gets its readyRead event.
ReadyIsServed == part = "watch" /\ WatchFairness => ReadyIsRaised

\* process.c: with a timeout stopping ends even a child that ignores SIGTERM; a process
\* whose child ends is done in the end, if nothing is read from it, or if the end of a
\* pipe is reported to its reader.
ProcessEnds ==
    part = "process" /\ ProcFairness =>
        StopEnds /\ UnreadIsDone /\ (PipeEndsReported => EndedIsDone)

\* daemon.c, PSC_Daemon_run: every start comes to an end.
StartEnds == part = "daemon" /\ DaemonFairness => StartReturns
=============================================================================
