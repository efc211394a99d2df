------------------------------- MODULE Timer -------------------------------
(***************************************************************************)
(* The timers of one thread in the build with timerfd (timer.c): a pool of *)
(* timers that are reused, counted by refcnt, each with a descriptor the   *)
(* kernel arms and counts expirations for.  The application may call every *)
(* function from an expired handler.                                       *)
(***************************************************************************)
EXTENDS Naturals, Sequences, FiniteSets, SequencesExt

CONSTANTS Timers,     \* the timers ever allocated
          Uses,       \* what the application does beyond creating timers, setting
                      \* their time, starting them for one expiration, stopping
                      \* them and destroying those that do not run:
                      \*   "destroy"   it destroys a timer that runs
                      \*   "periodic"  it starts a timer to expire periodically
                      \*   "restart"   a handler starts the timer that expires
                      \*   "last"      a handler destroys the last timer of the thread
          MaxTimes    \* bound: expirations the kernel has counted unread

TimerAssumption ==
    /\ IsFiniteSet(Timers) /\ MaxTimes \in Nat
    /\ Uses \subseteq {"destroy", "periodic", "restart", "last"}

VARIABLES timer,  \* per timer: life, job, ms (0, or not) and periodic
          kernel, \* per timer: how its descriptor is armed, expirations unread
          pooled, \* TimerPool's list of unused timers
          refcnt, \* TimerPool.refcnt; the pool exists while it is not 0
          run,    \* the calls of "expired" in progress: at most one
          user    \* per timer: what the application may expect

tvars == <<timer, kernel, pooled, refcnt, run, user>>

Fresh == [life |-> "none", job |-> 0, ms |-> 0, periodic |-> 0]
Disarmed == [armed |-> "no", times |-> 0]

\* runs: the timer was started and neither stopped nor expired since; left: the
\* descriptor came from the pool armed, or with an expiration unread, by a timer that
\* was destroyed; stray: that expiration was raised; unasked: another one was that
\* nobody waits for.
Quiet == [runs |-> "no", left |-> FALSE, stray |-> FALSE, unasked |-> FALSE]

TimerInit == /\ timer = [t \in Timers |-> Fresh]
             /\ kernel = [t \in Timers |-> Disarmed]
             /\ pooled = <<>> /\ refcnt = 0 /\ run = <<>>
             /\ user = [t \in Timers |-> Quiet]

Used == {t \in Timers : timer[t].life = "used"}

\* Control is with the application: no expired handler runs, or one does.
InUser == run # <<>> => run[1].calls

enableTimer == [life |-> "used", job |-> 0, ms |-> 1, periodic |-> 0]

\* The first unused timer of the pool, its descriptor as it is, or a new one.  (Without
\* a descriptor for it TimerPool_done takes the count back: nothing changes.)
PSC_Timer_create ==
    /\ InUser
    /\ refcnt' = refcnt + 1
    /\ \/ /\ pooled # <<>>
          /\ timer' = [timer EXCEPT ![Head(pooled)] = enableTimer]
          /\ user' = [user EXCEPT ![Head(pooled)] =
                            [Quiet EXCEPT !.left = kernel[Head(pooled)] # Disarmed]]
          /\ pooled' = Tail(pooled)
       \/ /\ pooled = <<>>
          /\ \E t \in Timers :
                /\ timer[t].life = "none"
                /\ timer' = [timer EXCEPT ![t] = enableTimer]
          /\ UNCHANGED <<pooled, user>>
    /\ UNCHANGED <<kernel, run>>

\* A running timer is restarted with PSC_Timer_start, which does nothing for it: only
\* the time of the next start changes.
PSC_Timer_setMs(t, ms) ==
    /\ InUser /\ t \in Used
    /\ timer' = [timer EXCEPT ![t].ms = ms]
    /\ UNCHANGED <<kernel, pooled, refcnt, run, user>>

\* Only a timer that does not run is started, and none with a time of 0; periodic is
\* not kept.
PSC_Timer_start(t, periodic) ==
    /\ InUser /\ t \in Used
    /\ periodic => "periodic" \in Uses
    /\ run # <<>> /\ run[1].t = t => "restart" \in Uses
    /\ IF timer[t].job # 0 \/ timer[t].ms = 0 THEN UNCHANGED <<timer, kernel>>
       ELSE /\ timer' = [timer EXCEPT ![t].job = 1]
            /\ kernel' = [kernel EXCEPT ![t] =
                            [armed |-> IF periodic THEN "period" ELSE "once", times |-> 0]]
    /\ user' = IF timer[t].ms = 0 THEN user
               ELSE [user EXCEPT ![t].runs = IF periodic THEN "period" ELSE "once",
                                 ![t].left = @ /\ timer[t].job # 0]
    /\ UNCHANGED <<pooled, refcnt, run>>

\* Mutant: the descriptor stays armed.
PSC_Timer_stop_armed(t) ==
    /\ InUser /\ t \in Used
    /\ timer' = [timer EXCEPT ![t].job = 0]
    /\ user' = [user EXCEPT ![t].runs = "no"]
    /\ UNCHANGED <<kernel, pooled, refcnt, run>>

PSC_Timer_stop(t) ==
    /\ InUser /\ t \in Used
    /\ IF timer[t].job = 0 THEN UNCHANGED <<timer, kernel>>
       ELSE /\ timer' = [timer EXCEPT ![t].job = 0]
            /\ kernel' = [kernel EXCEPT ![t] = Disarmed]
    /\ user' = [user EXCEPT ![t].runs = "no"]
    /\ UNCHANGED <<pooled, refcnt, run>>

\* The timer goes to the end of the pool's list, its descriptor armed as it is.  With
\* the last one in use, the pool and every timer in it are freed.
PSC_Timer_destroy(t) ==
    /\ InUser /\ t \in Used
    /\ user[t].runs # "no" => "destroy" \in Uses
    /\ run # <<>> /\ refcnt = 1 => "last" \in Uses
    /\ refcnt' = refcnt - 1
    /\ IF refcnt = 1
       THEN /\ timer' = [u \in Timers |-> IF timer[u].life = "none" THEN Fresh
                                         ELSE [Fresh EXCEPT !.life = "freed"]]
            /\ kernel' = [u \in Timers |-> Disarmed]
            /\ pooled' = <<>>
       ELSE /\ timer' = [timer EXCEPT ![t].life = "pooled"]
            /\ pooled' = Append(pooled, t)
            /\ UNCHANGED kernel
    /\ user' = [user EXCEPT ![t] = Quiet]
    /\ UNCHANGED run

-----------------------------------------------------------------------------
(* Expiration *)

\* External: the kernel.
tick(t) ==
    /\ kernel[t].armed # "no" /\ kernel[t].times < MaxTimes
    /\ kernel' = [kernel EXCEPT ![t].times = @ + 1,
                                ![t].armed = IF @ = "once" THEN "no" ELSE @]
    /\ UNCHANGED <<timer, pooled, refcnt, run, user>>

\* readyRead for the descriptor: the event is raised once per expiration.
\* A read that finds nothing (the timer was stopped since) is left alone.
expired(t) ==
    /\ run = <<>> /\ timer[t].life \in {"used", "pooled"} /\ kernel[t].times # 0
    /\ run' = <<[t |-> t, left |-> kernel[t].times, calls |-> FALSE]>>
    /\ kernel' = [kernel EXCEPT ![t].times = 0]
    /\ UNCHANGED <<timer, pooled, refcnt, user>>

\* PSC_Event_raise: without a handler, as in a destroyed timer, nothing happens.
expired_raise ==
    /\ run # <<>> /\ ~run[1].calls /\ run[1].left # 0
    /\ LET t == run[1].t
       IN  /\ run' = <<[run[1] EXCEPT !.left = @ - 1, !.calls = t \in Used]>>
           /\ user' = IF t \notin Used THEN user
                      ELSE [user EXCEPT ![t].unasked = @ \/ (user[t].runs = "no" /\ ~user[t].left),
                                        ![t].stray = @ \/ user[t].left,
                                        ![t].left = FALSE,
                                        ![t].runs = IF @ = "once" THEN "no" ELSE @]
    /\ UNCHANGED <<timer, kernel, pooled, refcnt>>

handlerDone ==
    /\ run # <<>> /\ run[1].calls
    /\ run' = <<[run[1] EXCEPT !.calls = FALSE]>>
    /\ UNCHANGED <<timer, kernel, pooled, refcnt, user>>

\* A timer that is not periodic no longer runs, unless its handler's start did
\* nothing because it still did.
expired_end ==
    /\ run # <<>> /\ ~run[1].calls /\ run[1].left = 0
    /\ timer' = [timer EXCEPT ![run[1].t].job = IF timer[run[1].t].periodic = 0 THEN 0 ELSE @]
    /\ run' = <<>>
    /\ UNCHANGED <<kernel, pooled, refcnt, user>>

TimerNext ==
    \/ PSC_Timer_create
    \/ \E t \in Timers :
          \/ \E ms \in {0, 1} : PSC_Timer_setMs(t, ms)
          \/ \E p \in BOOLEAN : PSC_Timer_start(t, p)
          \/ PSC_Timer_stop(t) \/ PSC_Timer_destroy(t)
          \/ tick(t) \/ expired(t)
    \/ expired_raise \/ handlerDone \/ expired_end

TimerSpec == TimerInit /\ [][TimerNext]_tvars

-----------------------------------------------------------------------------
(* Properties *)

\* The pool counts exactly the timers in use and lists exactly the unused ones,
\* each once; without timers in use it holds none (TimerPool_init, _get,
\* _return and _done).
PoolExact ==
    /\ refcnt = Cardinality(Used)
    /\ IsInjective(pooled)
    /\ ToSet(pooled) = {t \in Timers : timer[t].life = "pooled"}
    /\ refcnt = 0 => pooled = <<>>

\* After PSC_Timer_stop, and for a new timer, there are no expired events until the
\* timer is started, but for the one expiration of a timer destroyed while it ran
\* whose place this one took.
NoEventUnasked == \A t \in Used : ~user[t].unasked

\* A timer whose descriptor is armed can be stopped, as job is set; or a destroyed
\* timer left it armed.
ArmedCanBeStopped ==
    \A t \in Used : kernel[t].armed # "no" => timer[t].job # 0 \/ user[t].left

\* A timer that was started, with a time other than 0, and not stopped is armed, or its
\* expiration is on its way to the handlers.
StartedWillExpire ==
    \A t \in Used : user[t].runs # "no" =>
        \/ kernel[t].armed # "no" \/ kernel[t].times # 0
        \/ run # <<>> /\ run[1].t = t

\* A timer that was started expires unless it is stopped, an armed timer can be stopped,
\* no timer expires unasked, except that one taken from the pool may once if the timer
\* before it ran when it was destroyed (disableTimer), and the pool has each unused timer
\* once: for all that the library does with its own timers but one (Uses).
TimersExact == StartedWillExpire /\ NoEventUnasked /\ ArmedCanBeStopped /\ PoolExact

\* timer.h: a timer that is destroyed while it runs is stopped first, so the next user of
\* its place gets no expired event of it.  disableTimer leaves the descriptor armed.
StoppedWhenDestroyed == \A t \in Used : ~user[t].stray

-----------------------------------------------------------------------------
(* The inductive invariant, for the uses of the library: Uses \subseteq {"destroy"} *)

TimerStates == [life : {"none", "used", "pooled", "freed"}, job : {0, 1}, ms : {0, 1},
                periodic : {0}]
Expectations == [runs : {"no", "once"}, left : BOOLEAN, stray : BOOLEAN, unasked : BOOLEAN]

TimerTypeOK ==
    /\ timer \in [Timers -> TimerStates]
    /\ kernel \in [Timers -> [armed : {"no", "once"}, times : {0, 1}]]
    /\ user \in [Timers -> Expectations]
    /\ refcnt \in Nat /\ pooled \in Seq(Timers)
    /\ \/ run = <<>>
       \/ \E r \in [t : Timers, left : {0, 1}, calls : BOOLEAN] : run = <<r>>

\* The handlers of t are being called, or are about to be.
Expires(t) == run # <<>> /\ run[1].t = t
AboutToCall(t) == Expires(t) /\ run[1].left = 1

\* An expiration is to come, or counted by the kernel.
ToCome(t) == kernel[t].armed = "once" \/ kernel[t].times = 1

\* An expiration is in one place: to come, counted by the kernel, or on its way to
\* the handlers; the application waits for it, or a destroyed timer left it.
TimerFits(t) ==
    /\ kernel[t].armed = "once" => kernel[t].times = 0
    /\ ToCome(t) => ~Expires(t) /\ timer[t].life \in {"used", "pooled"}
    /\ ToCome(t) /\ timer[t].life = "used" => (timer[t].job = 1 <=> ~user[t].left)
    /\ timer[t].life # "used" => user[t].runs = "no"
    /\ ~user[t].unasked
    /\ timer[t].life = "used" /\ timer[t].job = 1 /\ ~Expires(t) => ToCome(t)
    /\ user[t].runs = "once" <=>
           timer[t].life = "used" /\ ~user[t].left /\ (ToCome(t) \/ AboutToCall(t))
    /\ Expires(t) => timer[t].life \in {"used", "pooled"} /\ (run[1].calls => run[1].left = 0)
TimersFit == \A t \in Timers : TimerFits(t)

TimerInv == TimerTypeOK /\ TimersFit /\ PoolExact
=============================================================================
