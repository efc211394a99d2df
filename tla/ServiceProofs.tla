---------------------------- MODULE ServiceProofs ---------------------------
(***************************************************************************)
(* Proofs about PSC_Service, for any set of workers and any number of      *)
(* shutdown locks and termination signals: the service ends in order.      *)
(* Then about PSC_Daemon_run, for any set of starts: the pidfile excludes  *)
(* a second daemon.  Then the mutex build of the command queue: no wake-up *)
(* is lost, and it implements RunOnThread.                                 *)
(* Then PSC_Event, for any handlers, any identifiers and any depth of      *)
(* nested raises: a raise never goes on with a freed entry, calls no       *)
(* registration twice, and reaches everything that is due.  Last, what the *)
(* loop watches, for any descriptors and in each of the five backends: it  *)
(* raises only what was reported, once, and watches what was asked for.    *)
(***************************************************************************)
EXTENDS Service, Daemon, CommandQueueLocked, Event, Watch, Induction, FiniteSetTheorems,
        SequenceTheorems, TLAPS

-----------------------------------------------------------------------------
(* Service *)

\* What Goto and Fail, and a wait that returns, make of main.
LEMMA MainTypes ==
  ASSUME main \in Mains
  PROVE  /\ \A pc \in MainPcs : Goto(pc) => main' \in Mains
         /\ \A pc \in MainPcs, rc \in {0, 1, 2} : Fail(pc, rc) => main' \in Mains
         /\ [main EXCEPT !.pc = "round", !.got = Ready] \in Mains
         /\ \A e : [main EXCEPT !.got = main.got \ {e}] \in Mains
<1>1. ASSUME NEW pc \in MainPcs, Goto(pc) PROVE main' \in Mains
  BY <1>1 DEF Goto, Mains
<1>2. ASSUME NEW pc \in MainPcs, NEW rc \in {0, 1, 2}, Fail(pc, rc) PROVE main' \in Mains
  BY <1>2 DEF Fail, Mains
<1>3. Ready \in SUBSET {"term", "timer", "pool"}
  BY Zenon DEF Ready
<1>4. "round" \in MainPcs
  BY DEF MainPcs
<1>5. [main EXCEPT !.pc = "round", !.got = Ready] \in Mains
  BY <1>3, <1>4 DEF Mains
<1>6. ASSUME NEW e PROVE [main EXCEPT !.got = main.got \ {e}] \in Mains
  BY DEF Mains
<1> QED
  BY <1>1, <1>2, <1>5, <1>6

\* What a step makes of the record of what happened.
LEMMA AppTypes ==
  ASSUME app \in Happened
  PROVE  /\ [app EXCEPT !.forced = TRUE] \in Happened
         /\ [app EXCEPT !.pending = TRUE] \in Happened
         /\ \A w \in SvcWorkers : Enqueue(w) \in Happened
         /\ app.hold > 0 => [app EXCEPT !.hold = app.hold - 1] \in Happened
         /\ \A where \in {"here", "elsewhere"} : [app EXCEPT !.quit = where] \in Happened
         /\ \A k : [app EXCEPT !.notimer = app.notimer \/ k > 0] \in Happened
         /\ \A n \in Nat : \A k :
              [app EXCEPT !.pending = FALSE, !.hold = app.hold + n, !.terms = app.terms + 1,
                          !.forced = app.forced \/ ref >= 0 \/ k > 0,
                          !.notimer = app.notimer \/ k > 0] \in Happened
<1>1. [app EXCEPT !.forced = TRUE] \in Happened
  BY DEF Happened
<1>2. [app EXCEPT !.pending = TRUE] \in Happened
  BY DEF Happened
<1>3. ASSUME NEW w \in SvcWorkers PROVE Enqueue(w) \in Happened
  <2> DEFINE c == app.crashed \/ worker[w].cq # "live"
  <2>1. c \in BOOLEAN
    BY Zenon
  <2>2. Enqueue(w) = [app EXCEPT !.crashed = c]
    BY Zenon DEF Enqueue
  <2> HIDE DEF c
  <2>3. [app EXCEPT !.crashed = c] \in Happened
    BY <2>1 DEF Happened
  <2> QED
    BY <2>2, <2>3
<1>4. app.hold > 0 => [app EXCEPT !.hold = app.hold - 1] \in Happened
  BY DEF Happened
<1>5. ASSUME NEW where \in {"here", "elsewhere"} PROVE [app EXCEPT !.quit = where] \in Happened
  BY DEF Happened
<1>6. ASSUME NEW k PROVE [app EXCEPT !.notimer = app.notimer \/ k > 0] \in Happened
  <2>1. PICK m \in BOOLEAN : m = (app.notimer \/ k > 0)
    BY Zenon
  <2>2. [app EXCEPT !.notimer = m] \in Happened
    BY DEF Happened
  <2> QED
    BY <2>1, <2>2, Zenon
<1>7. ASSUME NEW n \in Nat, NEW k
      PROVE  [app EXCEPT !.pending = FALSE, !.hold = app.hold + n, !.terms = app.terms + 1,
                         !.forced = app.forced \/ ref >= 0 \/ k > 0,
                         !.notimer = app.notimer \/ k > 0] \in Happened
  <2>1. PICK f \in BOOLEAN, m \in BOOLEAN :
            f = (app.forced \/ ref >= 0 \/ k > 0) /\ m = (app.notimer \/ k > 0)
    BY Zenon
  <2>2. [app EXCEPT !.pending = FALSE, !.hold = app.hold + n, !.terms = app.terms + 1,
                    !.forced = f, !.notimer = m] \in Happened
    <3>1. PICK h \in Nat, t \in Nat : h = app.hold + n /\ t = app.terms + 1
      BY DEF Happened
    <3>2. [app EXCEPT !.pending = FALSE, !.hold = h, !.terms = t, !.forced = f,
                      !.notimer = m] \in Happened
      BY DEF Happened
    <3> QED
      BY <3>1, <3>2, Zenon
  <2> QED
    BY <2>1, <2>2, Zenon
<1> QED
  BY <1>1, <1>2, <1>3, <1>4, <1>5, <1>6, <1>7

\* Types, action by action.
LEMMA SvcTypeStep ==
  ASSUME SvcAssumption, SvcTypeOK, [SvcNext]_svars
  PROVE  SvcTypeOK'
<1> USE DEF SvcTypeOK
<1>1. ASSUME begin PROVE SvcTypeOK'
  <2>1. [sig EXCEPT !.mask = "blocked"] \in Signals
    BY DEF Signals
  <2>2. main' \in Mains
    BY <1>1, MainTypes DEF begin, MainPcs
  <2> QED
    BY <1>1, <2>1, <2>2 DEF begin
<1>2. ASSUME prestartup PROVE SvcTypeOK'
  <2>1. main' \in Mains
    BY <1>2, MainTypes DEF prestartup, MainPcs
  <2> QED
    BY <1>2, <2>1 DEF prestartup
<1>3. ASSUME startup PROVE SvcTypeOK'
  <2>1. main' \in Mains
    BY <1>3, MainTypes DEF startup, MainPcs
  <2>2. [sig EXCEPT !.usr = sig.rec, !.fd = sig.rec] \in Signals
    BY DEF Signals
  <2> QED
    BY <1>3, <2>1, <2>2 DEF startup
<1>4. ASSUME serviceRuns PROVE SvcTypeOK'
  <2>1. main' \in Mains
    BY <1>4, MainTypes DEF serviceRuns, MainPcs
  <2> QED
    BY <1>4, <2>1 DEF serviceRuns
<1>5. ASSUME NEW w \in SvcWorkers, createWorker(w) PROVE SvcTypeOK'
  <2>1. main' \in Mains
    BY <1>5, MainTypes DEF createWorker, MainPcs
  <2> QED
    BY <1>5, <2>1 DEF createWorker, WorkerStates
<1>6. ASSUME processEvents PROVE SvcTypeOK'
  <2>1. main' \in Mains
    BY <1>6, MainTypes DEF processEvents, MainPcs
  <2> QED
    BY <1>6, <2>1 DEF processEvents
<1>7. ASSUME handleSigfd PROVE SvcTypeOK'
  <2>0. PICK n \in 0 .. MaxLocks - app.hold : \E k \in Failing(n) :
          /\ ref' = ShutdownLocks(n, k) /\ shutdownTimer' = Arm(n - k)
          /\ app' = [app EXCEPT !.pending = FALSE, !.hold = app.hold + n,
                                !.terms = app.terms + 1,
                                !.forced = app.forced \/ ref >= 0 \/ k > 0,
                                !.notimer = app.notimer \/ k > 0]
    BY <1>7 DEF handleSigfd
  <2>1. PICK k \in Failing(n) :
          /\ ref' = ShutdownLocks(n, k) /\ shutdownTimer' = Arm(n - k)
          /\ app' = [app EXCEPT !.pending = FALSE, !.hold = app.hold + n,
                                !.terms = app.terms + 1,
                                !.forced = app.forced \/ ref >= 0 \/ k > 0,
                                !.notimer = app.notimer \/ k > 0]
    BY <2>0
  <2>2. n \in Nat /\ k \in Nat
    BY DEF SvcAssumption, Happened, Failing
  <2>3. app' \in Happened
    BY <2>1, <2>2, AppTypes, Zenon
  <2>4. ref' \in Int /\ shutdownTimer' \in {"none", "armed", "fired", "expired"}
    BY <2>1, <2>2 DEF ShutdownLocks, Arm
  <2>5. main' \in Mains
    BY <1>7, MainTypes DEF handleSigfd, Handle
  <2> QED
    BY <1>7, <2>3, <2>4, <2>5 DEF handleSigfd
<1>8. ASSUME shutdownTimeout PROVE SvcTypeOK'
  <2>1. main' \in Mains /\ app' \in Happened
    BY <1>8, MainTypes, AppTypes DEF shutdownTimeout, Handle
  <2> QED
    BY <1>8, <2>1 DEF shutdownTimeout
<1>9. ASSUME poolStopped PROVE SvcTypeOK'
  <2>1. main' \in Mains
    BY <1>9, MainTypes DEF poolStopped, Handle
  <2> QED
    BY <1>9, <2>1 DEF poolStopped
<1>10. ASSUME PSC_Service_shutdownUnlock PROVE SvcTypeOK'
  <2>1. app' \in Happened
    BY <1>10, AppTypes DEF PSC_Service_shutdownUnlock
  <2> QED
    BY <1>10, <2>1 DEF PSC_Service_shutdownUnlock
<1>11. ASSUME NEW where \in {"here", "elsewhere"}, PSC_Service_quit(where) PROVE SvcTypeOK'
  <2>1. app' \in Happened
    BY <1>11, AppTypes DEF PSC_Service_quit
  <2> QED
    BY <1>11, <2>1 DEF PSC_Service_quit
<1>12. ASSUME PSC_Service_panic PROVE SvcTypeOK'
  <2>1. main' \in Mains
    BY <1>12, MainTypes DEF PSC_Service_panic, MainPcs
  <2> QED
    BY <1>12, <2>1 DEF PSC_Service_panic
<1>13. ASSUME NEW on \in BOOLEAN, registerSignal(on) PROVE SvcTypeOK'
  <2>1. /\ [sig EXCEPT !.usr = FALSE, !.fd = FALSE, !.hdl = FALSE] \in Signals
        /\ [sig EXCEPT !.usr = TRUE, !.fd = TRUE, !.rec = TRUE, !.hdl = TRUE] \in Signals
        /\ [sig EXCEPT !.rec = TRUE, !.hdl = on] \in Signals
    BY DEF Signals
  <2>2. sig' \in Signals
    BY <1>13, <2>1, Zenon DEF registerSignal
  <2> QED
    BY <1>13, <2>2 DEF registerSignal
<1>14. ASSUME NEW w \in SvcWorkers, PSC_Service_runOnThread(w) PROVE SvcTypeOK'
  BY <1>14, AppTypes DEF PSC_Service_runOnThread
<1>15. ASSUME roundEnd PROVE SvcTypeOK'
  <2>1. main' \in Mains
    BY <1>15, MainTypes DEF roundEnd, MainPcs
  <2>2. app' \in Happened
    BY <1>15, AppTypes DEF roundEnd
  <2> QED
    BY <1>15, <2>1, <2>2 DEF roundEnd, ShutdownLocks, Arm, Failing
<1>16. ASSUME shutdown PROVE SvcTypeOK'
  BY <1>16, MainTypes DEF shutdown, MainPcs
<1>17. ASSUME cleanup PROVE SvcTypeOK'
  BY <1>17, MainTypes DEF cleanup, MainPcs, Signals
<1>18. ASSUME NEW w \in SvcWorkers, stopWorker(w) PROVE SvcTypeOK'
  <2>1. PICK b \in BOOLEAN : b = (worker[w].cq = "live")
    BY Zenon
  <2>2. worker' = [worker EXCEPT ![w].told = TRUE, ![w].stop = b]
    BY <1>18, <2>1, Zenon DEF stopWorker
  <2>3. worker' \in [SvcWorkers -> WorkerStates]
    BY <2>2 DEF WorkerStates
  <2> QED
    BY <1>18, <2>3, AppTypes DEF stopWorker
<1>19. ASSUME NEW w \in SvcWorkers, joinWorker(w) PROVE SvcTypeOK'
  BY <1>19 DEF joinWorker, WorkerStates
<1>20. ASSUME TimerFires \/ PoolThreadsEnd PROVE SvcTypeOK'
  BY <1>20 DEF TimerFires, PoolThreadsEnd
<1>21. ASSUME Sigterm PROVE SvcTypeOK'
  BY <1>21, AppTypes DEF Sigterm
<1>22. ASSUME NEW w \in SvcWorkers, runsecondary(w) PROVE SvcTypeOK'
  BY <1>22 DEF runsecondary, WorkerStates
<1>23. ASSUME NEW w \in SvcWorkers, shutdownWorker(w) PROVE SvcTypeOK'
  BY <1>23 DEF shutdownWorker, WorkerStates
<1>24. ASSUME UNCHANGED svars PROVE SvcTypeOK'
  BY <1>24 DEF svars
<1> QED
  BY <1>1, <1>2, <1>3, <1>4, <1>5, <1>6, <1>7, <1>8, <1>9, <1>10, <1>11, <1>12, <1>13, <1>14,
     <1>15, <1>16, <1>17, <1>18, <1>19, <1>20, <1>21, <1>22, <1>23, <1>24
  DEF SvcNext, Startup, End

\* How the wait leaves main.
LEMMA ProcessEventsMain ==
  ASSUME SvcTypeOK, processEvents
  PROVE  /\ main'.pc = "round" \/ (main'.pc = "shutdown" /\ main'.rc = 1)
         /\ main'.pc = "round" /\ "pool" \in main'.got => threadpool = "stopped"
<1>1. "pool" \in Ready => threadpool = "stopped"
  BY Zenon DEF Ready
<1>2. main' = [main EXCEPT !.pc = "round", !.got = Ready] \/ Fail("shutdown", 1)
  BY DEF processEvents
<1>3. CASE main' = [main EXCEPT !.pc = "round", !.got = Ready]
  <2>1. main'.pc = "round" /\ main'.got = Ready
    BY <1>3 DEF SvcTypeOK, Mains
  <2> QED
    BY <1>1, <2>1
<1>4. CASE Fail("shutdown", 1)
  BY <1>4 DEF SvcTypeOK, Mains, Fail
<1> QED
  BY <1>2, <1>3, <1>4

\* The locks stay counted: handleSigfd counts those of the first signal, which finds none
\* held; every later one, and the timeout, cuts the delay short; roundEnd counts the pool.
LEMMA LocksStep ==
  ASSUME SvcAssumption, SvcInv, [SvcNext]_svars
  PROVE  LocksCounted' /\ LocksInLoop'
<1> USE DEF SvcInv, LocksCounted, LocksInLoop, SvcTypeOK, Mains, Happened, InLoop
<1>1. ASSUME begin PROVE LocksCounted' /\ LocksInLoop'
  BY <1>1 DEF begin, Fail, Goto
<1>2. ASSUME prestartup PROVE LocksCounted' /\ LocksInLoop'
  BY <1>2 DEF prestartup, Fail, Goto
<1>3. ASSUME startup PROVE LocksCounted' /\ LocksInLoop'
  BY <1>3 DEF startup, Fail
<1>4. ASSUME serviceRuns PROVE LocksCounted' /\ LocksInLoop'
  BY <1>4 DEF serviceRuns, Goto
<1>5. ASSUME NEW w \in SvcWorkers, createWorker(w) PROVE LocksCounted' /\ LocksInLoop'
  BY <1>5 DEF createWorker, Goto
<1>6. ASSUME processEvents PROVE LocksCounted' /\ LocksInLoop'
  BY <1>6, ProcessEventsMain DEF processEvents
<1>7. ASSUME handleSigfd PROVE LocksCounted' /\ LocksInLoop'
  <2>0. PICK n \in 0 .. MaxLocks - app.hold : \E k \in Failing(n) :
          /\ ref' = ShutdownLocks(n, k)
          /\ app' = [app EXCEPT !.pending = FALSE, !.hold = app.hold + n,
                                !.terms = app.terms + 1,
                                !.forced = app.forced \/ ref >= 0 \/ k > 0,
                                !.notimer = app.notimer \/ k > 0]
    BY <1>7 DEF handleSigfd
  <2>1. PICK k \in Failing(n) :
          /\ ref' = ShutdownLocks(n, k)
          /\ app' = [app EXCEPT !.pending = FALSE, !.hold = app.hold + n,
                                !.terms = app.terms + 1,
                                !.forced = app.forced \/ ref >= 0 \/ k > 0,
                                !.notimer = app.notimer \/ k > 0]
    BY <2>0
  <2>2. n \in Nat /\ k \in 0 .. n
    BY DEF SvcAssumption, Failing
  <2>3. ref' = n - k /\ app'.hold = app.hold + n /\ app'.terms = app.terms + 1
    BY <2>1, <2>2 DEF ShutdownLocks
  <2>4. app'.forced <=> app.forced \/ ref >= 0 \/ k > 0
    BY <2>1, Zenon
  <2>5. threadpool' = threadpool /\ main'.pc = "round" /\ main.pc = "round" /\ main'.got \subseteq main.got
    BY <1>7 DEF handleSigfd, Handle
  <2> QED
    BY <2>2, <2>3, <2>4, <2>5
<1>8. ASSUME shutdownTimeout PROVE LocksCounted' /\ LocksInLoop'
  BY <1>8 DEF shutdownTimeout, Handle
<1>9. ASSUME poolStopped PROVE LocksCounted' /\ LocksInLoop'
  BY <1>9 DEF poolStopped, Handle
<1>10. ASSUME PSC_Service_shutdownUnlock PROVE LocksCounted' /\ LocksInLoop'
  BY <1>10 DEF PSC_Service_shutdownUnlock
<1>11. ASSUME NEW where \in {"here", "elsewhere"}, PSC_Service_quit(where)
       PROVE  LocksCounted' /\ LocksInLoop'
  BY <1>11 DEF PSC_Service_quit
<1>12. ASSUME PSC_Service_panic PROVE LocksCounted' /\ LocksInLoop'
  BY <1>12 DEF PSC_Service_panic, Fail
<1>13. ASSUME NEW on \in BOOLEAN, registerSignal(on) PROVE LocksCounted' /\ LocksInLoop'
  BY <1>13 DEF registerSignal
<1>14. ASSUME NEW w \in SvcWorkers, PSC_Service_runOnThread(w) PROVE LocksCounted' /\ LocksInLoop'
  BY <1>14 DEF PSC_Service_runOnThread, Enqueue
<1>15. ASSUME roundEnd PROVE LocksCounted' /\ LocksInLoop'
  BY <1>15 DEF roundEnd, Goto, ShutdownLocks, Arm, Failing
<1>16. ASSUME shutdown PROVE LocksCounted' /\ LocksInLoop'
  BY <1>16 DEF shutdown, Goto
<1>17. ASSUME cleanup PROVE LocksCounted' /\ LocksInLoop'
  BY <1>17 DEF cleanup, Goto
<1>18. ASSUME NEW w \in SvcWorkers, stopWorker(w) PROVE LocksCounted' /\ LocksInLoop'
  BY <1>18 DEF stopWorker, Enqueue
<1>19. ASSUME NEW w \in SvcWorkers, joinWorker(w) PROVE LocksCounted' /\ LocksInLoop'
  BY <1>19 DEF joinWorker
<1>20. ASSUME TimerFires PROVE LocksCounted' /\ LocksInLoop'
  BY <1>20 DEF TimerFires
<1>21. ASSUME PoolThreadsEnd PROVE LocksCounted' /\ LocksInLoop'
  BY <1>21 DEF PoolThreadsEnd
<1>22. ASSUME Sigterm PROVE LocksCounted' /\ LocksInLoop'
  BY <1>22 DEF Sigterm
<1>23. ASSUME NEW w \in SvcWorkers, runsecondary(w) PROVE LocksCounted' /\ LocksInLoop'
  BY <1>23 DEF runsecondary
<1>24. ASSUME NEW w \in SvcWorkers, shutdownWorker(w) PROVE LocksCounted' /\ LocksInLoop'
  BY <1>24 DEF shutdownWorker
<1>25. ASSUME UNCHANGED svars PROVE LocksCounted' /\ LocksInLoop'
  BY <1>25 DEF svars
<1> QED
  BY <1>1, <1>2, <1>3, <1>4, <1>5, <1>6, <1>7, <1>8, <1>9, <1>10, <1>11, <1>12, <1>13,
     <1>14, <1>15, <1>16, <1>17, <1>18, <1>19, <1>20, <1>21, <1>22, <1>23, <1>24, <1>25
  DEF SvcNext, Startup, End

\* The loop is left with the count at 0, or with an error; after cleanup nothing changes.
LEMMA EndStep ==
  ASSUME SvcInv, [SvcNext]_svars
  PROVE  EndsInOrder' /\ Published'
<1> USE DEF SvcInv, LocksCounted, LocksInLoop, SvcTypeOK, Mains, Happened, InLoop,
            EndsInOrder, DelayHonoured, PoolStoppedFirst, Ran, Published
<1>1. ASSUME begin PROVE EndsInOrder' /\ Published'
  BY <1>1 DEF begin, Fail, Goto
<1>2. ASSUME prestartup PROVE EndsInOrder' /\ Published'
  BY <1>2 DEF prestartup, Fail, Goto
<1>3. ASSUME startup PROVE EndsInOrder' /\ Published'
  <2>1. /\ main.pc = "startup" /\ main'.pc \in {"done", "returned", "create", "shutdown"}
        /\ mainsvc' = mainsvc \/ main'.pc = "create"
    BY <1>3 DEF startup, Fail
  <2>2. UNCHANGED <<threadpool, worker, app>>
    BY <1>3 DEF startup
  <2> QED
    BY <2>1, <2>2
<1>4. ASSUME serviceRuns PROVE EndsInOrder' /\ Published'
  BY <1>4 DEF serviceRuns, Goto
<1>5. ASSUME NEW w \in SvcWorkers, createWorker(w) PROVE EndsInOrder' /\ Published'
  BY <1>5 DEF createWorker, Goto
<1>6. ASSUME processEvents PROVE EndsInOrder' /\ Published'
  BY <1>6, ProcessEventsMain DEF processEvents
<1>7. ASSUME handleSigfd PROVE EndsInOrder' /\ Published'
  BY <1>7 DEF handleSigfd, Handle
<1>8. ASSUME shutdownTimeout PROVE EndsInOrder' /\ Published'
  BY <1>8 DEF shutdownTimeout, Handle
<1>9. ASSUME poolStopped PROVE EndsInOrder' /\ Published'
  BY <1>9 DEF poolStopped, Handle
<1>10. ASSUME PSC_Service_shutdownUnlock PROVE EndsInOrder' /\ Published'
  BY <1>10 DEF PSC_Service_shutdownUnlock
<1>11. ASSUME NEW where \in {"here", "elsewhere"}, PSC_Service_quit(where)
       PROVE  EndsInOrder' /\ Published'
  BY <1>11 DEF PSC_Service_quit
<1>12. ASSUME PSC_Service_panic PROVE EndsInOrder' /\ Published'
  BY <1>12 DEF PSC_Service_panic, Fail
<1>13. ASSUME NEW on \in BOOLEAN, registerSignal(on) PROVE EndsInOrder' /\ Published'
  BY <1>13 DEF registerSignal
<1>14. ASSUME NEW w \in SvcWorkers, PSC_Service_runOnThread(w) PROVE EndsInOrder' /\ Published'
  BY <1>14 DEF PSC_Service_runOnThread, Enqueue
<1>15. ASSUME roundEnd PROVE EndsInOrder' /\ Published'
  BY <1>15 DEF roundEnd, Goto, Failing
<1>16. ASSUME shutdown PROVE EndsInOrder' /\ Published'
  BY <1>16 DEF shutdown, Goto
<1>17. ASSUME cleanup PROVE EndsInOrder' /\ Published'
  BY <1>17 DEF cleanup, Goto
<1>18. ASSUME NEW w \in SvcWorkers, stopWorker(w) PROVE EndsInOrder' /\ Published'
  BY <1>18 DEF stopWorker, Enqueue
<1>19. ASSUME NEW w \in SvcWorkers, joinWorker(w) PROVE EndsInOrder' /\ Published'
  BY <1>19 DEF joinWorker
<1>20. ASSUME TimerFires PROVE EndsInOrder' /\ Published'
  BY <1>20 DEF TimerFires
<1>21. ASSUME PoolThreadsEnd PROVE EndsInOrder' /\ Published'
  BY <1>21 DEF PoolThreadsEnd
<1>22. ASSUME Sigterm PROVE EndsInOrder' /\ Published'
  BY <1>22 DEF Sigterm
<1>23. ASSUME NEW w \in SvcWorkers, runsecondary(w) PROVE EndsInOrder' /\ Published'
  BY <1>23 DEF runsecondary
<1>24. ASSUME NEW w \in SvcWorkers, shutdownWorker(w) PROVE EndsInOrder' /\ Published'
  BY <1>24 DEF shutdownWorker
<1>25. ASSUME UNCHANGED svars PROVE EndsInOrder' /\ Published'
  BY <1>25 DEF svars
<1> QED
  BY <1>1, <1>2, <1>3, <1>4, <1>5, <1>6, <1>7, <1>8, <1>9, <1>10, <1>11, <1>12, <1>13,
     <1>14, <1>15, <1>16, <1>17, <1>18, <1>19, <1>20, <1>21, <1>22, <1>23, <1>24, <1>25
  DEF SvcNext, Startup, End

\* Before the startup nothing runs and nothing is held.
LEMMA SvcInitInv == SvcInit => SvcInv
<1> SUFFICES ASSUME SvcInit PROVE SvcInv
  OBVIOUS
<1>1. main \in Mains /\ app \in Happened
  BY DEF SvcInit, Mains, MainPcs, Happened
<1>2. sig \in Signals
  BY DEF SvcInit, Signals
<1>3. worker \in [SvcWorkers -> WorkerStates] /\ threadpool \in {"none", "up"}
  BY DEF SvcInit, WorkerStates
<1>4. SvcTypeOK
  <2>1. /\ ref \in Int /\ shutdownTimer \in {"none", "armed", "fired", "expired"}
        /\ cq \in {"zero", "live", "none", "dead"}
    BY DEF SvcInit
  <2>2. mainsvc \in BOOLEAN
    BY Zenon DEF SvcInit
  <2>3. threadpool \in {"none", "up", "stopping", "stopped"}
    BY <1>3
  <2> QED
    BY <1>1, <1>2, <1>3, <2>1, <2>2, <2>3, Zenon DEF SvcTypeOK
<1>5. LocksCounted /\ LocksInLoop
  BY <1>3 DEF SvcInit, LocksCounted, LocksInLoop, InLoop
<1>6. EndsInOrder /\ Published
  BY DEF SvcInit, EndsInOrder, DelayHonoured, PoolStoppedFirst, Published
<1> QED
  BY <1>4, <1>5, <1>6 DEF SvcInv

-----------------------------------------------------------------------------
\* Whatever signals, locks, timeouts and calls of PSC_Service_quit come in whatever
\* order, and however workers or the shutdown timer fail to start: the locks that are
\* held are counted, so the loop is not left under them.
THEOREM ServiceInvariant == SvcAssumption => (SvcSpec => []SvcInv)
<1> SUFFICES ASSUME SvcAssumption PROVE SvcSpec => []SvcInv
  OBVIOUS
<1>1. SvcInit => SvcInv
  BY SvcInitInv
<1>2. SvcInv /\ [SvcNext]_svars => SvcInv'
  BY SvcTypeStep, LocksStep, EndStep DEF SvcInv
<1> QED
  BY <1>1, <1>2, PTL DEF SvcSpec

\* service.c, serviceLoop: shutdown locks delay the end until the timeout or a second
\* signal, and the loop ends after the last pool thread, for any number of workers,
\* locks and signals, whether or not workers start.
THEOREM ServiceEndsInOrder == SvcAssumption => (SvcSpec => []EndsInOrder)
<1> SUFFICES ASSUME SvcAssumption PROVE SvcSpec => []EndsInOrder
  OBVIOUS
<1>1. SvcInv => EndsInOrder
  BY DEF SvcInv
<1> QED
  BY <1>1, ServiceInvariant, PTL

-----------------------------------------------------------------------------
(* Daemon *)

\* The processes of all starts are different ones.
LEMMA ProcsApart ==
  ASSUME DaemonAssumption, NEW i \in Starts, NEW k \in Starts
  PROVE  /\ P(i) = P(k) => i = k
         /\ C(i) = C(k) => i = k
         /\ D(i) = D(k) => i = k
         /\ P(i) # C(k) /\ P(i) # D(k) /\ C(i) # D(k)
         /\ P(i) \in Processes /\ C(i) \in Processes /\ D(i) \in Processes
         /\ Nothing \notin Processes
  BY DEF P, C, D, Processes, DaemonAssumption

\* Types, action by action.
LEMMA DaemonTypeStep ==
  ASSUME DaemonAssumption, DaemonTypeOK, LocksFit, serial' = serial, NEW i \in Starts, StepOf(i)
  PROVE  DaemonTypeOK'
<1> USE ProcsApart DEF DaemonTypeOK, Files, PPlaces, CPlaces, DPlaces
<1>0. StartFits(i)
  BY DEF LocksFit
<1>1. ASSUME PSC_Daemon_run(i) PROVE DaemonTypeOK'
  BY <1>1, <1>0 DEF PSC_Daemon_run
<1>2. ASSUME openpidfile_getlk(i) PROVE DaemonTypeOK'
  BY <1>2, <1>0 DEF openpidfile_getlk
<1>3. ASSUME openpidfile_rdlock(i) PROVE DaemonTypeOK'
  <2>1. P(i) \in Processes
    OBVIOUS
  <2>2. rd' \in [Starts -> SUBSET Processes]
    BY <1>3, <2>1 DEF openpidfile_rdlock
  <2>3. ppc' \in [Starts -> PPlaces]
    BY <1>3 DEF openpidfile_rdlock
  <2> QED
    BY <1>3, <2>2, <2>3 DEF openpidfile_rdlock
<1>4. ASSUME openpidfile_read(i) PROVE DaemonTypeOK'
  BY <1>4, <1>0 DEF openpidfile_read
<1>5. ASSUME openpidfile_unlink(i) PROVE DaemonTypeOK'
  BY <1>5, <1>0 DEF openpidfile_unlink, Release
<1>6. ASSUME openpidfile_close(i) PROVE DaemonTypeOK'
  BY <1>6, <1>0 DEF openpidfile_close, Release
<1>7. ASSUME openpidfile_create(i) PROVE DaemonTypeOK'
  BY <1>7, <1>0 DEF openpidfile_create
<1>8. ASSUME openpidfile_lock(i) PROVE DaemonTypeOK'
  <2>1. P(i) \in Processes \cup {Nothing}
    OBVIOUS
  <2>2. wr' \in [Starts -> Processes \cup {Nothing}]
    BY <1>8, <2>1 DEF openpidfile_lock
  <2>3. ppc' \in [Starts -> PPlaces]
    BY <1>8 DEF openpidfile_lock
  <2> QED
    BY <1>8, <2>2, <2>3 DEF openpidfile_lock
<1>9. ASSUME fork_first(i) PROVE DaemonTypeOK'
  BY <1>9, <1>0 DEF fork_first
<1>10. ASSUME fork_fail(i) PROVE DaemonTypeOK'
  BY <1>10, <1>0 DEF fork_fail, Release
<1>11. ASSUME parent_close(i) PROVE DaemonTypeOK'
  BY <1>11, <1>0 DEF parent_close, Release
<1>12. ASSUME parent_wait(i) PROVE DaemonTypeOK'
  BY <1>12, <1>0 DEF parent_wait
<1>13. ASSUME child_lock(i) PROVE DaemonTypeOK'
  BY <1>13, <1>0 DEF child_lock, Unlocked
<1>14. ASSUME fork_second(i) PROVE DaemonTypeOK'
  BY <1>14, <1>0 DEF fork_second
<1>15. ASSUME child_fail(i) PROVE DaemonTypeOK'
  BY <1>15, <1>0 DEF child_fail, Release
<1>16. ASSUME child_write(i) PROVE DaemonTypeOK'
  BY <1>16, <1>0 DEF child_write, Release
<1>17. ASSUME daemon_lock(i) PROVE DaemonTypeOK'
  BY <1>17, <1>0 DEF daemon_lock, Unlocked
<1>18. ASSUME PSC_Daemon_launched(i) PROVE DaemonTypeOK'
  BY <1>18, <1>0 DEF PSC_Daemon_launched
<1>19. ASSUME daemon_fail(i) PROVE DaemonTypeOK'
  BY <1>19, <1>0 DEF daemon_fail
<1>20. ASSUME daemon_return(i) PROVE DaemonTypeOK'
  BY <1>20, <1>0 DEF daemon_return
<1>21. ASSUME daemon_close(i) PROVE DaemonTypeOK'
  BY <1>21, <1>0 DEF daemon_close, Release
<1>22. ASSUME daemon_unlink(i) PROVE DaemonTypeOK'
  BY <1>22, <1>0 DEF daemon_unlink
<1>23. ASSUME daemon_crash(i) PROVE DaemonTypeOK'
  BY <1>23, <1>0 DEF daemon_crash, Release
<1> QED
  BY <1>1, <1>2, <1>3, <1>4, <1>5, <1>6, <1>7, <1>8, <1>9, <1>10, <1>11, <1>12, <1>13,
     <1>14, <1>15, <1>16, <1>17, <1>18, <1>19, <1>20, <1>21, <1>22, <1>23 DEF StepOf, Step

\* A lock is taken only when nobody has it, and released by its owner only; so the child
\* has the lock until the pid is written, and the daemon as long as it runs.
LEMMA DaemonLocksStep ==
  ASSUME DaemonAssumption, DaemonTypeOK, DaemonTypeOK', LocksFit, NEW i \in Starts, StepOf(i)
  PROVE  LocksFit'
<1> SUFFICES ASSUME NEW k \in Starts PROVE StartFits(k)' /\ LockFits(k)'
  BY DEF LocksFit
<1> USE ProcsApart DEF DaemonTypeOK, DaemonAssumption, LocksFit, StartFits, LockFits
<1>1. ASSUME PSC_Daemon_run(i) PROVE StartFits(k)' /\ LockFits(k)'
  BY <1>1 DEF PSC_Daemon_run, Files
<1>2. ASSUME openpidfile_getlk(i) PROVE StartFits(k)' /\ LockFits(k)'
  BY <1>2 DEF openpidfile_getlk
<1>3. ASSUME openpidfile_rdlock(i) PROVE StartFits(k)' /\ LockFits(k)'
  BY <1>3 DEF openpidfile_rdlock
<1>4. ASSUME openpidfile_read(i) PROVE StartFits(k)' /\ LockFits(k)'
  BY <1>4 DEF openpidfile_read
<1>5. ASSUME openpidfile_unlink(i) PROVE StartFits(k)' /\ LockFits(k)'
  BY <1>5 DEF openpidfile_unlink, Release
<1>6. ASSUME openpidfile_close(i) PROVE StartFits(k)' /\ LockFits(k)'
  BY <1>6 DEF openpidfile_close, Release
<1>7. ASSUME openpidfile_create(i) PROVE StartFits(k)' /\ LockFits(k)'
  BY <1>7 DEF openpidfile_create
<1>8. ASSUME openpidfile_lock(i) PROVE StartFits(k)' /\ LockFits(k)'
  BY <1>8 DEF openpidfile_lock, Unlocked
<1>9. ASSUME fork_first(i) PROVE StartFits(k)' /\ LockFits(k)'
  BY <1>9 DEF fork_first
<1>10. ASSUME fork_fail(i) PROVE StartFits(k)' /\ LockFits(k)'
  BY <1>10 DEF fork_fail, Release
<1>11. ASSUME parent_close(i) PROVE StartFits(k)' /\ LockFits(k)'
  BY <1>11 DEF parent_close, Release
<1>12. ASSUME parent_wait(i) PROVE StartFits(k)' /\ LockFits(k)'
  BY <1>12 DEF parent_wait
<1>13. ASSUME child_lock(i) PROVE StartFits(k)' /\ LockFits(k)'
  BY <1>13 DEF child_lock, Unlocked
<1>14. ASSUME fork_second(i) PROVE StartFits(k)' /\ LockFits(k)'
  BY <1>14 DEF fork_second
<1>15. ASSUME child_fail(i) PROVE StartFits(k)' /\ LockFits(k)'
  BY <1>15 DEF child_fail, Release
<1>16. ASSUME child_write(i) PROVE StartFits(k)' /\ LockFits(k)'
  BY <1>16 DEF child_write, Release
<1>17. ASSUME daemon_lock(i) PROVE StartFits(k)' /\ LockFits(k)'
  <2>1. dpc[i] = "waitlock" /\ wr[file[i]] \in {Nothing, D(i)} /\ file[i] \in Starts
    BY <1>17 DEF daemon_lock, Unlocked
  <2>2. cpc[i] = "gone"
    BY <2>1 DEF CPlaces
  <2>3. StartFits(k)'
    BY <1>17, <2>1, <2>2 DEF daemon_lock
  <2>4. LockFits(k)'
    BY <1>17, <2>1 DEF daemon_lock
  <2> QED
    BY <2>3, <2>4
<1>18. ASSUME PSC_Daemon_launched(i) PROVE StartFits(k)' /\ LockFits(k)'
  BY <1>18 DEF PSC_Daemon_launched
<1>19. ASSUME daemon_fail(i) PROVE StartFits(k)' /\ LockFits(k)'
  BY <1>19 DEF daemon_fail
<1>20. ASSUME daemon_return(i) PROVE StartFits(k)' /\ LockFits(k)'
  BY <1>20 DEF daemon_return
<1>21. ASSUME daemon_close(i) PROVE StartFits(k)' /\ LockFits(k)'
  BY <1>21 DEF daemon_close, Release
<1>22. ASSUME daemon_unlink(i) PROVE StartFits(k)' /\ LockFits(k)'
  BY <1>22 DEF daemon_unlink
<1>23. ASSUME daemon_crash(i) PROVE StartFits(k)' /\ LockFits(k)'
  BY <1>23 DEF daemon_crash, Release
<1> QED
  BY <1>1, <1>2, <1>3, <1>4, <1>5, <1>6, <1>7, <1>8, <1>9, <1>10, <1>11, <1>12, <1>13,
     <1>14, <1>15, <1>16, <1>17, <1>18, <1>19, <1>20, <1>21, <1>22, <1>23 DEF StepOf, Step

\* Starts in sequence: openpidfile_getlk finds the lock of a daemon that runs, and only
\* a start that found none comes to own the pidfile.
LEMMA DaemonSequenceStep ==
  ASSUME DaemonAssumption, DaemonTypeOK, DaemonTypeOK', LocksFit, serial, InSequence,
         NEW i \in Starts, StepOf(i)
  PROVE  InSequence'
<1> USE ProcsApart DEF DaemonTypeOK, DaemonAssumption, LocksFit, StartFits, LockFits, InSequence,
                       HasFile, Owner, Over, Running
<1>1. ASSUME PSC_Daemon_run(i) PROVE InSequence'
  BY <1>1 DEF PSC_Daemon_run
<1>2. ASSUME openpidfile_getlk(i) PROVE InSequence'
  BY <1>2 DEF openpidfile_getlk
<1>3. ASSUME openpidfile_rdlock(i) PROVE InSequence'
  BY <1>3 DEF openpidfile_rdlock
<1>4. ASSUME openpidfile_read(i) PROVE InSequence'
  BY <1>4 DEF openpidfile_read
<1>5. ASSUME openpidfile_unlink(i) PROVE InSequence'
  BY <1>5 DEF openpidfile_unlink, Release
<1>6. ASSUME openpidfile_close(i) PROVE InSequence'
  BY <1>6 DEF openpidfile_close, Release
<1>7. ASSUME openpidfile_create(i) PROVE InSequence'
  BY <1>7 DEF openpidfile_create
<1>8. ASSUME openpidfile_lock(i) PROVE InSequence'
  BY <1>8 DEF openpidfile_lock, Unlocked
<1>9. ASSUME fork_first(i) PROVE InSequence'
  BY <1>9 DEF fork_first
<1>10. ASSUME fork_fail(i) PROVE InSequence'
  BY <1>10 DEF fork_fail, Release
<1>11. ASSUME parent_close(i) PROVE InSequence'
  BY <1>11 DEF parent_close, Release
<1>12. ASSUME parent_wait(i) PROVE InSequence'
  BY <1>12 DEF parent_wait
<1>13. ASSUME child_lock(i) PROVE InSequence'
  BY <1>13 DEF child_lock, Unlocked
<1>14. ASSUME fork_second(i) PROVE InSequence'
  BY <1>14 DEF fork_second
<1>15. ASSUME child_fail(i) PROVE InSequence'
  BY <1>15 DEF child_fail, Release
<1>16. ASSUME child_write(i) PROVE InSequence'
  BY <1>16 DEF child_write, Release
<1>17. ASSUME daemon_lock(i) PROVE InSequence'
  BY <1>17 DEF daemon_lock, Unlocked
<1>18. ASSUME PSC_Daemon_launched(i) PROVE InSequence'
  BY <1>18 DEF PSC_Daemon_launched
<1>19. ASSUME daemon_fail(i) PROVE InSequence'
  BY <1>19 DEF daemon_fail
<1>20. ASSUME daemon_return(i) PROVE InSequence'
  BY <1>20 DEF daemon_return
<1>21. ASSUME daemon_close(i) PROVE InSequence'
  BY <1>21 DEF daemon_close, Release
<1>22. ASSUME daemon_unlink(i) PROVE InSequence'
  BY <1>22 DEF daemon_unlink
<1>23. ASSUME daemon_crash(i) PROVE InSequence'
  BY <1>23 DEF daemon_crash, Release
<1> QED
  BY <1>1, <1>2, <1>3, <1>4, <1>5, <1>6, <1>7, <1>8, <1>9, <1>10, <1>11, <1>12, <1>13,
     <1>14, <1>15, <1>16, <1>17, <1>18, <1>19, <1>20, <1>21, <1>22, <1>23 DEF StepOf, Step

\* At first no start has a process, a file or a lock.
LEMMA DaemonInitInv == DaemonAssumption /\ DaemonInit => DaemonInv
<1> SUFFICES ASSUME DaemonAssumption, DaemonInit PROVE DaemonInv
  OBVIOUS
<1>1. DaemonTypeOK
  BY DEF DaemonInit, DaemonTypeOK, Files, PPlaces, CPlaces, DPlaces
<1>2. LocksFit
  BY ProcsApart DEF DaemonInit, LocksFit, StartFits, LockFits
<1>3. InSequence
  BY DEF DaemonInit, InSequence, HasFile, Owner, Over, Running
<1> QED
  BY <1>1, <1>2, <1>3 DEF DaemonInv

\* The invariant is inductive.
LEMMA DaemonInvStep == DaemonAssumption /\ DaemonInv /\ [DaemonNext]_dvars => DaemonInv'
<1> SUFFICES ASSUME DaemonAssumption, DaemonInv, [DaemonNext]_dvars PROVE DaemonInv'
  OBVIOUS
<1>1. CASE DaemonNext
  <2>1. serial' = serial
    BY <1>1 DEF DaemonNext
  <2>2. PICK i \in Starts : StepOf(i)
    BY <1>1 DEF DaemonNext
  <2>3. DaemonTypeOK /\ LocksFit /\ (serial => InSequence)
    BY DEF DaemonInv
  <2>4. DaemonTypeOK'
    BY <2>1, <2>2, <2>3, DaemonTypeStep
  <2>5. LocksFit'
    BY <2>2, <2>3, <2>4, DaemonLocksStep
  <2>6. serial => InSequence'
    BY <2>2, <2>3, <2>4, DaemonSequenceStep
  <2> QED
    BY <2>1, <2>4, <2>5, <2>6 DEF DaemonInv
<1>2. CASE UNCHANGED dvars
  BY <1>2 DEF DaemonInv, dvars, DaemonTypeOK, LocksFit, StartFits, LockFits, InSequence, HasFile,
              Owner, Over, Running
<1> QED
  BY <1>1, <1>2

\* daemon.c: for any number of starts, stops and crashes, one daemon when they come in
\* sequence, and never two on the same pidfile however they overlap; the pidfile names
\* the daemon that has its lock.
THEOREM OneDaemonOnPidfile == DaemonAssumption => (DaemonSpec => []PidfileExcludes)
<1> SUFFICES ASSUME DaemonAssumption PROVE DaemonSpec => []PidfileExcludes
  OBVIOUS
<1>1. DaemonInv => PidfileExcludes
  <2> SUFFICES ASSUME DaemonInv PROVE PidfileExcludes
    OBVIOUS
  <2> USE DEF DaemonInv, LocksFit, StartFits, LockFits
  <2>1. OneDaemonPerFile
    BY ProcsApart DEF OneDaemonPerFile, Running
  <2>2. OneDaemon
    BY DEF OneDaemon, InSequence, Owner, HasFile, Running
  <2>3. PidfileNamesDaemon
    BY DEF PidfileNamesDaemon, InSequence, HasFile, Running, DaemonAssumption
  <2>4. OwnerAgrees
    <3> SUFFICES ASSUME serial, NEW i \in Starts, ppc[i] = "read", wr[rfile[i]] # Nothing
                 PROVE  /\ content[rfile[i]] # Nothing
                        /\ wr[rfile[i]] = D(content[rfile[i]])
      BY DEF OwnerAgrees
    <3>1. rfile[i] \in Starts /\ cpc[i] = "none" /\ dpc[i] = "none" /\ ~Over(i)
      BY DEF Over
    <3>2. PICK k \in Starts : wr[rfile[i]] \in {P(k), C(k), D(k)}
      BY <3>1 DEF DaemonTypeOK, Processes, P, C, D
    <3>3. k # i
      BY <3>1, <3>2
    <3>4. Over(k)
      BY <3>1, <3>3 DEF InSequence
    <3>5. wr[rfile[i]] = D(k) /\ file[k] = rfile[i] /\ dpc[k] = "launched"
      BY <3>1, <3>2, <3>4 DEF Over
    <3>6. content[file[k]] = k
      BY <3>5 DEF InSequence
    <3> QED
      BY <3>5, <3>6 DEF DaemonAssumption
  <2> QED
    BY <2>1, <2>2, <2>3, <2>4 DEF PidfileExcludes
<1>2. DaemonInit => DaemonInv
  BY DaemonInitInv
<1>3. DaemonInv /\ [DaemonNext]_dvars => DaemonInv'
  BY DaemonInvStep
<1> QED
  BY <1>1, <1>2, <1>3, PTL DEF DaemonSpec

-----------------------------------------------------------------------------
(* The command queue, mutex build (module CommandQueueLocked) *)

\* The initial state satisfies the inductive invariant.
LEMMA CommandsInit == Init => IInv
<1> SUFFICES ASSUME Init PROVE IInv
  OBVIOUS
<1> USE DEF Init, initCommandQueue
<1>1. commands \in Seq(Cmds) /\ torun \in Seq(Cmds) /\ executed \in Seq(Cmds)
  OBVIOUS
<1>2. TypeOK
  BY <1>1, Zenon DEF TypeOK
<1>3. WakeFlagMeansEmpty /\ GotMeansReadable /\ DetachedOnlyInRun
  BY Zenon DEF WakeFlagMeansEmpty, GotMeansReadable, DetachedOnlyInRun
<1>4. ClearedFlagMeansWake
  BY Zenon DEF ClearedFlagMeansWake
<1> QED
  BY <1>2, <1>3, <1>4 DEF IInv

\* Every step preserves the inductive invariant.
LEMMA CommandsStep == IInv /\ [Next]_vars => IInv'
<1> SUFFICES ASSUME IInv, [Next]_vars PROVE IInv'
  OBVIOUS
<1> USE DEF IInv, TypeOK, WakeFlagMeansEmpty, ClearedFlagMeansWake,
            WakePending, GotMeansReadable, DetachedOnlyInRun
<1>1. ASSUME NEW t \in Threads, NEW c \in Cmds, enqueueCommand(t, c) PROVE IInv'
  <2> USE <1>1 DEF enqueueCommand
  <2>1. commands' \in Seq(Cmds) /\ commands' # <<>>
    OBVIOUS
  <2>2. tpc' \in [Threads -> {"idle", "wake"}]
    BY Zenon
  <2>3. mustwake' = FALSE
    BY Zenon
  <2>4. mustwake => tpc'[t] = "wake"
    OBVIOUS
  <2>5. \A u \in Threads : tpc[u] = "wake" => tpc'[u] = "wake"
    OBVIOUS
  <2>6. TypeOK' /\ WakeFlagMeansEmpty'
    BY <2>1, <2>2, <2>3, Zenon
  <2>7. GotMeansReadable' /\ DetachedOnlyInRun'
    BY Zenon
  <2>8. ClearedFlagMeansWake'
    BY <2>3, <2>4, <2>5, Zenon
  <2> QED
    BY <2>6, <2>7, <2>8, Zenon DEF IInv
<1>2. ASSUME NEW t \in Threads, enqueueCommand_wake(t) PROVE IInv'
  BY <1>2 DEF enqueueCommand_wake
<1>3. CASE processEvents_efd
  BY <1>3, Zenon DEF processEvents_efd
<1>10. CASE processEvents_other
  BY <1>10, Zenon DEF processEvents_other
<1>4. CASE clearMustWake
  BY <1>4 DEF clearMustWake
<1>5. CASE readCommandPipe
  BY <1>5 DEF readCommandPipe
<1>6. CASE runCommands
  BY <1>6 DEF runCommands
<1>7. CASE runCommands_exec
  BY <1>7 DEF runCommands_exec
<1>8. CASE runCommands_done
  BY <1>8 DEF runCommands_done
<1>9. CASE UNCHANGED vars
  BY <1>9 DEF vars
<1> QED
  BY <1>1, <1>2, <1>3, <1>4, <1>5, <1>6, <1>7, <1>8, <1>9, <1>10
  DEF Next, LoopStep

\* The bookkeeping of mustwake, the eventfd and the detached list is consistent
\* in every reachable state of serviceLoop and enqueueCommand.
THEOREM CommandInvariance == Spec => []IInv
  BY CommandsInit, CommandsStep, PTL DEF Spec

\* A service thread never sleeps on a queued command unless the wake-up is
\* already under way, for any number of enqueuing threads.
THEOREM WakeupNotLost == Spec => []NoLostWakeup
<1>1. IInv => NoLostWakeup
  BY DEF IInv, NoLostWakeup, WakeFlagMeansEmpty, ClearedFlagMeansWake, TypeOK
<1> QED
  BY <1>1, CommandInvariance, PTL

-----------------------------------------------------------------------------
(* CommandRefinement: the detached list followed by the queued one is what is pending *)

\* Every step of the queue is a step of RunOnThread or leaves its state alone.
LEMMA CommandsRefineStep == IInv /\ [Next]_vars =>
    [(\E c \in Cmds : R!Schedule(c)) \/ R!Execute]_R!rvars
<1> SUFFICES ASSUME IInv, [Next]_vars
             PROVE  [(\E c \in Cmds : R!Schedule(c)) \/ R!Execute]_R!rvars
  OBVIOUS
<1>t. commands \in Seq(Cmds) /\ torun \in Seq(Cmds) /\ executed \in Seq(Cmds)
  BY DEF IInv, TypeOK
<1>1. ASSUME NEW t \in Threads, NEW c \in Cmds, enqueueCommand(t, c)
      PROVE  R!Schedule(c)
  <2>1. c \notin Scheduled /\ commands' = Append(commands, c)
        /\ UNCHANGED <<torun, executed>>
    BY <1>1 DEF enqueueCommand
  <2>2. (torun \o commands)' = Append(torun \o commands, c)
    <3>1. Append(commands, c) = commands \o <<c>>
      BY <1>t, AppendIsConcat
    <3>2. Append(torun \o commands, c) = (torun \o commands) \o <<c>>
      BY <1>t, ConcatProperties, AppendIsConcat
    <3>3. <<c>> \in Seq(Cmds)
      OBVIOUS
    <3>4. (torun \o commands) \o <<c>> = torun \o (commands \o <<c>>)
      BY <1>t, <3>3, ConcatAssociative
    <3> QED
      BY <2>1, <3>1, <3>2, <3>4
  <2>3. ASSUME NEW i \in DOMAIN (torun \o commands)
        PROVE  (torun \o commands)[i] # c
    <3>1. i \in 1 .. Len(torun) + Len(commands)
      BY <1>t, ConcatProperties, LenProperties
    <3>2. (torun \o commands)[i] =
             IF i <= Len(torun) THEN torun[i] ELSE commands[i - Len(torun)]
      BY <1>t, <3>1, ConcatProperties
    <3>3. CASE i <= Len(torun)
      BY <1>t, <2>1, <3>1, <3>2, <3>3 DEF Scheduled, Elems
    <3>4. CASE ~(i <= Len(torun))
      <4>1. i - Len(torun) \in DOMAIN commands
        BY <1>t, <3>1, <3>4
      <4> QED
        BY <2>1, <3>2, <3>4, <4>1 DEF Scheduled, Elems
    <3> QED
      BY <3>3, <3>4
  <2>4. c \notin R!Known
    BY <2>1, <2>3 DEF R!Known, Scheduled, Elems
  <2> QED
    BY <2>1, <2>2, <2>4 DEF R!Schedule
<1>2. CASE runCommands_exec
  <2>1. torun # <<>> /\ executed' = Append(executed, Head(torun))
        /\ torun' = Tail(torun) /\ UNCHANGED commands
    BY <1>2 DEF runCommands_exec
  <2>2. torun \o commands # <<>> /\ Head(torun \o commands) = Head(torun)
        /\ Tail(torun \o commands) = Tail(torun) \o commands
    BY <1>t, <2>1
  <2> QED
    BY <2>1, <2>2 DEF R!Execute
<1>3. CASE runCommands
  <2>1. torun = <<>>
    BY <1>3 DEF runCommands, IInv, DetachedOnlyInRun
  <2>2. (torun \o commands)' = torun \o commands
    BY <1>3, <1>t, <2>1, ConcatEmptySeq DEF runCommands
  <2> QED
    BY <1>3, <2>2 DEF runCommands, R!rvars
<1>4. CASE \/ \E t \in Threads : enqueueCommand_wake(t)
           \/ processEvents_efd \/ processEvents_other
           \/ clearMustWake \/ readCommandPipe \/ runCommands_done
  BY <1>4 DEF enqueueCommand_wake, processEvents_efd, processEvents_other,
              clearMustWake, readCommandPipe, runCommands_done, R!rvars
<1>5. CASE UNCHANGED vars
  BY <1>5 DEF vars, R!rvars
<1> QED
  BY <1>1, <1>2, <1>3, <1>4, <1>5 DEF Next, LoopStep

\* The mutex build of the command queue executes every scheduled function at
\* most once and in the order of scheduling, for any number of threads: each
\* of its behaviours is one that PSC_Service_runOnThread promises.
THEOREM CommandRefinement == Spec => ImplementsRunOnThread
<1>1. Init => R!RInit
  BY DEF Init, initCommandQueue, R!RInit
<1> QED
  BY <1>1, CommandsRefineStep, CommandInvariance, PTL DEF Spec, ImplementsRunOnThread, R!RSpec

-----------------------------------------------------------------------------
(* Event: the list of handlers *)

\* A function over 1 .. n is a sequence of that length.
LEMMA FunctionIsSeq ==
  ASSUME NEW S, NEW n \in Nat, NEW f \in [1 .. n -> S]
  PROVE  f \in Seq(S) /\ Len(f) = n /\ DOMAIN f = 1 .. n
<1>1. f \in Seq(S)
  BY SeqDef
<1>2. DOMAIN f = 1 .. Len(f) /\ Len(f) \in Nat
  BY <1>1, LenProperties
<1>3. Len(f) = n
  BY <1>2
<1> QED
  BY <1>1, <1>3

\* An entry of the list is at one position.
LEMMA PosOfEntry ==
  ASSUME NEW S, NEW list \in Seq(S), NEW e \in Entries(list)
  PROVE  PosOf(list, e) \in 1 .. Len(list) /\ list[PosOf(list, e)] = e
<1>1. \E i \in DOMAIN list : list[i] = e
  BY DEF Entries
<1>2. PosOf(list, e) \in DOMAIN list /\ list[PosOf(list, e)] = e
  BY <1>1 DEF PosOf
<1> QED
  BY <1>2, LenProperties

\* ... and only there.
LEMMA PosOfAt ==
  ASSUME NEW S, NEW list \in Seq(S), Distinct(list), NEW i \in 1 .. Len(list)
  PROVE  PosOf(list, list[i]) = i
<1>1. DOMAIN list = 1 .. Len(list)
  BY LenProperties
<1>2. list[i] \in Entries(list)
  BY <1>1 DEF Entries
<1>3. PosOf(list, list[i]) \in 1 .. Len(list) /\ list[PosOf(list, list[i])] = list[i]
  BY <1>2, PosOfEntry
<1> QED
  BY <1>1, <1>3 DEF Distinct

\* From the first entry on there is the whole list.
LEMMA AheadOfFirst ==
  ASSUME NEW S, NoEntry \notin S, NEW list \in Seq(S), Distinct(list), list # <<>>
  PROVE  list[1] \in Entries(list) /\ Ahead(list, list[1]) = Entries(list)
<1>1. DOMAIN list = 1 .. Len(list) /\ Len(list) \in Nat \ {0} /\ list[1] \in S
  BY LenProperties, EmptySeq, ElementOfSeq
<1>2. PosOf(list, list[1]) = 1
  BY <1>1, PosOfAt
<1>3. list[1] # NoEntry
  BY <1>1
<1>4. list[1] \in Entries(list)
  BY <1>1 DEF Entries
<1> QED
  BY <1>1, <1>2, <1>3, <1>4 DEF Ahead, Entries

\* entry->next is on the list, and from there on there is all that is ahead of
\* the entry except the entry itself.
LEMMA AheadOfNext ==
  ASSUME NEW S, NoEntry \notin S, NEW list \in Seq(S), Distinct(list), NEW e \in Entries(list)
  PROVE  /\ NextOf(list, e) # NoEntry => NextOf(list, e) \in Entries(list)
         /\ Ahead(list, NextOf(list, e)) = Ahead(list, e) \ {e}
         /\ e \in Ahead(list, e)
<1> DEFINE p == PosOf(list, e)
<1>1. DOMAIN list = 1 .. Len(list) /\ Len(list) \in Nat
  BY LenProperties
<1>2. p \in 1 .. Len(list) /\ list[p] = e
  BY PosOfEntry
<1>3. e \in S /\ e # NoEntry
  BY <1>2, ElementOfSeq
<1>4. \A i \in 1 .. Len(list) : list[i] = e => i = p
  BY <1>1, <1>2 DEF Distinct
<1>5. Ahead(list, e) = {list[i] : i \in {k \in 1 .. Len(list) : k >= p}}
  BY <1>1, <1>3 DEF Ahead
<1>6. CASE p = Len(list)
  <2>1. NextOf(list, e) = NoEntry /\ Ahead(list, NoEntry) = {}
    BY <1>6 DEF NextOf, Ahead
  <2>2. {list[i] : i \in {k \in 1 .. Len(list) : k >= p}} = {e}
    BY <1>1, <1>2, <1>6
  <2> QED
    BY <2>1, <2>2, <1>5
<1>7. CASE p # Len(list)
  <2>1. NextOf(list, e) = list[p + 1] /\ p + 1 \in 1 .. Len(list)
    BY <1>1, <1>2, <1>7 DEF NextOf
  <2>2. list[p + 1] # NoEntry /\ list[p + 1] \in Entries(list)
    BY <2>1, <1>1, ElementOfSeq DEF Entries
  <2>3. PosOf(list, list[p + 1]) = p + 1
    BY <2>1, PosOfAt
  <2>4. Ahead(list, list[p + 1]) = {list[i] : i \in {k \in 1 .. Len(list) : k >= p + 1}}
    BY <1>1, <2>2, <2>3 DEF Ahead
  <2>5. {list[i] : i \in {k \in 1 .. Len(list) : k >= p + 1}}
          = {list[i] : i \in {k \in 1 .. Len(list) : k >= p}} \ {e}
    <3> HIDE DEF p
    <3> QED
      BY <1>1, <1>2, <1>4
  <2>6. e \in Ahead(list, e)
    <3> HIDE DEF p
    <3> QED
      BY <1>2, <1>5
  <2> QED
    BY <2>1, <2>2, <2>4, <2>5, <2>6, <1>5
<1> QED
  BY <1>6, <1>7

\* PSC_Event_register: the new entry is the last one.
LEMMA AheadAfterAppend ==
  ASSUME NEW S, NoEntry \notin S, NEW list \in Seq(S), Distinct(list),
         NEW h \in S, h \notin Entries(list), NEW new \in Seq(S),
         Len(new) = Len(list) + 1, \A i \in 1 .. Len(list) : new[i] = list[i],
         new[Len(list) + 1] = h
  PROVE  /\ Distinct(new)
         /\ Entries(new) = Entries(list) \cup {h}
         /\ \A e \in Entries(list) : Ahead(new, e) = Ahead(list, e) \cup {h}
<1>1. DOMAIN list = 1 .. Len(list) /\ Len(list) \in Nat
  BY LenProperties
<1>2. /\ new \in Seq(S) /\ Len(new) = Len(list) + 1
      /\ DOMAIN new = 1 .. Len(list) + 1
      /\ \A i \in 1 .. Len(list) : new[i] = list[i]
      /\ new[Len(list) + 1] = h
  BY LenProperties
<1>3. \A i \in 1 .. Len(list) : list[i] # h
  BY <1>1 DEF Entries
<1>4. Distinct(new)
  BY <1>1, <1>2, <1>3 DEF Distinct
<1>5. Entries(new) = Entries(list) \cup {h}
  BY <1>1, <1>2 DEF Entries
<1>6. ASSUME NEW e \in Entries(list)
      PROVE  Ahead(new, e) = Ahead(list, e) \cup {h}
  <2> DEFINE p == PosOf(list, e)
  <2>1. p \in 1 .. Len(list) /\ list[p] = e
    BY PosOfEntry
  <2>2. PosOf(new, e) = p
    <3>1. p \in 1 .. Len(new) /\ new[p] = e
      BY <1>1, <1>2, <2>1
    <3> QED
      BY <1>2, <1>4, <3>1, PosOfAt
  <2>3. e # NoEntry
    BY <2>1, ElementOfSeq
  <2> HIDE DEF p
  <2>4. Ahead(list, e) = {list[i] : i \in {k \in 1 .. Len(list) : k >= p}}
    BY <1>1, <2>3 DEF Ahead, p
  <2>5. Ahead(new, e) = {new[i] : i \in {k \in 1 .. Len(list) + 1 : k >= p}}
    BY <1>2, <2>2, <2>3 DEF Ahead
  <2>6. Len(list) + 1 \in {k \in 1 .. Len(list) + 1 : k >= p}
    BY <1>1, <2>1
  <2> QED
    BY <1>1, <1>2, <2>1, <2>4, <2>5, <2>6
<1> QED
  BY <1>2, <1>4, <1>5, <1>6

\* PSC_Event_unregister: the others keep their order.
LEMMA AheadAfterUnlink ==
  ASSUME NEW S, NoEntry \notin S, NEW list \in Seq(S), Distinct(list), NEW h \in Entries(list),
         NEW new, new = Unlink(list, h)
  PROVE  /\ new \in Seq(S) /\ Distinct(new)
         /\ Entries(new) = Entries(list) \ {h}
         /\ \A e \in Entries(list) \ {h} : Ahead(new, e) = Ahead(list, e) \ {h}
<1> DEFINE q == PosOf(list, h)
           len == Len(list)
<1>1. DOMAIN list = 1 .. len /\ len \in Nat /\ \A i \in 1 .. len : list[i] \in S
  BY LenProperties, ElementOfSeq
<1>2. q \in 1 .. len /\ list[q] = h
  BY PosOfEntry
<1>3. new = [i \in 1 .. len - 1 |-> IF i < q THEN list[i] ELSE list[i + 1]]
  BY DEF Unlink
<1> HIDE DEF q, len
<1>4. len - 1 \in Nat
  BY <1>1, <1>2
<1>5. new \in [1 .. len - 1 -> S]
  BY <1>1, <1>2, <1>3
<1>6. new \in Seq(S) /\ Len(new) = len - 1 /\ DOMAIN new = 1 .. len - 1
  BY <1>4, <1>5, FunctionIsSeq
<1>7. \A i, k \in 1 .. len : list[i] = list[k] => i = k
  BY <1>1 DEF Distinct
<1>8. Distinct(new)
  BY <1>1, <1>2, <1>3, <1>6, <1>7 DEF Distinct
<1>9. Entries(list) = {list[i] : i \in 1 .. len} /\ Entries(new) = {new[i] : i \in 1 .. len - 1}
  BY <1>1, <1>6 DEF Entries
<1>10. \A i \in 1 .. len - 1 : \E k \in 1 .. len :
          /\ k # q /\ list[k] = new[i]
          /\ (k = i /\ i < q) \/ (k = i + 1 /\ i >= q)
  <2> TAKE i \in 1 .. len - 1
  <2>1. CASE i < q
    <3>1. i \in 1 .. len /\ i # q /\ list[i] = new[i]
      BY <1>1, <1>2, <1>3, <2>1
    <3> QED
      BY <3>1, <2>1
  <2>2. CASE i >= q
    <3>1. i + 1 \in 1 .. len /\ i + 1 # q /\ list[i + 1] = new[i]
      BY <1>1, <1>2, <1>3, <2>2
    <3> QED
      BY <3>1, <2>2
  <2> QED
    BY <1>2, <2>1, <2>2
<1>11. \A k \in 1 .. len : k # q => \E i \in 1 .. len - 1 :
          /\ list[k] = new[i]
          /\ (k = i /\ i < q) \/ (k = i + 1 /\ i >= q)
  <2> TAKE k \in 1 .. len
  <2> HAVE k # q
  <2>1. CASE k < q
    <3>1. k \in 1 .. len - 1
      BY <1>1, <1>2, <2>1
    <3>2. list[k] = new[k]
      BY <3>1, <1>3, <2>1
    <3> QED
      BY <3>1, <3>2, <2>1
  <2>2. CASE k > q
    <3>1. k - 1 \in 1 .. len - 1 /\ k = (k - 1) + 1
      BY <1>1, <1>2, <2>2
    <3>2. list[k] = new[k - 1] /\ k - 1 >= q
      BY <3>1, <1>1, <1>2, <1>3, <2>2
    <3> QED
      BY <3>1, <3>2
  <2> QED
    BY <1>2, <2>1, <2>2
<1>12. \A k \in 1 .. len : k # q => list[k] # h
  BY <1>2, <1>7
<1>13. Entries(new) = Entries(list) \ {h}
  BY <1>2, <1>9, <1>10, <1>11, <1>12
<1>14. ASSUME NEW e \in Entries(list) \ {h}
       PROVE  Ahead(new, e) = Ahead(list, e) \ {h}
  <2> DEFINE p == PosOf(list, e)
  <2>1. p \in 1 .. len /\ list[p] = e
    BY PosOfEntry DEF len
  <2>2. p # q
    BY <1>2, <2>1
  <2> HIDE DEF p
  <2>3. PICK r \in 1 .. len - 1 : /\ list[p] = new[r]
                                  /\ (p = r /\ r < q) \/ (p = r + 1 /\ r >= q)
    BY <1>11, <2>1, <2>2
  <2>4. PosOf(new, e) = r
    BY <1>6, <1>8, <2>1, <2>3, PosOfAt
  <2>5. e # NoEntry
    BY <1>1, <2>1
  <2>6. Ahead(list, e) = {list[i] : i \in {k \in 1 .. len : k >= p}}
    BY <1>1, <2>5 DEF Ahead, p
  <2>7. Ahead(new, e) = {new[i] : i \in {k \in 1 .. len - 1 : k >= r}}
    BY <1>6, <2>4, <2>5 DEF Ahead
  <2>8. Ahead(new, e) \subseteq Ahead(list, e) \ {h}
    <3> SUFFICES ASSUME NEW i \in 1 .. len - 1, i >= r
                 PROVE  new[i] \in Ahead(list, e) \ {h}
      BY <2>7
    <3>1. PICK k \in 1 .. len : /\ k # q /\ list[k] = new[i]
                                /\ (k = i /\ i < q) \/ (k = i + 1 /\ i >= q)
      BY <1>10
    <3>2. k >= p
      BY <1>1, <1>2, <2>1, <2>3, <3>1
    <3>3. list[k] # h
      BY <1>12, <3>1
    <3> QED
      BY <2>6, <3>1, <3>2, <3>3
  <2>9. Ahead(list, e) \ {h} \subseteq Ahead(new, e)
    <3> SUFFICES ASSUME NEW k \in 1 .. len, k >= p, k # q
                 PROVE  list[k] \in Ahead(new, e)
      BY <1>2, <2>6
    <3>1. PICK i \in 1 .. len - 1 : /\ list[k] = new[i]
                                    /\ (k = i /\ i < q) \/ (k = i + 1 /\ i >= q)
      BY <1>11
    <3>2. i >= r
      BY <1>1, <1>2, <2>1, <2>3, <3>1
    <3> QED
      BY <2>7, <3>1, <3>2
  <2> QED
    BY <2>8, <2>9
<1> QED
  BY <1>6, <1>8, <1>13, <1>14

-----------------------------------------------------------------------------
(* Event: the invariant *)

\* The raises in progress, when there are any, have an innermost one.
LEMMA TopIsRaise ==
  ASSUME EventTypeOK
  PROVE  /\ Depth \in Nat /\ DOMAIN raises = 1 .. Depth
         /\ \A k \in 1 .. Depth : raises[k] \in Raises
         /\ raises # <<>> => Depth \in 1 .. Depth /\ Top \in Raises
         /\ raises = <<>> => Depth = 0
<1>1. raises \in Seq(Raises)
  BY DEF EventTypeOK
<1>2. Len(raises) \in Nat /\ DOMAIN raises = 1 .. Len(raises)
  BY <1>1, LenProperties
<1>3. \A k \in 1 .. Len(raises) : raises[k] \in Raises
  BY <1>1, ElementOfSeq
<1>4. raises # <<>> => Len(raises) # 0
  BY <1>1, EmptySeq
<1>5. raises = <<>> => Len(raises) = 0
  BY EmptySeq
<1> QED
  BY <1>2, <1>3, <1>4, <1>5 DEF Depth, Top

\* A step of the innermost raise leaves the outer ones alone.
LEMMA SetTop ==
  ASSUME EventTypeOK, raises # <<>>, NEW new \in Raises, raises' = [raises EXCEPT ![Depth] = new]
  PROVE  /\ raises' \in Seq(Raises) /\ Depth' = Depth /\ DOMAIN raises' = 1 .. Depth
         /\ Top' = new /\ \A k \in 1 .. Depth - 1 : raises'[k] = raises[k]
<1>1. /\ Depth \in Nat /\ DOMAIN raises = 1 .. Depth /\ Depth \in 1 .. Depth
      /\ raises \in Seq(Raises)
  BY TopIsRaise DEF EventTypeOK
<1>2. /\ raises' \in [1 .. Depth -> Raises] /\ raises'[Depth] = new
      /\ \A k \in 1 .. Depth - 1 : raises'[k] = raises[k]
  <2>1. raises \in [1 .. Depth -> Raises]
    BY <1>1, LenProperties DEF Depth
  <2> QED
    BY <1>1, <2>1
<1>3. raises' \in Seq(Raises) /\ Len(raises') = Depth /\ DOMAIN raises' = 1 .. Depth
  BY <1>1, <1>2, FunctionIsSeq
<1>4. Depth' = Depth
  BY <1>3 DEF Depth
<1> QED
  BY <1>2, <1>3, <1>4 DEF Top

\* PSC_Event_initStatic establishes the invariant.
LEMMA InitIInv == EventInit => EventInv
<1> SUFFICES ASSUME EventInit PROVE EventInv
  OBVIOUS
<1> USE DEF EventInit, PSC_Event_initStatic
<1>1. entries \in Seq(Handlers) /\ raises \in Seq(Raises) /\ Len(raises) = 0
  BY EmptySeq
<1>2. DOMAIN entries = {} /\ DOMAIN raises = {}
  BY <1>1, LenProperties
<1> QED
  BY <1>1, <1>2 DEF EventInv, EventTypeOK, Distinct, HandlingListed, OuterCalling, CalledListed,
     DueForId, TopOnItsWay, Depth

\* PSC_Event_register preserves it: the new entry is ahead of every raise.
LEMMA RegisterIInv ==
  ASSUME EventAssumption, EventInv, NEW h \in Handlers, PSC_Event_register(h)
  PROVE  EventInv'
<1> USE DEF PSC_Event_register
<1>1. EventTypeOK /\ NoEntry \notin Handlers /\ Distinct(entries) /\ Registered = Entries(entries)
  BY DEF EventInv, EventAssumption, Registered
<1>2. /\ entries' \in Seq(Handlers) /\ Distinct(entries')
      /\ Registered' = Registered \cup {h}
      /\ \A e \in Registered : Ahead(entries', e) = Ahead(entries, e) \cup {h}
  <2>1. /\ entries \in Seq(Handlers) /\ h \notin Entries(entries)
        /\ Registered' = Entries(entries') /\ entries' \in Seq(Handlers)
        /\ Len(entries') = Len(entries) + 1 /\ entries'[Len(entries) + 1] = h
        /\ \A i \in 1 .. Len(entries) : entries'[i] = entries[i]
    BY <1>1, AppendProperties DEF EventTypeOK, Registered
  <2>2. /\ Distinct(entries')
        /\ Entries(entries') = Entries(entries) \cup {h}
        /\ \A e \in Entries(entries) : Ahead(entries', e) = Ahead(entries, e) \cup {h}
    <3> HIDE DEF PSC_Event_register
    <3> QED
      BY <1>1, <2>1, AheadAfterAppend
  <2> QED
    BY <1>1, <2>1, <2>2
<1>3. EventTypeOK' /\ Distinct(entries)'
  BY <1>1, <1>2 DEF EventTypeOK, Distinct
<1>4. HandlingListed' /\ OuterCalling' /\ CalledListed' /\ DueForId'
  BY <1>2 DEF EventInv, HandlingListed, OuterCalling, CalledListed, DueForId, Depth
<1>5. TopOnItsWay'
  <2> SUFFICES ASSUME raises # <<>> PROVE TopOnItsWay'
    BY DEF TopOnItsWay
  <2>1. Top' = Top /\ Top.calling /\ Cursor = handling /\ Cursor' = handling
    BY DEF UserCode, Top, Depth, Cursor
  <2>2. h \notin Top.called
    BY <1>1, TopIsRaise DEF EventInv, CalledListed, Top
  <2>3. HandlingListed /\ TopOnItsWay
    BY DEF EventInv
  <2>4. Ahead(entries, NoEntry) = {} /\ Ahead(entries', NoEntry) = {}
    BY DEF Ahead
  <2>5. CASE handling = NoEntry
    BY <2>1, <2>3, <2>4, <2>5 DEF TopOnItsWay
  <2>6. CASE handling # NoEntry
    BY <2>1, <2>2, <2>3, <2>6, <1>2 DEF TopOnItsWay, HandlingListed
  <2> QED
    BY <2>5, <2>6
<1> QED
  BY <1>3, <1>4, <1>5 DEF EventInv

\* PSC_Event_unregister preserves it: the cursor leaves the entry that is freed.
LEMMA UnregisterIInv ==
  ASSUME EventAssumption, EventInv, NEW h \in Handlers, PSC_Event_unregister(h)
  PROVE  EventInv'
<1> USE DEF PSC_Event_unregister
<1>1. EventTypeOK /\ NoEntry \notin Handlers /\ Distinct(entries) /\ Registered = Entries(entries)
  BY DEF EventInv, EventAssumption, Registered
<1>2. /\ entries' \in Seq(Handlers) /\ Distinct(entries')
      /\ Registered' = Registered \ {h}
      /\ \A e \in Registered \ {h} : Ahead(entries', e) = Ahead(entries, e) \ {h}
  BY <1>1, AheadAfterUnlink DEF EventTypeOK, Registered
<1>3. /\ NextOf(entries, h) # NoEntry => NextOf(entries, h) \in Registered
      /\ Ahead(entries, NextOf(entries, h)) = Ahead(entries, h) \ {h}
      /\ \A e \in Registered : e \in Ahead(entries, e)
  BY <1>1, AheadOfNext DEF EventTypeOK
<1>4. Ahead(entries, NoEntry) = {} /\ Ahead(entries', NoEntry) = {}
  BY DEF Ahead
<1>5. NextOf(entries, h) # h
  <2>1. h # NoEntry /\ h \notin Ahead(entries, NextOf(entries, h))
    BY <1>1, <1>3
  <2> QED
    BY <1>3, <2>1
<1>6. /\ handling' # NoEntry => handling' \in Registered'
      /\ Ahead(entries', handling') = Ahead(entries, handling) \ {h}
  <2>1. HandlingListed
    BY DEF EventInv
  <2>2. CASE handling = h
    BY <1>2, <1>3, <1>4, <1>5, <2>2
  <2>3. CASE handling # h
    BY <1>2, <1>4, <2>1, <2>3 DEF HandlingListed
  <2> QED
    BY <2>2, <2>3
<1>7. /\ raises' \in Seq(Raises) /\ Len(raises') = Len(raises) /\ DOMAIN raises' = DOMAIN raises
      /\ \A k \in DOMAIN raises :
            /\ raises'[k].calling = raises[k].calling /\ raises'[k].nested = raises[k].nested
            /\ raises'[k].entry = raises[k].entry /\ raises'[k].id = raises[k].id
            /\ raises'[k].due = raises[k].due \ {h}
            /\ raises'[k].called = raises[k].called \ {h}
  <2>1. /\ Len(raises) \in Nat /\ DOMAIN raises = 1 .. Len(raises)
        /\ \A k \in 1 .. Len(raises) : raises[k] \in Raises
    BY <1>1, TopIsRaise DEF Depth
  <2>2. raises' = [k \in 1 .. Len(raises) |->
                     [raises[k] EXCEPT !.due = @ \ {h}, !.called = @ \ {h}]]
    BY <2>1 DEF Forget
  <2>3. ASSUME NEW k \in 1 .. Len(raises)
        PROVE  [raises[k] EXCEPT !.due = @ \ {h}, !.called = @ \ {h}] \in Raises
    BY <2>1, <2>3 DEF Raises
  <2>4. raises' \in [1 .. Len(raises) -> Raises]
    BY <2>2, <2>3
  <2>5. raises' \in Seq(Raises) /\ Len(raises') = Len(raises)
    BY <2>1, <2>4, FunctionIsSeq
  <2>6. DOMAIN raises' = DOMAIN raises
    BY <2>1, <2>2
  <2>7. ASSUME NEW k \in DOMAIN raises
        PROVE  /\ raises'[k].calling = raises[k].calling
               /\ raises'[k].nested = raises[k].nested /\ raises'[k].entry = raises[k].entry
               /\ raises'[k].id = raises[k].id
               /\ raises'[k].due = raises[k].due \ {h}
               /\ raises'[k].called = raises[k].called \ {h}
    <3>1. raises[k] \in Raises
          /\ raises'[k] = [raises[k] EXCEPT !.due = @ \ {h}, !.called = @ \ {h}]
      BY <2>1, <2>2
    <3> QED
      BY <3>1 DEF Raises
  <2> QED
    BY <2>5, <2>6, <2>7
<1>8. EventTypeOK' /\ Distinct(entries)' /\ HandlingListed'
  <2>1. Registered \subseteq Handlers
    BY <1>1, ElementOfSeq, LenProperties DEF EventTypeOK, Entries
  <2>2. handling' \in Handlers \cup {NoEntry}
    BY <1>2, <1>6, <2>1
  <2>3. EventTypeOK'
    BY <1>1, <1>2, <1>7, <2>2 DEF EventTypeOK
  <2> QED
    BY <1>2, <1>6, <2>3 DEF HandlingListed, Distinct
<1>9. OuterCalling' /\ CalledListed' /\ DueForId'
  BY <1>1, <1>2, <1>7, TopIsRaise DEF EventInv, OuterCalling, CalledListed, DueForId, Depth
<1>10. TopOnItsWay'
  <2> SUFFICES ASSUME raises # <<>> PROVE TopOnItsWay'
    BY <1>1, <1>7, TopIsRaise, EmptySeq DEF TopOnItsWay, Depth
  <2>1. Depth \in DOMAIN raises /\ Top = raises[Depth] /\ Top' = raises'[Depth] /\ Top.calling
    BY <1>1, <1>7, TopIsRaise DEF Top, Depth, UserCode
  <2>2. Cursor = handling /\ Cursor' = handling' /\ Top'.calling
    BY <1>7, <2>1 DEF Cursor
  <2>3. Top'.called = Top.called \ {h} /\ Top'.due = Top.due \ {h} /\ Top'.nested = Top.nested
    BY <1>7, <2>1
  <2>4. TopOnItsWay
    BY DEF EventInv
  <2> QED
    BY <1>6, <2>2, <2>3, <2>4 DEF TopOnItsWay
<1> QED
  BY <1>8, <1>9, <1>10 DEF EventInv

\* The call of PSC_Event_raise preserves it: the whole list is ahead.
LEMMA RaiseIInv ==
  ASSUME EventAssumption, EventInv, NEW id \in Ids, PSC_Event_raise(id)
  PROVE  EventInv'
<1> USE DEF PSC_Event_raise
<1>1. EventTypeOK /\ NoEntry \notin Handlers /\ Distinct(entries) /\ Registered = Entries(entries)
      /\ Registered' = Registered /\ Distinct(entries)'
  BY DEF EventInv, EventAssumption, Registered, Distinct
<1>2. Registered \subseteq Handlers
  BY <1>1, ElementOfSeq, LenProperties DEF EventTypeOK, Entries
<1> DEFINE first == IF entries = <<>> THEN NoEntry ELSE entries[1]
           new == [id |-> id, calling |-> FALSE, entry |-> first, nested |-> FALSE,
                   due |-> {h \in Registered : IdOf[h] = id}, called |-> {}]
           outer == [k \in DOMAIN raises |-> [raises[k] EXCEPT !.nested = TRUE]]
<1>3. /\ first # NoEntry => first \in Registered
      /\ Ahead(entries, first) = Registered
      /\ first = NoEntry => entries = <<>>
  <2>1. CASE entries = <<>>
    <3>1. DOMAIN entries = {}
      BY <2>1
    <3> QED
      BY <1>1, <2>1, <3>1 DEF Ahead, Entries
  <2>2. CASE entries # <<>>
    BY <1>1, <1>2, <2>2, AheadOfFirst DEF EventTypeOK
  <2> QED
    BY <2>1, <2>2
<1>4. new \in Raises
  BY <1>2, <1>3 DEF Raises
<1>5. /\ outer \in Seq(Raises) /\ Len(outer) = Depth
      /\ \A k \in 1 .. Depth : /\ outer[k].calling = raises[k].calling /\ outer[k].nested
                               /\ outer[k].called = raises[k].called
                               /\ outer[k].due = raises[k].due /\ outer[k].id = raises[k].id
  <2>1. /\ Depth \in Nat /\ DOMAIN raises = 1 .. Depth
        /\ \A k \in 1 .. Depth : raises[k] \in Raises
    BY <1>1, TopIsRaise
  <2>2. ASSUME NEW k \in 1 .. Depth
        PROVE  /\ [raises[k] EXCEPT !.nested = TRUE] \in Raises
               /\ outer[k] = [raises[k] EXCEPT !.nested = TRUE]
    BY <2>1 DEF Raises
  <2>3. outer \in [1 .. Depth -> Raises]
    BY <2>1, <2>2
  <2>4. outer \in Seq(Raises) /\ Len(outer) = Depth
    BY <2>1, <2>3, FunctionIsSeq
  <2>5. ASSUME NEW k \in 1 .. Depth
        PROVE  /\ outer[k].calling = raises[k].calling /\ outer[k].nested
               /\ outer[k].called = raises[k].called
               /\ outer[k].due = raises[k].due /\ outer[k].id = raises[k].id
    BY <2>1, <2>2 DEF Raises
  <2> QED
    BY <2>4, <2>5
<1> HIDE DEF new, outer
<1>6. raises' = Append(outer, new)
  BY DEF new, outer
<1>0. UserCode /\ UNCHANGED <<entries, handling, alive>>
  OBVIOUS
<1> HIDE DEF PSC_Event_raise
<1>7. /\ raises' \in Seq(Raises) /\ Depth' = Depth + 1 /\ Depth \in Nat
      /\ DOMAIN raises' = 1 .. Depth + 1
      /\ \A k \in 1 .. Depth : raises'[k] = outer[k]
      /\ raises'[Depth + 1] = new /\ Top' = new
  <2>1. /\ raises' \in Seq(Raises) /\ Len(raises') = Depth + 1
        /\ \A k \in 1 .. Depth : raises'[k] = outer[k]
        /\ raises'[Depth + 1] = new
    BY <1>4, <1>5, <1>6, AppendProperties
  <2> QED
    BY <1>1, <2>1, TopIsRaise, LenProperties DEF Depth, Top
<1>8. EventTypeOK' /\ HandlingListed'
  BY <1>0, <1>1, <1>7 DEF EventInv, EventTypeOK, HandlingListed
<1>9. OuterCalling'
  <2>1. \A k \in 1 .. Depth : raises[k].calling
    BY <1>0, <1>1, TopIsRaise DEF EventInv, OuterCalling, UserCode, Top
  <2> QED
    BY <1>5, <1>7, <2>1 DEF OuterCalling
<1>10. CalledListed'
  <2>1. new.called = {}
    BY DEF new
  <2>2. \A k \in 1 .. Depth : raises[k].called \subseteq Registered
    BY <1>1, TopIsRaise DEF EventInv, CalledListed
  <2>3. ASSUME NEW k \in 1 .. Depth + 1
        PROVE  raises'[k].called \subseteq Registered
    BY <1>5, <1>7, <2>1, <2>2
  <2> QED
    BY <1>1, <1>7, <2>3 DEF CalledListed
<1>11. TopOnItsWay'
  <2>1. /\ ~new.calling /\ new.entry = first /\ new.called = {} /\ new.due \subseteq Registered
    BY DEF new
  <2>2. Cursor' = first
    BY <1>7, <2>1 DEF Cursor
  <2>3. entries = <<>> => handling = NoEntry
    <3>1. entries = <<>> => Entries(entries) = {}
      BY DEF Entries
    <3> QED
      BY <1>1, <3>1 DEF EventInv, HandlingListed
  <2> QED
    BY <1>0, <1>1, <1>3, <1>7, <2>1, <2>2, <2>3 DEF TopOnItsWay
<1>12. DueForId'
  <2>1. \A h \in new.due : IdOf[h] = new.id
    BY DEF new
  <2>2. \A k \in 1 .. Depth : \A h \in raises[k].due : IdOf[h] = raises[k].id
    BY <1>1, TopIsRaise DEF EventInv, DueForId
  <2>3. ASSUME NEW k \in 1 .. Depth + 1
        PROVE  \A h \in raises'[k].due : IdOf[h] = raises'[k].id
    BY <1>5, <1>7, <2>1, <2>2
  <2> QED
    BY <1>7, <2>3 DEF DueForId
<1> QED
  BY <1>1, <1>8, <1>9, <1>10, <1>11, <1>12 DEF EventInv

\* A step through the list preserves it, whether or not it calls a handler.
LEMMA EntryIInv ==
  ASSUME EventAssumption, EventInv, Raise_entry
  PROVE  EventInv'
<1> DEFINE e == Top.entry
           n == NextOf(entries, e)
<1>1. EventTypeOK /\ NoEntry \notin Handlers /\ Distinct(entries) /\ Registered = Entries(entries)
      /\ Registered' = Registered /\ Distinct(entries)'
  BY DEF EventInv, EventAssumption, Registered, Distinct, Raise_entry
<1>2. /\ ~Top.calling /\ e # NoEntry /\ Cursor = e /\ raises # <<>>
      /\ handling' = n /\ UNCHANGED <<entries, alive>>
  BY DEF Raise_entry, Cursor
<1>3. /\ e \in Registered /\ Top.called \cap Ahead(entries, e) = {}
      /\ ~Top.nested => Top.due \ Top.called \subseteq Ahead(entries, e)
  BY <1>2 DEF EventInv, TopOnItsWay
<1>4. /\ n # NoEntry => n \in Registered
      /\ Ahead(entries, n) = Ahead(entries, e) \ {e}
      /\ e \in Ahead(entries, e)
  BY <1>1, <1>3, AheadOfNext DEF EventTypeOK
<1>5. Registered \subseteq Handlers
  BY <1>1, ElementOfSeq, LenProperties DEF EventTypeOK, Entries
<1>6. /\ Depth \in Nat /\ DOMAIN raises = 1 .. Depth /\ Depth \in 1 .. Depth
      /\ \A k \in 1 .. Depth : raises[k] \in Raises
  BY <1>1, <1>2, TopIsRaise
<1> DEFINE new == IF IdOf[e] = Top.id
                  THEN [Top EXCEPT !.calling = TRUE, !.called = Top.called \cup {e}]
                  ELSE [Top EXCEPT !.entry = n]
<1>7. raises' = [raises EXCEPT ![Depth] = new]
  BY DEF Raise_entry
<1>8. /\ new \in Raises /\ new.nested = Top.nested /\ new.due = Top.due
      /\ (IF new.calling THEN handling' ELSE new.entry) = n /\ new.id = Top.id
      /\ ~new.calling => new.entry = n /\ new.called = Top.called
      /\ new.called \in {Top.called, Top.called \cup {e}}
      /\ IdOf[e] = Top.id => new.called = Top.called \cup {e}
  <2>1. Top \in Raises
    BY <1>6 DEF Top
  <2> HIDE DEF n, e
  <2>2. e \in Handlers /\ n \in Handlers \cup {NoEntry}
    BY <1>3, <1>4, <1>5
  <2>3. CASE IdOf[e] = Top.id
    <3>1. new = [Top EXCEPT !.calling = TRUE, !.called = Top.called \cup {e}]
      BY <2>3
    <3> QED
      BY <1>2, <2>1, <2>2, <3>1, <2>3 DEF Raises
  <2>4. CASE IdOf[e] # Top.id
    <3>1. new = [Top EXCEPT !.entry = n]
      BY <2>4
    <3> QED
      BY <1>2, <2>1, <2>2, <3>1, <2>4 DEF Raises
  <2> QED
    BY <2>3, <2>4
<1> HIDE DEF new
<1>9. /\ raises' \in Seq(Raises) /\ Depth' = Depth /\ DOMAIN raises' = 1 .. Depth
      /\ Top' = new /\ \A k \in 1 .. Depth - 1 : raises'[k] = raises[k]
  BY <1>1, <1>2, <1>7, <1>8, SetTop
<1> HIDE DEF n, e
<1>10. EventTypeOK' /\ HandlingListed'
  BY <1>1, <1>2, <1>4, <1>5, <1>9 DEF EventTypeOK, HandlingListed
<1>11. OuterCalling'
  BY <1>9 DEF EventInv, OuterCalling
<1>12. CalledListed'
  <2>1. \A k \in 1 .. Depth : raises[k].called \subseteq Registered
    BY <1>6 DEF EventInv, CalledListed
  <2>2. Top'.called \subseteq Registered
    BY <1>3, <1>6, <1>8, <1>9, <2>1 DEF Top
  <2>3. raises'[Depth] = Top'
    BY <1>9 DEF Top
  <2> QED
    BY <1>1, <1>6, <1>9, <2>1, <2>2, <2>3 DEF CalledListed
<1>13. TopOnItsWay'
  <2>1. Cursor' = n
    BY <1>8, <1>9 DEF Cursor
  <2>2. Top'.called \cap Ahead(entries, n) = {}
    BY <1>3, <1>4, <1>8, <1>9
  <2>3. ~Top'.nested => Top'.due \ Top'.called \subseteq Ahead(entries, n)
    <3>1. CASE IdOf[e] = Top.id
      BY <1>3, <1>4, <1>8, <1>9, <3>1
    <3>2. CASE IdOf[e] # Top.id
      <4>1. e \notin Top.due
        BY <3>2, <1>6 DEF EventInv, DueForId, Top
      <4> QED
        BY <1>3, <1>4, <1>8, <1>9, <4>1
    <3> QED
      BY <3>1, <3>2
  <2> QED
    BY <1>1, <1>2, <1>4, <1>8, <1>9, <2>1, <2>2, <2>3 DEF TopOnItsWay
<1>14. DueForId'
  <2>1. \A k \in 1 .. Depth : \A h \in raises[k].due : IdOf[h] = raises[k].id
    BY <1>6 DEF EventInv, DueForId
  <2>2. \A h \in Top'.due : IdOf[h] = Top'.id
    BY <1>6, <1>8, <1>9, <2>1 DEF Top
  <2>3. raises'[Depth] = Top'
    BY <1>9 DEF Top
  <2> QED
    BY <1>6, <1>9, <2>1, <2>2, <2>3 DEF DueForId
<1> QED
  BY <1>1, <1>10, <1>11, <1>12, <1>13, <1>14 DEF EventInv

\* The return of a handler preserves it: the raise goes on at the cursor.
LEMMA ReturnIInv ==
  ASSUME EventAssumption, EventInv, Raise_return
  PROVE  EventInv'
<1> DEFINE new == [Top EXCEPT !.calling = FALSE, !.entry = handling]
<1>1. /\ EventTypeOK /\ raises # <<>> /\ Top.calling /\ UNCHANGED <<entries, handling, alive>>
      /\ Registered' = Registered /\ Distinct(entries)'
  BY DEF EventInv, Raise_return, Registered, Distinct
<1>2. /\ Depth \in Nat /\ DOMAIN raises = 1 .. Depth /\ Depth \in 1 .. Depth
      /\ \A k \in 1 .. Depth : raises[k] \in Raises
  BY <1>1, TopIsRaise
<1>3. raises' = [raises EXCEPT ![Depth] = new]
  BY <1>2 DEF Raise_return, Top, Raises
<1>4. /\ new \in Raises /\ ~new.calling /\ new.entry = handling /\ new.id = Top.id
      /\ new.nested = Top.nested /\ new.due = Top.due /\ new.called = Top.called
  BY <1>1, <1>2 DEF EventTypeOK, Raises, Top
<1> HIDE DEF new
<1>5. /\ raises' \in Seq(Raises) /\ Depth' = Depth /\ DOMAIN raises' = 1 .. Depth
      /\ Top' = new /\ \A k \in 1 .. Depth - 1 : raises'[k] = raises[k]
  BY <1>1, <1>3, <1>4, SetTop
<1>6. EventTypeOK' /\ HandlingListed'
  BY <1>1, <1>5 DEF EventInv, EventTypeOK, HandlingListed
<1>7. OuterCalling'
  BY <1>5 DEF EventInv, OuterCalling
<1>8. CalledListed' /\ DueForId'
  <2>1. \A k \in 1 .. Depth : /\ raises'[k].called = raises[k].called
                             /\ raises'[k].due = raises[k].due /\ raises'[k].id = raises[k].id
    BY <1>2, <1>4, <1>5 DEF Top
  <2> QED
    BY <1>1, <1>2, <1>5, <2>1 DEF EventInv, CalledListed, DueForId
<1>9. TopOnItsWay'
  <2>1. Cursor = handling /\ Cursor' = handling
    BY <1>1, <1>4, <1>5 DEF Cursor
  <2> QED
    BY <1>1, <1>4, <1>5, <2>1 DEF EventInv, TopOnItsWay
<1> QED
  BY <1>1, <1>6, <1>7, <1>8, <1>9 DEF EventInv

\* The end of a raise preserves it: the raise around it finds the cursor at null.
LEMMA DoneIInv ==
  ASSUME EventAssumption, EventInv, Raise_done
  PROVE  EventInv'
<1>1. /\ EventTypeOK /\ raises # <<>> /\ ~Top.calling /\ Top.entry = NoEntry
      /\ UNCHANGED <<entries, handling, alive>>
      /\ Registered' = Registered /\ Distinct(entries)' /\ handling = NoEntry
  BY DEF EventInv, Raise_done, Registered, Distinct, TopOnItsWay
<1>2. /\ Depth \in Nat \ {0} /\ DOMAIN raises = 1 .. Depth
      /\ \A k \in 1 .. Depth : raises[k] \in Raises
  BY <1>1, TopIsRaise
<1>3. /\ raises' \in Seq(Raises) /\ Len(raises') = Depth - 1
      /\ \A k \in 1 .. Depth - 1 : raises'[k] = raises[k]
  <2>1. raises' = SubSeq(raises, 1, Depth - 1) /\ raises \in Seq(Raises)
    BY <1>1 DEF Raise_done, EventTypeOK
  <2> QED
    BY <1>2, <2>1, SubSeqProperties DEF Depth
<1>4. Depth' = Depth - 1 /\ DOMAIN raises' = 1 .. Depth - 1
  BY <1>3, LenProperties DEF Depth
<1>5. EventTypeOK' /\ HandlingListed'
  BY <1>1, <1>3 DEF EventTypeOK, HandlingListed
<1>6. OuterCalling' /\ CalledListed' /\ DueForId'
  BY <1>1, <1>2, <1>3, <1>4 DEF EventInv, OuterCalling, CalledListed, DueForId
<1>7. TopOnItsWay'
  <2> SUFFICES ASSUME raises' # <<>> PROVE TopOnItsWay'
    BY DEF TopOnItsWay
  <2>1. Depth - 1 \in 1 .. Depth - 1
    BY <1>2, <1>3, EmptySeq
  <2>2. Top' = raises[Depth - 1] /\ Top'.calling /\ Top'.nested
    BY <1>3, <1>4, <2>1 DEF EventInv, OuterCalling, Top
  <2>3. Cursor' = NoEntry /\ Ahead(entries', NoEntry) = {}
    BY <1>1, <2>2 DEF Cursor, Ahead
  <2> QED
    BY <1>1, <2>2, <2>3 DEF TopOnItsWay
<1> QED
  BY <1>1, <1>5, <1>6, <1>7 DEF EventInv

\* PSC_Event_destroyStatic preserves it: no raise has an entry to go on with.
LEMMA DestroyIInv ==
  ASSUME EventAssumption, EventInv, PSC_Event_destroyStatic
  PROVE  EventInv'
<1>1. /\ EventTypeOK /\ entries' = <<>> /\ handling' = NoEntry /\ alive' = FALSE /\ UserCode
      /\ raises' = [k \in DOMAIN raises |-> [raises[k] EXCEPT !.due = {}, !.called = {}]]
  BY DEF EventInv, PSC_Event_destroyStatic
<1>2. /\ Depth \in Nat /\ DOMAIN raises = 1 .. Depth
      /\ \A k \in 1 .. Depth : raises[k] \in Raises
  BY <1>1, TopIsRaise
<1>3. ASSUME NEW k \in 1 .. Depth
      PROVE  /\ raises'[k] \in Raises /\ raises'[k].due = {} /\ raises'[k].called = {}
             /\ raises'[k].calling = raises[k].calling /\ raises'[k].nested = raises[k].nested
  <2>1. raises'[k] = [raises[k] EXCEPT !.due = {}, !.called = {}] /\ raises[k] \in Raises
    BY <1>1, <1>2
  <2> QED
    BY <2>1 DEF Raises
<1>4. raises' \in [1 .. Depth -> Raises]
  BY <1>1, <1>2, <1>3
<1>5. raises' \in Seq(Raises) /\ Depth' = Depth /\ DOMAIN raises' = 1 .. Depth
  BY <1>2, <1>4, FunctionIsSeq DEF Depth
<1>6. EventTypeOK' /\ HandlingListed' /\ Distinct(entries)'
  <2>1. <<>> \in Seq(Handlers) /\ DOMAIN <<>> = {}
    OBVIOUS
  <2> QED
    BY <1>1, <1>5, <2>1 DEF EventTypeOK, HandlingListed, Distinct
<1>7. OuterCalling' /\ CalledListed' /\ DueForId'
  BY <1>2, <1>3, <1>5 DEF EventInv, OuterCalling, CalledListed, DueForId
<1>8. TopOnItsWay'
  <2> SUFFICES ASSUME raises' # <<>> PROVE TopOnItsWay'
    BY DEF TopOnItsWay
  <2>1. Depth \in 1 .. Depth /\ raises # <<>>
    BY <1>2, <1>5, EmptySeq DEF Depth
  <2>2. Top' = raises'[Depth] /\ Top'.calling /\ Top'.due = {} /\ Top'.called = {}
    BY <1>1, <1>3, <1>5, <2>1 DEF Top, UserCode
  <2>3. Cursor' = NoEntry
    BY <1>1, <2>2 DEF Cursor
  <2> QED
    BY <2>2, <2>3 DEF TopOnItsWay
<1> QED
  BY <1>6, <1>7, <1>8 DEF EventInv

\* What happens elsewhere in the program leaves it alone.
LEMMA StutterIInv == EventInv /\ UNCHANGED evars => EventInv'
BY DEF evars, EventInv, EventTypeOK, Distinct, Registered, HandlingListed, OuterCalling, CalledListed,
   DueForId, TopOnItsWay, Cursor, Top, Depth

\* The invariant holds throughout, whatever the handlers do.
LEMMA EventInvariance == EventAssumption => (EventSpec => []EventInv)
<1> SUFFICES ASSUME EventAssumption PROVE EventSpec => []EventInv
  OBVIOUS
<1>1. EventInv /\ [EventNext]_evars => EventInv'
  BY RegisterIInv, UnregisterIInv, RaiseIInv, EntryIInv, ReturnIInv, DoneIInv, DestroyIInv,
     StutterIInv DEF EventNext
<1> QED
  BY <1>1, InitIInv, PTL DEF EventSpec

\* event.c, PSC_Event_raise: whatever its handlers register, unregister, raise
\* and destroy, a raise never goes on with an entry that was freed, and calls no
\* registration twice.
THEOREM RaiseSafety == EventAssumption => (EventSpec => []RaiseSafe)
<1> SUFFICES ASSUME EventAssumption PROVE EventSpec => []RaiseSafe
  OBVIOUS
<1>1. EventInv => RaiseSafe
  <2> SUFFICES ASSUME EventInv PROVE RaiseSafe
    OBVIOUS
  <2>1. NoFreedEntry
    BY DEF EventInv, HandlingListed, TopOnItsWay, Cursor, NoFreedEntry
  <2>2. CalledOnce
    <3> SUFFICES ASSUME raises # <<>>, ~Top.calling, Top.entry # NoEntry
                 PROVE  Top.entry \notin Top.called
      BY DEF CalledOnce
    <3>1. Cursor = Top.entry /\ Top.entry \in Registered
      BY DEF EventInv, TopOnItsWay, Cursor
    <3>2. Top.entry \in Ahead(entries, Top.entry)
      BY <3>1, AheadOfNext DEF EventInv, EventTypeOK, EventAssumption, Registered
    <3> QED
      BY <3>1, <3>2 DEF EventInv, TopOnItsWay
  <2> QED
    BY <2>1, <2>2 DEF RaiseSafe
<1> QED
  BY <1>1, EventInvariance, PTL

\* event.c, PSC_Event_raise: when a raise in which no handler raised again
\* returns, every handler for its identifier that was registered when it began
\* and was not unregistered has been called.
THEOREM RaiseReaches == EventAssumption => (EventSpec => []RaiseReachesAll)
<1> SUFFICES ASSUME EventAssumption PROVE EventSpec => []RaiseReachesAll
  OBVIOUS
<1>1. EventInv => RaiseReachesAll
  <2> SUFFICES ASSUME EventInv, raises # <<>>, ~Top.calling, Top.entry = NoEntry, ~Top.nested
               PROVE  Top.due \subseteq Top.called
    BY DEF RaiseReachesAll
  <2>1. Cursor = NoEntry /\ Ahead(entries, NoEntry) = {}
    BY DEF Cursor, Ahead
  <2> QED
    BY <2>1 DEF EventInv, TopOnItsWay
<1> QED
  BY <1>1, EventInvariance, PTL

-----------------------------------------------------------------------------
(* Watch: what is asked for *)

PollEntries == [fd : Fds, events : SUBSET Dirs, revents : SUBSET {"in", "out", "hup"}]
KqChanges == [fd : Fds, d : Dirs, add : BOOLEAN]
ScanSteps == [do : {"scan", "scanin", "scanned"}, i : Nat, prc : Int]
ListSteps == [do : {"in", "out", "reregister"}, fd : Fds]
SvcRecords == [watches : [Fds -> SUBSET Dirs], fds : Seq(PollEntries),
               nfds : Nat, readfds : SUBSET Fds, writefds : SUBSET Fds,
               nread : Int, nwrite : Int, changes : Seq(KqChanges)]

\* WatchTypeOK, with names for its parts.
LEMMA WatchTypes ==
  WatchTypeOK <=> /\ be \in Backends /\ at \in {"wait", "run"}
                  /\ want \in [Fds -> SUBSET Dirs] /\ watching \in [Fds -> SUBSET Dirs]
                  /\ svc \in SvcRecords
                  /\ todo \in Seq(IF be = "poll" THEN ScanSteps ELSE ListSteps)
  BY Zenon DEF WatchTypeOK, SvcRecords, PollEntries, KqChanges, ScanSteps, ListSteps

\* The same for the next state.
LEMMA WatchTypesNext ==
  WatchTypeOK' <=> /\ be' \in Backends /\ at' \in {"wait", "run"}
                   /\ want' \in [Fds -> SUBSET Dirs] /\ watching' \in [Fds -> SUBSET Dirs]
                   /\ svc' \in SvcRecords
                   /\ todo' \in Seq(IF be' = "poll" THEN ScanSteps ELSE ListSteps)
  BY Zenon DEF WatchTypeOK, SvcRecords, PollEntries, KqChanges, ScanSteps, ListSteps

\* The fields of svc.
LEMMA SvcTypes ==
  ASSUME NEW s
  PROVE  s \in SvcRecords <=>
           /\ s = [watches |-> s.watches, fds |-> s.fds, nfds |-> s.nfds,
                   readfds |-> s.readfds, writefds |-> s.writefds,
                   nread |-> s.nread, nwrite |-> s.nwrite, changes |-> s.changes]
           /\ s.watches \in [Fds -> SUBSET Dirs] /\ s.fds \in Seq(PollEntries)
           /\ s.nfds \in Nat /\ s.readfds \in SUBSET Fds /\ s.writefds \in SUBSET Fds
           /\ s.nread \in Int /\ s.nwrite \in Int /\ s.changes \in Seq(KqChanges)
  BY DEF SvcRecords

\* The changes all watch what the changes chg do, but for the change c.
DiffersBy(ks, chg, c, all) ==
  /\ \A fd \in Fds : fd # c.fd => Applied(ks, all)[fd] = Applied(ks, chg)[fd]
  /\ c.add => Applied(ks, all)[c.fd] = Applied(ks, chg)[c.fd] \cup {c.d}
  /\ ~c.add => Applied(ks, all)[c.fd] = Applied(ks, chg)[c.fd] \ {c.d}

\* A change of one descriptor and direction, made after others.
LEMMA AppliedAppend ==
  ASSUME NEW ks \in [Fds -> SUBSET Dirs], NEW chg \in Seq(KqChanges), NEW c \in KqChanges
  PROVE  DiffersBy(ks, chg, c, Append(chg, c))
<1> DEFINE n == Len(chg)
           all == Append(chg, c)
           Old(fd, d) == {i \in DOMAIN chg : chg[i].fd = fd /\ chg[i].d = d}
           New(fd, d) == {i \in DOMAIN all : all[i].fd = fd /\ all[i].d = d}
           In(fd, d) == IF Old(fd, d) = {} THEN d \in ks[fd]
                        ELSE \E i \in Old(fd, d) : chg[i].add /\ \A j \in Old(fd, d) : j <= i
           Out(fd, d) == IF New(fd, d) = {} THEN d \in ks[fd]
                         ELSE \E i \in New(fd, d) : all[i].add /\ \A j \in New(fd, d) : j <= i
<1>1. /\ n \in Nat /\ DOMAIN chg = 1 .. n /\ DOMAIN all = 1 .. n + 1
      /\ all[n + 1] = c /\ \A i \in 1 .. n : all[i] = chg[i]
  OBVIOUS
<1>2. /\ Applied(ks, chg) = [fd \in Fds |-> {d \in Dirs : In(fd, d)}]
      /\ Applied(ks, all) = [fd \in Fds |-> {d \in Dirs : Out(fd, d)}]
  BY DEF Applied
<1>3. c.fd \in Fds /\ c.d \in Dirs /\ c.add \in BOOLEAN
  BY DEF KqChanges
<1>4. Out(c.fd, c.d) = c.add
  <2>1. n + 1 \in New(c.fd, c.d) /\ \A j \in New(c.fd, c.d) : j \in 1 .. n + 1
    BY <1>1
  <2>2. \A i \in New(c.fd, c.d) : (\A j \in New(c.fd, c.d) : j <= i) <=> i = n + 1
    <3> HIDE DEF New, all, n
    <3> QED
      BY <1>1, <2>1
  <2> HIDE DEF New, all, n
  <2> QED
    BY <1>1, <1>3, <2>1, <2>2, Zenon
<1>5. ASSUME NEW fd \in Fds, NEW d \in Dirs, fd # c.fd \/ d # c.d
      PROVE  Out(fd, d) = In(fd, d)
  <2>1. New(fd, d) = Old(fd, d)
    <3>1. ASSUME NEW i PROVE i \in New(fd, d) <=> i \in Old(fd, d)
      BY <1>1, <1>5
    <3> QED
      BY <3>1
  <2>2. \A i \in Old(fd, d) : all[i] = chg[i]
    BY <1>1
  <2> HIDE DEF New, Old, all
  <2> QED
    BY <2>1, <2>2, Zenon
<1> HIDE DEF In, Out, all
<1> QED
  <2>1. ASSUME NEW fd \in Fds
        PROVE  {d \in Dirs : Out(fd, d)} =
                 IF fd = c.fd THEN IF c.add THEN {d \in Dirs : In(fd, d)} \cup {c.d}
                                   ELSE {d \in Dirs : In(fd, d)} \ {c.d}
                 ELSE {d \in Dirs : In(fd, d)}
    BY <1>3, <1>4, <1>5
  <2> QED
    <3>1. DiffersBy(ks, chg, c, all)
      BY <1>2, <1>3, <2>1 DEF DiffersBy
    <3> QED
      BY <3>1 DEF all

\* No changes leave what is watched.
LEMMA AppliedNone ==
  ASSUME NEW ks \in [Fds -> SUBSET Dirs]
  PROVE  Applied(ks, <<>>) = ks
  BY DEF Applied

\* What is watched after changes has its type.
LEMMA AppliedType ==
  ASSUME NEW ks, NEW chg
  PROVE  Applied(ks, chg) \in [Fds -> SUBSET Dirs]
  BY DEF Applied

\* When nothing is left to do, what the system looks at is what was asked for.
LEMMA InterestIs ==
  ASSUME WatchAssumption, WatchTypeOK, Kept, todo = <<>>
  PROVE  Interest = want
<1>1. /\ want \in [Fds -> SUBSET Dirs] /\ watching \in [Fds -> SUBSET Dirs]
      /\ svc.fds \in Seq(PollEntries) /\ svc.nfds \in Nat
      /\ svc.readfds \subseteq Fds /\ svc.writefds \subseteq Fds
      /\ be \in {"epoll", "evports", "kqueue", "poll", "select"}
  BY WatchTypes, SvcTypes, Zenon DEF WatchAssumption
<1>2. CASE be \in {"epoll", "evports"}
  <2>1. Interest = watching /\ WatchesKept
    BY <1>2 DEF Interest, Kept
  <2>2. ~\E fd \in Fds : Pending(fd)
    BY DEF Pending
  <2>3. \A fd \in Fds : watching[fd] = want[fd]
    BY <2>1, <2>2, Zenon DEF WatchesKept
  <2> QED
    BY <1>1, <2>1, <2>3
<1>3. CASE be = "kqueue"
  BY <1>3 DEF Interest, Kept, ChangesKept
<1>4. CASE be = "poll"
  <2> DEFINE Of(fd) == {i \in 1 .. svc.nfds : svc.fds[i].fd = fd}
             All(fd) == UNION {svc.fds[i].events : i \in Of(fd)}
  <2>1. Interest = [fd \in Fds |-> All(fd)] /\ ArrayKept
    BY <1>4 DEF Interest, Kept
  <2>2. ASSUME NEW fd \in Fds PROVE All(fd) = want[fd]
    <3>1. \A i \in Of(fd) : svc.fds[i].events = want[fd]
      BY <2>1 DEF ArrayKept
    <3>2. want[fd] # {} => Of(fd) # {}
      BY <2>1 DEF ArrayKept
    <3> HIDE DEF Of
    <3>3. ASSUME NEW d PROVE d \in All(fd) <=> d \in want[fd]
      BY <3>1, <3>2
    <3> QED
      BY <3>3
  <2> HIDE DEF All
  <2> QED
    BY <1>1, <2>1, <2>2
<1>5. CASE be = "select"
  <2> DEFINE Is(fd, d) == /\ fd < svc.nfds
                          /\ IF d = "in" THEN svc.nread # 0 /\ fd \in svc.readfds
                             ELSE svc.nwrite # 0 /\ fd \in svc.writefds
  <2>1. Interest = [fd \in Fds |-> {d \in Dirs : Is(fd, d)}] /\ SetsKept
    BY <1>5 DEF Interest, Kept
  <2>2. IsFiniteSet(svc.readfds) /\ IsFiniteSet(svc.writefds)
    BY <1>1, FS_Subset DEF WatchAssumption
  <2>3. /\ svc.readfds # {} => svc.nread # 0
        /\ svc.writefds # {} => svc.nwrite # 0
    BY <2>1, <2>2, FS_EmptySet DEF SetsKept
  <2>4. ASSUME NEW fd \in Fds, NEW d \in Dirs PROVE Is(fd, d) <=> d \in want[fd]
    <3>1. CASE d = "in"
      BY <2>1, <2>3, <3>1 DEF SetsKept
    <3>2. CASE d = "out"
      BY <2>1, <2>3, <3>2 DEF SetsKept
    <3> QED
      BY <3>1, <3>2 DEF Dirs
  <2> HIDE DEF Is
  <2>5. \A fd \in Fds : {d \in Dirs : Is(fd, d)} = want[fd]
    BY <1>1, <2>4
  <2> QED
    BY <1>1, <2>1, <2>5
<1> QED
  BY <1>1, <1>2, <1>3, <1>4, <1>5

\* epoll and event ports: a registration.
LEMMA RegisterWatches ==
  ASSUME WatchAssumption, WatchTypeOK, Kept, be \in {"epoll", "evports"},
         NEW fd \in Fds, NEW d \in Dirs, UNCHANGED <<be, at, todo>>,
         \/ want' = [want EXCEPT ![fd] = @ \cup {d}] /\ registerWatch(fd, d)
         \/ want' = [want EXCEPT ![fd] = @ \ {d}] /\ unregisterWatch(fd, d)
  PROVE  WatchTypeOK' /\ Kept'
<1>1. /\ want \in [Fds -> SUBSET Dirs] /\ watching \in [Fds -> SUBSET Dirs]
      /\ svc \in SvcRecords /\ svc.watches \in [Fds -> SUBSET Dirs]
  BY WatchTypes, SvcTypes, Zenon
<1>2. WatchesKept
  BY DEF Kept
<1> DEFINE w == svc'.watches[fd]
<1>3. /\ want' = [want EXCEPT ![fd] = w] /\ w \in SUBSET Dirs
      /\ svc' = [svc EXCEPT !.watches = [svc.watches EXCEPT ![fd] = w]]
      /\ watching' = [watching EXCEPT ![fd] = w] \/ (watching' = watching /\ w = svc.watches[fd])
  <2>1. CASE want' = [want EXCEPT ![fd] = @ \cup {d}] /\ registerWatch(fd, d)
    <3>1. svc' = [svc EXCEPT !.watches = [svc.watches EXCEPT ![fd] = svc.watches[fd] \cup {d}]]
      BY <1>1, <2>1 DEF registerWatch
    <3>2. w = svc.watches[fd] \cup {d}
      BY <1>1, <3>1 DEF SvcRecords
    <3>3. svc.watches = want
      BY <1>2 DEF WatchesKept
    <3> HIDE DEF w
    <3> QED
      BY <1>1, <2>1, <3>1, <3>2, <3>3 DEF registerWatch
  <2>2. CASE want' = [want EXCEPT ![fd] = @ \ {d}] /\ unregisterWatch(fd, d)
    <3>1. svc' = [svc EXCEPT !.watches = [svc.watches EXCEPT ![fd] = svc.watches[fd] \ {d}]]
      BY <1>1, <2>2 DEF unregisterWatch
    <3>2. w = svc.watches[fd] \ {d}
      BY <1>1, <3>1 DEF SvcRecords
    <3>3. svc.watches = want
      BY <1>2 DEF WatchesKept
    <3> HIDE DEF w
    <3> QED
      BY <1>1, <2>2, <3>1, <3>2, <3>3 DEF unregisterWatch
  <2> QED
    BY <2>1, <2>2
<1> HIDE DEF w
<1>4. /\ want' \in [Fds -> SUBSET Dirs] /\ watching' \in [Fds -> SUBSET Dirs]
      /\ svc' \in SvcRecords /\ svc'.watches = want'
  BY <1>1, <1>2, <1>3 DEF SvcRecords, WatchesKept
<1>5. WatchTypeOK'
  BY <1>4, WatchTypes, WatchTypesNext
<1>6. \A f \in Fds : (watching[f] = want[f] \/ (be = "evports" /\ Pending(f)))'
  <2>1. \A f \in Fds : Pending(f)' <=> Pending(f)
    BY DEF Pending
  <2>2. ASSUME NEW f \in Fds, watching[f] = want[f] PROVE watching'[f] = want'[f]
    BY <1>1, <1>2, <1>3, <2>2 DEF WatchesKept
  <2>3. \A f \in Fds : watching[f] = want[f] \/ (be = "evports" /\ Pending(f))
    BY <1>2, Zenon DEF WatchesKept
  <2> QED
    BY <2>1, <2>2, <2>3
<1>7. WatchesKept'
  BY <1>4, <1>6 DEF WatchesKept
<1> QED
  BY <1>5, <1>7 DEF Kept

\* kqueue: a registration.
LEMMA RegisterChanges ==
  ASSUME WatchAssumption, WatchTypeOK, Kept, be = "kqueue",
         NEW fd \in Fds, NEW d \in Dirs, NEW add \in BOOLEAN, UNCHANGED <<be, at, todo>>,
         want' = [want EXCEPT ![fd] = IF add THEN @ \cup {d} ELSE @ \ {d}],
         addChange(fd, d, add)
  PROVE  WatchTypeOK' /\ Kept'
<1> DEFINE c == [fd |-> fd, d |-> d, add |-> add]
           chg == IF Len(svc.changes) = MaxChanges THEN <<>> ELSE svc.changes
<1>1. /\ want \in [Fds -> SUBSET Dirs] /\ watching \in [Fds -> SUBSET Dirs]
      /\ svc \in SvcRecords /\ svc.changes \in Seq(KqChanges)
  BY WatchTypes, SvcTypes, Zenon
<1>2. Applied(watching, svc.changes) = want
  BY DEF Kept, ChangesKept
<1>3. /\ svc' = [svc EXCEPT !.changes = Append(chg, c)]
      /\ watching' = IF Len(svc.changes) = MaxChanges THEN Applied(watching, svc.changes)
                     ELSE watching
  BY <1>1 DEF addChange, SvcRecords
<1>4. chg \in Seq(KqChanges) /\ c \in KqChanges /\ Append(chg, c) \in Seq(KqChanges)
  BY <1>1 DEF KqChanges
<1>5. watching' \in [Fds -> SUBSET Dirs]
  BY <1>1, <1>3, AppliedType
<1>6. Applied(watching', chg) = want
  <2>1. CASE Len(svc.changes) = MaxChanges
    BY <1>1, <1>2, <1>3, <1>5, <2>1, AppliedNone
  <2>2. CASE Len(svc.changes) # MaxChanges
    BY <1>2, <1>3, <2>2
  <2> QED
    BY <2>1, <2>2
<1> HIDE DEF chg
<1> DEFINE all == Append(chg, c)
<1>7. DiffersBy(watching', chg, c, all)
  <2> HIDE DEF c
  <2> QED
    BY <1>4, <1>5, AppliedAppend
<1>8. Applied(watching', all) = want'
  <2>1. Applied(watching', all) \in [Fds -> SUBSET Dirs]
    BY AppliedType
  <2>2. c.fd = fd /\ c.d = d /\ c.add = add
    OBVIOUS
  <2> HIDE DEF c, all
  <2> QED
    BY <1>1, <1>6, <1>7, <2>1, <2>2 DEF DiffersBy
<1>9. svc' \in SvcRecords /\ svc'.changes = all
  <2> HIDE DEF c
  <2> QED
    BY <1>1, <1>3, <1>4 DEF SvcRecords
<1>10. want' \in [Fds -> SUBSET Dirs]
  BY <1>1
<1>11. WatchTypeOK'
  BY <1>5, <1>9, <1>10, WatchTypes, WatchTypesNext
<1>12. ChangesKept'
  <2> HIDE DEF c, all
  <2> QED
    BY <1>8, <1>9, Zenon DEF ChangesKept
<1> QED
  BY <1>11, <1>12 DEF Kept

\* Max of a set with an upper bound.
LEMMA MaxBelow ==
  ASSUME NEW b \in Int, NEW T, T \subseteq Int, T # {}, \A x \in T : x <= b
  PROVE  Max(T) \in T /\ \A x \in T : x <= Max(T)
<1> DEFINE G == {b - x : x \in T}
<1>1. G \subseteq Nat /\ G # {}
  <2>1. \A x \in T : b - x \in Nat
    OBVIOUS
  <2> QED
    BY <2>1
<1>2. PICK m \in G : \A k \in G : m <= k
  <2> HIDE DEF G
  <2> QED
    BY <1>1, LeastNatural
<1>3. PICK x \in T : m = b - x
  BY <1>2
<1>4. ASSUME NEW y \in T PROVE x >= y
  <2>1. b - y \in G
    OBVIOUS
  <2>2. b - x <= b - y
    <3> HIDE DEF G
    <3> QED
      BY <1>2, <1>3, <2>1
  <2> QED
    BY <2>2
<1> HIDE DEF G
<1>5. Max(T) \in T /\ \A y \in T : Max(T) >= y
  BY <1>4, Zenon DEF Max
<1>6. \A y \in T : y <= Max(T)
  BY <1>5
<1> QED
  BY <1>5, <1>6

\* Min of a set of natural numbers.
LEMMA MinOf ==
  ASSUME NEW T, T \subseteq Nat, T # {}
  PROVE  Min(T) \in T /\ \A x \in T : Min(T) <= x
<1>1. PICK n \in T : \A m \in T : n <= m
  BY LeastNatural
<1>2. \A y \in T : n =< y
  BY <1>1
<1> QED
  BY <1>2, Zenon DEF Min

\* The sizes and the bound fit the sets of select.
SetsFit(s) == /\ s.nread = Cardinality(s.readfds) /\ s.nwrite = Cardinality(s.writefds)
              /\ \A f \in s.readfds \cup s.writefds : f < s.nfds

\* What the fields of select are in u.
SetsAre(u, r, w, nr, nw, n) ==
  /\ u \in SvcRecords /\ u.readfds = r /\ u.writefds = w
  /\ u.nread = nr /\ u.nwrite = nw /\ u.nfds = n

\* The assignments to these fields.
LEMMA NfdsUpdates ==
  ASSUME NEW s \in SvcRecords, NEW n \in Nat
  PROVE  SetsAre([s EXCEPT !.nfds = n], s.readfds, s.writefds, s.nread, s.nwrite, n)
  BY DEF SvcRecords, SetsAre

\* One of the two sets changes, and its size.
LEMMA SetsUpdates ==
  ASSUME NEW s \in SvcRecords, NEW f \in SUBSET Fds, NEW m \in Int
  PROVE  /\ SetsAre([s EXCEPT !.readfds = f, !.nread = m], f, s.writefds, m, s.nwrite, s.nfds)
         /\ SetsAre([s EXCEPT !.writefds = f, !.nwrite = m], s.readfds, f, s.nread, m, s.nfds)
<1>1. SetsAre([s EXCEPT !.readfds = f, !.nread = m], f, s.writefds, m, s.nwrite, s.nfds)
  BY DEF SvcRecords, SetsAre
<1>2. SetsAre([s EXCEPT !.writefds = f, !.nwrite = m], s.readfds, f, s.nread, m, s.nfds)
  BY DEF SvcRecords, SetsAre
<1> QED
  BY <1>1, <1>2

\* select: setting a descriptor.
LEMMA SetFdFits ==
  ASSUME WatchAssumption, svc \in SvcRecords, SetsFit(svc), NEW fd \in Fds, NEW d \in Dirs,
         SetFd(fd, d)
  PROVE  /\ svc' \in SvcRecords /\ SetsFit(svc')
         /\ svc'.readfds = IF d = "in" THEN svc.readfds \cup {fd} ELSE svc.readfds
         /\ svc'.writefds = IF d = "out" THEN svc.writefds \cup {fd} ELSE svc.writefds
<1>1. /\ IsFiniteSet(svc.readfds) /\ IsFiniteSet(svc.writefds) /\ fd \in Nat
      /\ svc.readfds \subseteq Fds /\ svc.writefds \subseteq Fds /\ svc.nfds \in Nat
      /\ svc.nread \in Int /\ svc.nwrite \in Int /\ Fds \subseteq Nat
  BY SvcTypes, FS_Subset DEF WatchAssumption
<1>2. CASE fd \in (IF d = "in" THEN svc.readfds ELSE svc.writefds)
  <2>1. svc' = svc
    BY <1>2 DEF SetFd
  <2> QED
    BY <1>2, <2>1 DEF Dirs
<1>3. CASE fd \notin svc.readfds /\ d = "in"
  <2> DEFINE s == [svc EXCEPT !.readfds = @ \cup {fd}, !.nread = @ + 1]
             n == IF fd >= svc.nfds THEN fd + 1 ELSE svc.nfds
  <2>1. SetsAre(s, svc.readfds \cup {fd}, svc.writefds, svc.nread + 1, svc.nwrite, svc.nfds)
    <3>1. svc.readfds \cup {fd} \in SUBSET Fds /\ svc.nread + 1 \in Int
      BY <1>1
    <3> QED
      BY <3>1, SetsUpdates
  <2>2. SetsAre(svc', svc.readfds \cup {fd}, svc.writefds, svc.nread + 1, svc.nwrite, n)
    <3>1. svc' = [s EXCEPT !.nfds = IF fd >= @ THEN fd + 1 ELSE @]
      BY <1>3 DEF SetFd
    <3>2. n \in Nat /\ s \in SvcRecords /\ s.nfds = svc.nfds
      BY <1>1, <2>1 DEF SetsAre
    <3> HIDE DEF s
    <3>3. svc' = [s EXCEPT !.nfds = n]
      BY <3>1, <3>2
    <3> HIDE DEF n
    <3>4. SetsAre(svc', s.readfds, s.writefds, s.nread, s.nwrite, n)
      BY <3>2, <3>3, NfdsUpdates
    <3> QED
      BY <2>1, <3>4 DEF SetsAre
  <2>3. Cardinality(svc.readfds \cup {fd}) = Cardinality(svc.readfds) + 1
    BY <1>1, <1>3, FS_AddElement
  <2>4. ASSUME NEW f \in svc'.readfds \cup svc'.writefds PROVE f < svc'.nfds
    <3>1. f = fd \/ f \in svc.readfds \cup svc.writefds
      BY <2>2 DEF SetsAre
    <3>2. f = fd \/ f < svc.nfds
      BY <3>1 DEF SetsFit
    <3>3. f \in Nat /\ svc'.nfds = n
      BY <1>1, <2>2, <3>1 DEF SetsAre
    <3> HIDE DEF s
    <3> QED
      BY <1>1, <3>2, <3>3
  <2>5. SetsFit(svc')
    <3> HIDE DEF s, n
    <3> QED
      BY <2>2, <2>3, <2>4 DEF SetsFit, SetsAre
  <2> QED
    BY <1>3, <2>2, <2>5 DEF SetsAre
<1>4. CASE fd \notin svc.writefds /\ d = "out"
  <2> DEFINE s == [svc EXCEPT !.writefds = @ \cup {fd}, !.nwrite = @ + 1]
             n == IF fd >= svc.nfds THEN fd + 1 ELSE svc.nfds
  <2>1. SetsAre(s, svc.readfds, svc.writefds \cup {fd}, svc.nread, svc.nwrite + 1, svc.nfds)
    <3>1. svc.writefds \cup {fd} \in SUBSET Fds /\ svc.nwrite + 1 \in Int
      BY <1>1
    <3> QED
      BY <3>1, SetsUpdates
  <2>2. SetsAre(svc', svc.readfds, svc.writefds \cup {fd}, svc.nread, svc.nwrite + 1, n)
    <3>1. svc' = [s EXCEPT !.nfds = IF fd >= @ THEN fd + 1 ELSE @]
      BY <1>4 DEF SetFd
    <3>2. n \in Nat /\ s \in SvcRecords /\ s.nfds = svc.nfds
      BY <1>1, <2>1 DEF SetsAre
    <3> HIDE DEF s
    <3>3. svc' = [s EXCEPT !.nfds = n]
      BY <3>1, <3>2
    <3> HIDE DEF n
    <3>4. SetsAre(svc', s.readfds, s.writefds, s.nread, s.nwrite, n)
      BY <3>2, <3>3, NfdsUpdates
    <3> QED
      BY <2>1, <3>4 DEF SetsAre
  <2>3. Cardinality(svc.writefds \cup {fd}) = Cardinality(svc.writefds) + 1
    BY <1>1, <1>4, FS_AddElement
  <2>4. ASSUME NEW f \in svc'.readfds \cup svc'.writefds PROVE f < svc'.nfds
    <3>1. f = fd \/ f \in svc.readfds \cup svc.writefds
      BY <2>2 DEF SetsAre
    <3>2. f = fd \/ f < svc.nfds
      BY <3>1 DEF SetsFit
    <3>3. f \in Nat /\ svc'.nfds = n
      BY <1>1, <2>2, <3>1 DEF SetsAre
    <3> HIDE DEF s
    <3> QED
      BY <1>1, <3>2, <3>3
  <2>5. SetsFit(svc')
    <3> HIDE DEF s, n
    <3> QED
      BY <2>2, <2>3, <2>4 DEF SetsFit, SetsAre
  <2> QED
    BY <1>4, <2>2, <2>5 DEF SetsAre
<1> QED
  BY <1>2, <1>3, <1>4 DEF Dirs

\* A lower bound still is a bound, as fd is no longer in one of the sets.
LEMMA ReduceFits ==
  ASSUME WatchAssumption, NEW s \in SvcRecords, NEW fd \in Fds,
         s.nread = Cardinality(s.readfds), s.nwrite = Cardinality(s.writefds),
         \A f \in s.readfds \cup s.writefds : f < s.nfds
  PROVE  LET r == tryReduceNfds(s, fd)
         IN  /\ r \in SvcRecords /\ SetsFit(r)
             /\ r.readfds = s.readfds /\ r.writefds = s.writefds
<1> DEFINE r == tryReduceNfds(s, fd)
<1>1. /\ IsFiniteSet(s.readfds) /\ IsFiniteSet(s.writefds) /\ fd \in Nat
      /\ s.readfds \subseteq Fds /\ s.writefds \subseteq Fds /\ s.nfds \in Nat /\ Fds \subseteq Nat
  BY SvcTypes, FS_Subset DEF WatchAssumption
<1>2. CASE s.nread = 0 /\ s.nwrite = 0
  <2>1. s.readfds = {} /\ s.writefds = {}
    BY <1>1, <1>2, FS_EmptySet
  <2>2. r = [s EXCEPT !.nfds = 0]
    BY <1>2 DEF tryReduceNfds
  <2>3. SetsAre(r, s.readfds, s.writefds, s.nread, s.nwrite, 0)
    BY <2>2, NfdsUpdates
  <2> HIDE DEF r
  <2>4. SetsFit(r)
    BY <2>1, <2>3 DEF SetsFit, SetsAre
  <2> QED
    BY <2>3, <2>4 DEF r, SetsAre
<1>3. CASE ~(s.nread = 0 /\ s.nwrite = 0) /\ fd + 1 < s.nfds
  <2>1. r = s
    BY <1>3 DEF tryReduceNfds
  <2> QED
    BY <2>1 DEF SetsFit
<1>4. CASE ~(s.nread = 0 /\ s.nwrite = 0) /\ ~(fd + 1 < s.nfds)
  <2> DEFINE T == {f \in s.readfds \cup s.writefds : f <= fd} \cup {-1}
  <2>1. T \subseteq Int /\ T # {} /\ \A x \in T : x <= fd
    <3>1. s.readfds \cup s.writefds \subseteq Nat
      BY <1>1, Zenon
    <3>2. ASSUME NEW x \in T PROVE x \in Int /\ x <= fd
      BY <1>1, <3>1
    <3> QED
      BY <3>2
  <2>2. s.readfds \cup s.writefds \subseteq T
    <3>1. ASSUME NEW f \in s.readfds \cup s.writefds PROVE f <= fd
      <4>1. f \in Nat /\ fd \in Nat /\ s.nfds \in Nat /\ f < s.nfds
        BY <1>1
      <4> QED
        BY <1>4, <4>1
    <3> QED
      BY <3>1
  <2>3. r = [s EXCEPT !.nfds = Max(T) + 1]
    BY <1>4 DEF tryReduceNfds
  <2> HIDE DEF T
  <2>4. Max(T) \in T /\ \A x \in T : x <= Max(T)
    <3>1. fd \in Int
      BY <1>1
    <3> QED
      BY <2>1, <3>1, MaxBelow
  <2>5. Max(T) + 1 \in Nat
    <3>1. \A x \in T : x = -1 \/ x \in Nat
      BY <1>1 DEF T
    <3> QED
      BY <2>4, <3>1
  <2>6. SetsAre(r, s.readfds, s.writefds, s.nread, s.nwrite, Max(T) + 1)
    BY <2>3, <2>5, NfdsUpdates
  <2>7. ASSUME NEW f \in s.readfds \cup s.writefds PROVE f < Max(T) + 1
    <3>1. f \in T /\ f \in Int /\ Max(T) \in Int
      BY <2>1, <2>2, <2>4
    <3> QED
      BY <2>4, <3>1
  <2> HIDE DEF r
  <2>8. SetsFit(r)
    BY <2>6, <2>7 DEF SetsFit, SetsAre
  <2> QED
    BY <2>6, <2>8 DEF r, SetsAre
<1> QED
  BY <1>2, <1>3, <1>4

\* select: clearing a descriptor.
LEMMA ClrFdFits ==
  ASSUME WatchAssumption, svc \in SvcRecords, SetsFit(svc), NEW fd \in Fds, NEW d \in Dirs,
         ClrFd(fd, d)
  PROVE  /\ svc' \in SvcRecords /\ SetsFit(svc')
         /\ svc'.readfds = IF d = "in" THEN svc.readfds \ {fd} ELSE svc.readfds
         /\ svc'.writefds = IF d = "out" THEN svc.writefds \ {fd} ELSE svc.writefds
<1>1. /\ IsFiniteSet(svc.readfds) /\ IsFiniteSet(svc.writefds)
      /\ svc.readfds \subseteq Fds /\ svc.writefds \subseteq Fds /\ svc.nfds \in Nat
      /\ svc.nread \in Int /\ svc.nwrite \in Int
  BY SvcTypes, FS_Subset DEF WatchAssumption
<1>2. CASE fd \notin (IF d = "in" THEN svc.readfds ELSE svc.writefds)
  <2>1. svc' = svc
    BY <1>2 DEF ClrFd
  <2> QED
    BY <1>2, <2>1 DEF Dirs
<1>3. CASE fd \in svc.readfds /\ d = "in"
  <2> DEFINE s == [svc EXCEPT !.readfds = @ \ {fd}, !.nread = @ - 1]
  <2>1. svc' = tryReduceNfds(s, fd)
    BY <1>3 DEF ClrFd
  <2>2. SetsAre(s, svc.readfds \ {fd}, svc.writefds, svc.nread - 1, svc.nwrite, svc.nfds)
    <3>1. svc.readfds \ {fd} \in SUBSET Fds /\ svc.nread - 1 \in Int
      BY <1>1
    <3> QED
      BY <3>1, SetsUpdates
  <2>3. Cardinality(svc.readfds \ {fd}) = Cardinality(svc.readfds) - 1
    BY <1>1, <1>3, FS_RemoveElement
  <2> HIDE DEF s
  <2>4. /\ s.nread = Cardinality(s.readfds) /\ s.nwrite = Cardinality(s.writefds)
        /\ \A f \in s.readfds \cup s.writefds : f < s.nfds
    BY <2>2, <2>3 DEF SetsFit, SetsAre
  <2> QED
    BY <1>3, <2>1, <2>2, <2>4, ReduceFits DEF SetsAre
<1>4. CASE fd \in svc.writefds /\ d = "out"
  <2> DEFINE s == [svc EXCEPT !.writefds = @ \ {fd}, !.nwrite = @ - 1]
  <2>1. svc' = tryReduceNfds(s, fd)
    BY <1>4 DEF ClrFd
  <2>2. SetsAre(s, svc.readfds, svc.writefds \ {fd}, svc.nread, svc.nwrite - 1, svc.nfds)
    <3>1. svc.writefds \ {fd} \in SUBSET Fds /\ svc.nwrite - 1 \in Int
      BY <1>1
    <3> QED
      BY <3>1, SetsUpdates
  <2>3. Cardinality(svc.writefds \ {fd}) = Cardinality(svc.writefds) - 1
    BY <1>1, <1>4, FS_RemoveElement
  <2> HIDE DEF s
  <2>4. /\ s.nread = Cardinality(s.readfds) /\ s.nwrite = Cardinality(s.writefds)
        /\ \A f \in s.readfds \cup s.writefds : f < s.nfds
    BY <2>2, <2>3 DEF SetsFit, SetsAre
  <2> QED
    BY <1>4, <2>1, <2>2, <2>4, ReduceFits DEF SetsAre
<1> QED
  BY <1>2, <1>3, <1>4 DEF Dirs

\* select: a registration.
LEMMA RegisterSets ==
  ASSUME WatchAssumption, WatchTypeOK, Kept, be = "select",
         NEW fd \in Fds, NEW d \in Dirs, UNCHANGED <<be, at, todo, watching>>,
         \/ want' = [want EXCEPT ![fd] = @ \cup {d}] /\ SetFd(fd, d)
         \/ want' = [want EXCEPT ![fd] = @ \ {d}] /\ ClrFd(fd, d)
  PROVE  WatchTypeOK' /\ Kept'
<1>1. want \in [Fds -> SUBSET Dirs] /\ svc \in SvcRecords
  BY WatchTypes, Zenon
<1>2. /\ svc.readfds = {f \in Fds : "in" \in want[f]}
      /\ svc.writefds = {f \in Fds : "out" \in want[f]} /\ SetsFit(svc)
  BY DEF Kept, SetsKept, SetsFit
<1>3. want' \in [Fds -> SUBSET Dirs]
  BY <1>1
<1>4. /\ svc' \in SvcRecords /\ SetsFit(svc')
      /\ svc'.readfds = {f \in Fds : "in" \in want'[f]}
      /\ svc'.writefds = {f \in Fds : "out" \in want'[f]}
  <2>1. CASE want' = [want EXCEPT ![fd] = @ \cup {d}] /\ SetFd(fd, d)
    <3>1. /\ svc' \in SvcRecords /\ SetsFit(svc')
          /\ svc'.readfds = IF d = "in" THEN svc.readfds \cup {fd} ELSE svc.readfds
          /\ svc'.writefds = IF d = "out" THEN svc.writefds \cup {fd} ELSE svc.writefds
      BY <1>1, <1>2, <2>1, SetFdFits
    <3>2. \A f \in Fds : want'[f] = IF f = fd THEN want[f] \cup {d} ELSE want[f]
      BY <1>1, <2>1
    <3> QED
      BY <1>2, <3>1, <3>2
  <2>2. CASE want' = [want EXCEPT ![fd] = @ \ {d}] /\ ClrFd(fd, d)
    <3>1. /\ svc' \in SvcRecords /\ SetsFit(svc')
          /\ svc'.readfds = IF d = "in" THEN svc.readfds \ {fd} ELSE svc.readfds
          /\ svc'.writefds = IF d = "out" THEN svc.writefds \ {fd} ELSE svc.writefds
      BY <1>1, <1>2, <2>2, ClrFdFits
    <3>2. \A f \in Fds : want'[f] = IF f = fd THEN want[f] \ {d} ELSE want[f]
      BY <1>1, <2>2
    <3> QED
      BY <1>2, <3>1, <3>2
  <2> QED
    BY <2>1, <2>2
<1>5. WatchTypeOK'
  BY <1>3, <1>4, WatchTypes, WatchTypesNext
<1>6. SetsKept'
  BY <1>4 DEF SetsKept, SetsFit
<1> QED
  BY <1>5, <1>6 DEF Kept

\* poll: the entry found for a descriptor.
LEMMA PollEntry ==
  ASSUME NEW s, NEW n \in Nat, NEW fd
  PROVE  LET i == SelectInSubSeq(s, 1, n, LAMBDA e : e.fd = fd)
         IN  \/ i = 0 /\ \A k \in 1 .. n : s[k].fd # fd
             \/ i \in 1 .. n /\ s[i].fd = fd
<1> DEFINE I == {k \in 1 .. n : s[k].fd = fd}
           i == SelectInSubSeq(s, 1, n, LAMBDA e : e.fd = fd)
<1>1. i = IF I # {} THEN Min(I) ELSE 0
  BY DEF SelectInSubSeq
<1>2. I \subseteq Nat
  OBVIOUS
<1>3. CASE I = {}
  <2>1. i = 0
    BY <1>1, <1>3
  <2> QED
    BY <1>3, <2>1
<1>4. CASE I # {}
  <2>1. Min(I) \in I
    <3> HIDE DEF I
    <3> QED
      BY <1>2, <1>4, MinOf
  <2>2. i = Min(I)
    BY <1>1, <1>4
  <2>3. i \in I
    BY <2>1, <2>2
  <2> QED
    BY <2>3
<1> QED
  BY <1>3, <1>4

\* Where the events of an entry of the array after a registration come from: there
\* are none, or they are those of the entry at the same place, or of the next one.
MovedFrom(k) ==
  \/ svc'.fds[k].revents = {}
  \/ /\ k <= svc'.nfds => k <= svc.nfds
     /\ svc'.fds[k].fd = svc.fds[k].fd /\ svc'.fds[k].revents = svc.fds[k].revents
  \/ /\ k + 1 <= svc.nfds
     /\ svc'.fds[k].fd = svc.fds[k + 1].fd /\ svc'.fds[k].revents = svc.fds[k + 1].revents

\* No registration adds events to what is still to be looked at.
LEMMA ScanStaysDue ==
  ASSUME WatchTypeOK, be = "poll", ScanDue, UNCHANGED <<todo, due>>,
         svc.nfds <= Len(svc.fds), svc' \in SvcRecords, svc'.nfds <= Len(svc'.fds),
         Len(svc'.fds) >= Len(svc.fds), \A k \in 1 .. Len(svc'.fds) : MovedFrom(k)
  PROVE  ScanDue'
<1> SUFFICES ASSUME todo # <<>> PROVE ScanDue'
  BY DEF ScanDue
<1> DEFINE s == todo[1]
           Due(k, d) == d \in svc.fds[k].revents => [do |-> d, fd |-> svc.fds[k].fd] \in due
           New(k, d) == d \in svc'.fds[k].revents => [do |-> d, fd |-> svc'.fds[k].fd] \in due
<1>1. /\ Len(todo) = 1 /\ s.i >= 1
      /\ s.do # "scan" => s.i <= Len(svc.fds)
      /\ s.do = "scanin" => Due(s.i, "in")
      /\ \A k \in 1 .. svc.nfds :
           k > s.i \/ (k = s.i /\ s.do = "scan") => Due(k, "in") /\ Due(k, "out")
  BY DEF ScanDue
<1>2. /\ s.i \in Nat /\ svc.nfds \in Nat /\ svc'.nfds \in Nat
      /\ Len(svc.fds) \in Nat /\ Len(svc'.fds) \in Nat
  <2>1. todo \in Seq(ScanSteps)
    BY WatchTypes
  <2>2. s \in ScanSteps
    BY <1>1, <2>1
  <2>3. svc.fds \in Seq(PollEntries) /\ svc'.fds \in Seq(PollEntries)
    BY WatchTypes, SvcTypes
  <2> QED
    BY <2>2, <2>3, WatchTypes, SvcTypes DEF ScanSteps
<1>3. ASSUME s.do = "scanin" PROVE New(s.i, "in")
  <2>1. s.i \in 1 .. Len(svc'.fds)
    <3>1. s.i >= 1 /\ s.i <= Len(svc.fds)
      BY <1>1, <1>3
    <3> HIDE DEF s
    <3> QED
      BY <1>2, <3>1
  <2>2. MovedFrom(s.i)
    BY <2>1
  <2>3. s.i + 1 <= svc.nfds => Due(s.i + 1, "in")
    <3>1. s.i + 1 <= svc.nfds => s.i + 1 \in 1 .. svc.nfds /\ s.i + 1 > s.i
      BY <1>2
    <3> QED
      BY <1>1, <3>1
  <2> QED
    BY <1>1, <1>3, <2>2, <2>3 DEF MovedFrom
<1>4. ASSUME NEW k \in 1 .. svc'.nfds, k > s.i \/ (k = s.i /\ s.do = "scan")
      PROVE  New(k, "in") /\ New(k, "out")
  <2>1. k \in 1 .. Len(svc'.fds) /\ k \in Nat
    BY <1>2
  <2>2. MovedFrom(k)
    BY <2>1
  <2>3. k + 1 <= svc.nfds => Due(k + 1, "in") /\ Due(k + 1, "out")
    <3>1. k + 1 <= svc.nfds => k + 1 \in 1 .. svc.nfds /\ k + 1 > s.i
      BY <1>2, <1>4
    <3> QED
      BY <1>1, <3>1
  <2>4. k <= svc.nfds => Due(k, "in") /\ Due(k, "out")
    <3>1. k <= svc.nfds => k \in 1 .. svc.nfds
      BY <1>2
    <3> QED
      BY <1>1, <1>4, <3>1
  <2>5. k <= svc'.nfds
    BY <1>2
  <2> QED
    BY <2>2, <2>3, <2>4, <2>5 DEF MovedFrom
<1>5. s.i <= Len(svc.fds) => s.i <= Len(svc'.fds)
  BY <1>2
<1> QED
  BY <1>1, <1>3, <1>4, <1>5 DEF ScanDue

\* The first n entries of an array are for what w asks for.
ArrayFits(fs, n, w) ==
  /\ \A i, j \in 1 .. n : fs[i].fd = fs[j].fd => i = j
  /\ \A i \in 1 .. n : fs[i].events = w[fs[i].fd] /\ fs[i].events # {}
  /\ \A f \in Fds : w[f] # {} => \E i \in 1 .. n : fs[i].fd = f

\* What a registration does to the array.
ArrayStep(w) ==
  /\ svc' \in SvcRecords /\ svc'.nfds <= Len(svc'.fds) /\ Len(svc'.fds) >= Len(svc.fds)
  /\ \A k \in 1 .. Len(svc'.fds) : MovedFrom(k)
  /\ ArrayFits(svc'.fds, svc'.nfds, w)

\* The array, as the invariant has it.
LEMMA ArrayFacts ==
  ASSUME WatchAssumption, WatchTypeOK, Kept, be = "poll"
  PROVE  /\ svc \in SvcRecords /\ svc.fds \in Seq(PollEntries) /\ svc.nfds \in Nat
         /\ svc.nfds <= Len(svc.fds) /\ Len(svc.fds) \in Nat
         /\ want \in [Fds -> SUBSET Dirs] /\ ArrayKept
         /\ \A k \in 1 .. Len(svc.fds) : svc.fds[k] \in PollEntries
<1>1. /\ svc \in SvcRecords /\ svc.fds \in Seq(PollEntries) /\ svc.nfds \in Nat
      /\ want \in [Fds -> SUBSET Dirs]
  BY WatchTypes, SvcTypes, Zenon
<1>2. ArrayKept
  BY DEF Kept
<1> QED
  BY <1>1, <1>2 DEF ArrayKept

\* poll: an entry gets other events.
LEMMA EntryChanges ==
  ASSUME WatchAssumption, WatchTypeOK, Kept, be = "poll", NEW i \in 1 .. svc.nfds,
         NEW ev \in SUBSET Dirs, ev # {}, NEW w \in [Fds -> SUBSET Dirs],
         svc' = [svc EXCEPT !.fds[i].events = ev], w = [want EXCEPT ![svc.fds[i].fd] = ev]
  PROVE  ArrayStep(w)
<1> DEFINE e == [svc.fds[i] EXCEPT !.events = ev]
           fs == [svc.fds EXCEPT ![i] = e]
<1>1. /\ svc \in SvcRecords /\ svc.fds \in Seq(PollEntries) /\ svc.nfds \in Nat
      /\ svc.nfds <= Len(svc.fds) /\ Len(svc.fds) \in Nat
      /\ want \in [Fds -> SUBSET Dirs] /\ ArrayKept
      /\ \A k \in 1 .. Len(svc.fds) : svc.fds[k] \in PollEntries
  BY ArrayFacts
<1>2. i \in 1 .. Len(svc.fds) /\ svc.fds[i] \in PollEntries
  BY <1>1
<1>3. e \in PollEntries /\ e.fd = svc.fds[i].fd /\ e.revents = svc.fds[i].revents /\ e.events = ev
  BY <1>2 DEF PollEntries
<1>4. /\ fs \in Seq(PollEntries) /\ Len(fs) = Len(svc.fds) /\ fs[i] = e
      /\ \A k \in 1 .. Len(svc.fds) : k # i => fs[k] = svc.fds[k]
  <2> HIDE DEF e
  <2> QED
    BY <1>1, <1>2, <1>3
<1>5. svc' = [svc EXCEPT !.fds = fs]
  BY <1>1
<1> HIDE DEF fs, e
<1>6. svc' \in SvcRecords /\ svc'.fds = fs /\ svc'.nfds = svc.nfds
  BY <1>1, <1>4, <1>5 DEF SvcRecords
<1>7. \A k \in 1 .. Len(svc.fds) : /\ fs[k].fd = svc.fds[k].fd /\ fs[k].revents = svc.fds[k].revents
                                   /\ k # i => fs[k].events = svc.fds[k].events
                                   /\ k = i => fs[k].events = ev
  BY <1>3, <1>4
<1>8. \A k \in 1 .. Len(fs) : MovedFrom(k)
  BY <1>4, <1>6, <1>7 DEF MovedFrom
<1>9. \A k \in 1 .. svc.nfds : /\ k \in 1 .. Len(svc.fds) /\ svc.fds[k].fd \in Fds
                               /\ svc.fds[k].events = want[svc.fds[k].fd] /\ svc.fds[k].events # {}
                               /\ svc.fds[k].fd = svc.fds[i].fd => k = i
  BY <1>1 DEF ArrayKept, PollEntries
<1>10. \A f \in Fds : w[f] = IF f = svc.fds[i].fd THEN ev ELSE want[f]
  BY <1>1
<1>11. ASSUME NEW k \in 1 .. svc.nfds
       PROVE  fs[k].events = w[fs[k].fd] /\ fs[k].events # {}
  BY <1>7, <1>9, <1>10
<1>12. \A k, l \in 1 .. svc.nfds : fs[k].fd = fs[l].fd => k = l
  BY <1>1, <1>7, <1>9 DEF ArrayKept
<1>13. ASSUME NEW f \in Fds, w[f] # {} PROVE \E k \in 1 .. svc.nfds : fs[k].fd = f
  <2>1. CASE f = svc.fds[i].fd
    BY <1>2, <1>7, <2>1
  <2>2. CASE f # svc.fds[i].fd
    <3>1. PICK k \in 1 .. svc.nfds : svc.fds[k].fd = f
      BY <1>1, <1>10, <1>13, <2>2 DEF ArrayKept
    <3> QED
      BY <1>7, <1>9, <3>1
  <2> QED
    BY <2>1, <2>2
<1>14. svc'.nfds <= Len(svc'.fds) /\ Len(svc'.fds) >= Len(svc.fds)
  BY <1>1, <1>4, <1>6
<1>15. ArrayFits(fs, svc.nfds, w)
  BY <1>11, <1>12, <1>13, Zenon DEF ArrayFits
<1> QED
  BY <1>6, <1>8, <1>14, <1>15 DEF ArrayStep

\* Entry n is for a new descriptor.
AddsEntry(fd, d, n) ==
  svc' = [svc EXCEPT !.nfds = n, !.fds =
            [k \in DOMAIN svc.fds \cup {n} |->
               IF k = n THEN [fd |-> fd, events |-> {d}, revents |-> {}] ELSE svc.fds[k]]]

\* poll: an entry is added behind the last one.
LEMMA EntryAdded ==
  ASSUME WatchAssumption, WatchTypeOK, Kept, be = "poll", NEW fd \in Fds, NEW d \in Dirs,
         \A k \in 1 .. svc.nfds : svc.fds[k].fd # fd, NEW w \in [Fds -> SUBSET Dirs],
         w = [want EXCEPT ![fd] = want[fd] \cup {d}], NEW n, n = svc.nfds + 1,
         AddsEntry(fd, d, n)
  PROVE  ArrayStep(w)
<1> DEFINE e == [fd |-> fd, events |-> {d}, revents |-> {}]
           fs == [k \in DOMAIN svc.fds \cup {n} |-> IF k = n THEN e ELSE svc.fds[k]]
<1>1. /\ svc \in SvcRecords /\ svc.fds \in Seq(PollEntries) /\ svc.nfds \in Nat
      /\ svc.nfds <= Len(svc.fds) /\ Len(svc.fds) \in Nat
      /\ want \in [Fds -> SUBSET Dirs] /\ ArrayKept
      /\ \A k \in 1 .. Len(svc.fds) : svc.fds[k] \in PollEntries
  BY ArrayFacts
<1>2. e \in PollEntries /\ e.fd = fd /\ e.events = {d} /\ e.revents = {}
  BY DEF PollEntries
<1>3. n \in Nat /\ n >= 1 /\ n - 1 = svc.nfds
  BY <1>1
<1>4. /\ fs \in Seq(PollEntries) /\ Len(fs) \in Nat /\ Len(fs) >= n /\ Len(fs) >= Len(svc.fds)
      /\ fs[n] = e /\ \A k \in 1 .. Len(fs) : k # n => fs[k] = svc.fds[k]
  <2> DEFINE m == IF n <= Len(svc.fds) THEN Len(svc.fds) ELSE n
  <2>1. m \in Nat /\ m >= n /\ m >= Len(svc.fds) /\ n \in 1 .. m
        /\ DOMAIN svc.fds = 1 .. Len(svc.fds)
    BY <1>1, <1>3
  <2>2. DOMAIN svc.fds \cup {n} = 1 .. m
    BY <1>1, <1>3
  <2> HIDE DEF m, e
  <2>3. fs = [k \in 1 .. m |-> IF k = n THEN e ELSE svc.fds[k]]
    BY <2>2, Zenon
  <2>4. \A k \in 1 .. m : k # n => k \in 1 .. Len(svc.fds)
    BY <2>1, <2>2
  <2>5. \A k \in 1 .. m : (IF k = n THEN e ELSE svc.fds[k]) \in PollEntries
    BY <1>1, <1>2, <2>4
  <2> HIDE DEF fs
  <2>6. fs \in [1 .. m -> PollEntries]
    BY <2>3, <2>5
  <2>7. fs \in Seq(PollEntries) /\ Len(fs) = m
    BY <2>1, <2>6
  <2> QED
    BY <2>1, <2>3, <2>7
<1>5. svc' = [svc EXCEPT !.nfds = n, !.fds = fs]
  BY DEF AddsEntry
<1> HIDE DEF fs, e
<1>6. svc' \in SvcRecords /\ svc'.fds = fs /\ svc'.nfds = n
  BY <1>1, <1>3, <1>4, <1>5 DEF SvcRecords
<1>7. ASSUME NEW k \in 1 .. Len(fs) PROVE MovedFrom(k)
  <2>1. CASE k = n
    BY <1>2, <1>4, <1>6, <2>1 DEF MovedFrom
  <2>2. CASE k # n
    <3>1. fs[k] = svc.fds[k] /\ (k <= n => k <= svc.nfds)
      BY <1>1, <1>3, <1>4, <2>2
    <3> QED
      BY <1>6, <3>1 DEF MovedFrom
  <2> QED
    BY <2>1, <2>2
<1>8. \A k \in 1 .. n : k # n => k \in 1 .. svc.nfds /\ fs[k] = svc.fds[k]
  BY <1>1, <1>3, <1>4
<1>9. want[fd] = {}
  BY <1>1 DEF ArrayKept
<1>10. \A f \in Fds : w[f] = IF f = fd THEN {d} ELSE want[f]
  BY <1>1, <1>9
<1>11. \A k \in 1 .. svc.nfds : /\ svc.fds[k].fd \in Fds /\ svc.fds[k].fd # fd
                                /\ svc.fds[k].events = want[svc.fds[k].fd] /\ svc.fds[k].events # {}
  BY <1>1 DEF ArrayKept, PollEntries
<1>12. ASSUME NEW k \in 1 .. n PROVE fs[k].events = w[fs[k].fd] /\ fs[k].events # {}
  <2>1. CASE k = n
    BY <1>2, <1>4, <1>10, <2>1
  <2>2. CASE k # n
    <3>1. k \in 1 .. svc.nfds /\ fs[k] = svc.fds[k]
      BY <1>8, <2>2
    <3> QED
      BY <1>10, <1>11, <3>1
  <2> QED
    BY <2>1, <2>2
<1>13. ASSUME NEW k \in 1 .. n, NEW l \in 1 .. n, fs[k].fd = fs[l].fd PROVE k = l
  <2>1. CASE k = n \/ l = n
    <3>1. \A m \in 1 .. n : m # n => fs[m].fd # fd
      BY <1>8, <1>11
    <3>2. fs[n].fd = fd
      BY <1>2, <1>4
    <3> QED
      BY <1>13, <2>1, <3>1, <3>2
  <2>2. CASE k # n /\ l # n
    <3>1. /\ k \in 1 .. svc.nfds /\ l \in 1 .. svc.nfds
          /\ fs[k] = svc.fds[k] /\ fs[l] = svc.fds[l]
      BY <1>8, <2>2
    <3> QED
      BY <1>1, <1>13, <3>1 DEF ArrayKept
  <2> QED
    BY <2>1, <2>2
<1>14. ASSUME NEW f \in Fds, w[f] # {} PROVE \E k \in 1 .. n : fs[k].fd = f
  <2>1. CASE f = fd
    BY <1>2, <1>3, <1>4, <2>1
  <2>2. CASE f # fd
    <3>1. PICK k \in 1 .. svc.nfds : svc.fds[k].fd = f
      BY <1>1, <1>10, <1>14, <2>2 DEF ArrayKept
    <3>2. k \in 1 .. n /\ k # n
      BY <1>1, <1>3
    <3> QED
      BY <1>8, <3>1, <3>2
  <2> QED
    BY <2>1, <2>2
<1>15. ArrayFits(fs, n, w)
  BY <1>12, <1>13, <1>14, Zenon DEF ArrayFits
<1> QED
  BY <1>3, <1>4, <1>6, <1>7, <1>15 DEF ArrayStep

\* The entries behind entry i are moved over it.
RemovesEntry(s, i) ==
  svc' = [s EXCEPT !.nfds = @ - 1,
            !.fds = [k \in DOMAIN s.fds |-> IF k \in i .. svc.nfds - 1
                                             THEN s.fds[k + 1] ELSE s.fds[k]]]

\* poll: the last direction of an entry is removed, and the entry with it.
LEMMA EntryRemoved ==
  ASSUME WatchAssumption, WatchTypeOK, Kept, be = "poll", NEW i \in 1 .. svc.nfds,
         NEW w \in [Fds -> SUBSET Dirs], w = [want EXCEPT ![svc.fds[i].fd] = {}],
         NEW s, s = [svc EXCEPT !.fds[i].events = {}],
         RemovesEntry(s, i)
  PROVE  ArrayStep(w)
<1> DEFINE e == [svc.fds[i] EXCEPT !.events = {}]
           gs == [svc.fds EXCEPT ![i] = e]
           fs == [k \in DOMAIN s.fds |-> IF k \in i .. svc.nfds - 1 THEN s.fds[k + 1] ELSE s.fds[k]]
           n == svc.nfds - 1
           len == Len(svc.fds)
<1>1. /\ svc \in SvcRecords /\ svc.fds \in Seq(PollEntries) /\ svc.nfds \in Nat
      /\ svc.nfds <= len /\ len \in Nat
      /\ want \in [Fds -> SUBSET Dirs] /\ ArrayKept
      /\ \A k \in 1 .. len : svc.fds[k] \in PollEntries
  BY ArrayFacts
<1>2. i \in 1 .. len /\ svc.fds[i] \in PollEntries /\ n \in Nat /\ n < len /\ i <= n + 1 /\ i \in Nat
  BY <1>1
<1>3. e \in PollEntries /\ e.fd = svc.fds[i].fd /\ e.revents = svc.fds[i].revents
  BY <1>2 DEF PollEntries
<1>4. /\ gs \in Seq(PollEntries) /\ Len(gs) = len /\ DOMAIN gs = 1 .. len /\ gs[i] = e
      /\ \A k \in 1 .. len : gs[k] \in PollEntries /\ (k # i => gs[k] = svc.fds[k])
  <2> HIDE DEF e
  <2> QED
    BY <1>1, <1>2, <1>3
<1>5. s = [svc EXCEPT !.fds = gs]
  BY <1>1
<1> HIDE DEF gs, e
<1>6. s \in SvcRecords /\ s.fds = gs /\ s.nfds = svc.nfds
  BY <1>1, <1>4, <1>5 DEF SvcRecords
<1>7. svc' = [s EXCEPT !.nfds = n, !.fds = fs]
  <2>1. svc' = [s EXCEPT !.nfds = @ - 1, !.fds = fs]
    BY Zenon DEF RemovesEntry
  <2> HIDE DEF fs
  <2> QED
    BY <1>6, <2>1
<1>8. /\ fs \in [1 .. len -> PollEntries]
      /\ \A k \in 1 .. len : /\ k \in i .. n => fs[k] = svc.fds[k + 1] /\ k + 1 \in 1 .. svc.nfds
                             /\ k \notin i .. n => fs[k] = gs[k]
  <2>1. \A k \in 1 .. len : k \in i .. n => k + 1 \in 1 .. len /\ k + 1 # i /\ k + 1 \in 1 .. svc.nfds
    BY <1>1, <1>2
  <2>2. DOMAIN s.fds = 1 .. len /\ s.fds = gs
    BY <1>4, <1>6
  <2>3. fs = [k \in 1 .. len |-> IF k \in i .. n THEN s.fds[k + 1] ELSE s.fds[k]]
    BY <2>2, Zenon
  <2> HIDE DEF fs, n, len
  <2>4. \A k \in 1 .. len : fs[k] = IF k \in i .. n THEN gs[k + 1] ELSE gs[k]
    <3>1. ASSUME NEW k \in 1 .. len
          PROVE  fs[k] = IF k \in i .. n THEN gs[k + 1] ELSE gs[k]
      <4>1. fs[k] = IF k \in i .. n THEN s.fds[k + 1] ELSE s.fds[k]
        BY <2>3, Zenon
      <4> QED
        BY <2>2, <4>1, Zenon
    <3> QED
      BY <3>1
  <2>5. DOMAIN fs = 1 .. len /\ fs = [k \in 1 .. len |-> fs[k]]
    BY <2>3
  <2>6. \A k \in 1 .. len : fs[k] \in PollEntries
    BY <1>4, <2>1, <2>4
  <2>7. \A k \in 1 .. len : k \in i .. n => gs[k + 1] = svc.fds[k + 1]
    BY <1>4, <2>1
  <2> QED
    BY <2>1, <2>4, <2>5, <2>6, <2>7
<1> HIDE DEF fs
<1>9. fs \in Seq(PollEntries) /\ Len(fs) = len
  <2>1. fs \in [1 .. len -> PollEntries] /\ len \in Nat
    BY <1>1, <1>8
  <2> HIDE DEF len
  <2> QED
    BY <2>1
<1>10. svc' \in SvcRecords /\ svc'.fds = fs /\ svc'.nfds = n
  BY <1>2, <1>6, <1>7, <1>9 DEF SvcRecords
<1>11. ASSUME NEW k \in 1 .. len PROVE MovedFrom(k)
  <2>1. CASE k \in i .. n
    <3>1. fs[k] = svc.fds[k + 1] /\ k + 1 <= svc.nfds
      BY <1>8, <2>1
    <3> QED
      BY <1>10, <3>1 DEF MovedFrom
  <2>2. CASE k \notin i .. n
    <3>1. fs[k].fd = svc.fds[k].fd /\ fs[k].revents = svc.fds[k].revents
      BY <1>3, <1>4, <1>8, <2>2
    <3>2. k <= n => k <= svc.nfds
      BY <1>1
    <3> QED
      BY <1>10, <3>1, <3>2 DEF MovedFrom
  <2> QED
    BY <2>1, <2>2
<1> DEFINE From(k) == IF k < i THEN k ELSE k + 1
<1>12. ASSUME NEW k \in 1 .. n
       PROVE  From(k) \in 1 .. svc.nfds /\ From(k) # i /\ fs[k] = svc.fds[From(k)]
  <2>1. CASE k < i
    <3>1. k \in 1 .. len /\ k \notin i .. n /\ k # i /\ From(k) = k /\ k \in 1 .. svc.nfds
      BY <1>1, <1>2, <2>1
    <3> QED
      BY <1>4, <1>8, <3>1
  <2>2. CASE ~(k < i)
    <3>1. k \in 1 .. len /\ k \in i .. n /\ From(k) = k + 1 /\ k + 1 # i
      BY <1>1, <1>2, <2>2
    <3> QED
      BY <1>8, <3>1
  <2> QED
    BY <2>1, <2>2
<1>13. \A k, l \in 1 .. n : From(k) = From(l) => k = l
  BY <1>2
<1>14. ASSUME NEW m \in 1 .. svc.nfds, m # i PROVE \E k \in 1 .. n : From(k) = m
  <2>1. CASE m < i
    <3>1. m \in 1 .. n /\ From(m) = m
      BY <1>2, <2>1
    <3> QED
      BY <3>1
  <2>2. CASE m > i
    <3>1. m - 1 \in 1 .. n /\ From(m - 1) = m
      BY <1>1, <1>2, <2>2
    <3> QED
      BY <3>1
  <2> QED
    BY <1>2, <1>14, <2>1, <2>2
<1> HIDE DEF From
<1>15. \A k \in 1 .. svc.nfds : /\ svc.fds[k].fd \in Fds
                                /\ svc.fds[k].events = want[svc.fds[k].fd] /\ svc.fds[k].events # {}
                                /\ svc.fds[k].fd = svc.fds[i].fd => k = i
  BY <1>1 DEF ArrayKept, PollEntries
<1>16. \A f \in Fds : w[f] = IF f = svc.fds[i].fd THEN {} ELSE want[f]
  BY <1>1
<1>17. ASSUME NEW k \in 1 .. n PROVE fs[k].events = w[fs[k].fd] /\ fs[k].events # {}
  <2>1. From(k) \in 1 .. svc.nfds /\ From(k) # i /\ fs[k] = svc.fds[From(k)]
    BY <1>12
  <2> QED
    BY <1>15, <1>16, <2>1
<1>18. ASSUME NEW k \in 1 .. n, NEW l \in 1 .. n, fs[k].fd = fs[l].fd PROVE k = l
  <2>1. /\ From(k) \in 1 .. svc.nfds /\ fs[k] = svc.fds[From(k)]
        /\ From(l) \in 1 .. svc.nfds /\ fs[l] = svc.fds[From(l)]
    BY <1>12
  <2>2. From(k) = From(l)
    BY <1>1, <1>18, <2>1 DEF ArrayKept
  <2> QED
    BY <1>13, <2>2
<1>19. ASSUME NEW f \in Fds, w[f] # {} PROVE \E k \in 1 .. n : fs[k].fd = f
  <2>1. f # svc.fds[i].fd /\ want[f] # {}
    BY <1>16, <1>19
  <2>2. PICK m \in 1 .. svc.nfds : svc.fds[m].fd = f
    BY <1>1, <2>1 DEF ArrayKept
  <2>3. PICK k \in 1 .. n : From(k) = m
    BY <1>14, <2>1, <2>2
  <2> QED
    BY <1>12, <2>2, <2>3
<1>20. ArrayFits(fs, n, w)
  BY <1>17, <1>18, <1>19, Zenon DEF ArrayFits
<1>21. n <= Len(fs) /\ Len(fs) >= len
  BY <1>2, <1>9
<1> QED
  BY <1>9, <1>10, <1>11, <1>20, <1>21 DEF ArrayStep

\* poll: a registration.
LEMMA RegisterArray ==
  ASSUME WatchAssumption, WatchTypeOK, Kept, ScanDue, be = "poll",
         NEW fd \in Fds, NEW d \in Dirs, UNCHANGED <<be, at, todo, due, watching>>,
         \/ want' = [want EXCEPT ![fd] = @ \cup {d}] /\ registerPoll(fd, d)
         \/ want' = [want EXCEPT ![fd] = @ \ {d}] /\ unregisterPoll(fd, d)
  PROVE  WatchTypeOK' /\ Kept' /\ ScanDue'
<1> DEFINE i == SelectInSubSeq(svc.fds, 1, svc.nfds, LAMBDA e : e.fd = fd)
<1>1. /\ svc \in SvcRecords /\ svc.fds \in Seq(PollEntries) /\ svc.nfds \in Nat
      /\ svc.nfds <= Len(svc.fds) /\ Len(svc.fds) \in Nat
      /\ want \in [Fds -> SUBSET Dirs] /\ ArrayKept
      /\ \A k \in 1 .. Len(svc.fds) : svc.fds[k] \in PollEntries
  BY ArrayFacts
<1>2. \/ i = 0 /\ \A k \in 1 .. svc.nfds : svc.fds[k].fd # fd
      \/ i \in 1 .. svc.nfds /\ svc.fds[i].fd = fd
  BY <1>1, PollEntry
<1>3. PICK w \in [Fds -> SUBSET Dirs] : w = want'
  BY <1>1
<1>4. i \in 1 .. svc.nfds => svc.fds[i].events = want[fd] /\ i # 0
  BY <1>1, <1>2 DEF ArrayKept
<1>5. ArrayStep(w)
  <2>1. CASE want' = [want EXCEPT ![fd] = @ \cup {d}] /\ registerPoll(fd, d)
    <3>1. svc' = IF i # 0 THEN [svc EXCEPT !.fds[i].events = @ \cup {d}]
                 ELSE [svc EXCEPT !.nfds = svc.nfds + 1, !.fds =
                        [k \in DOMAIN svc.fds \cup {svc.nfds + 1} |->
                           IF k = svc.nfds + 1 THEN [fd |-> fd, events |-> {d}, revents |-> {}]
                           ELSE svc.fds[k]]]
      BY <2>1, Zenon DEF registerPoll
    <3> HIDE DEF i
    <3>2. CASE i = 0
      <4> DEFINE n == svc.nfds + 1
      <4>1. AddsEntry(fd, d, n)
        BY <3>1, <3>2 DEF AddsEntry
      <4>2. \A k \in 1 .. svc.nfds : svc.fds[k].fd # fd
        BY <1>2, <3>2
      <4>3. w = [want EXCEPT ![fd] = want[fd] \cup {d}]
        BY <1>3, <2>1
      <4>4. n = svc.nfds + 1
        OBVIOUS
      <4> HIDE DEF n
      <4> QED
        BY <4>1, <4>2, <4>3, <4>4, EntryAdded
    <3>3. CASE i \in 1 .. svc.nfds
      <4> DEFINE ev == want[fd] \cup {d}
      <4>1. svc' = [svc EXCEPT !.fds[i].events = ev]
        BY <1>1, <1>4, <3>1, <3>3
      <4>2. ev \in SUBSET Dirs /\ ev # {}
        BY <1>1
      <4>3. w = [want EXCEPT ![svc.fds[i].fd] = ev]
        BY <1>2, <1>3, <1>4, <2>1, <3>3
      <4> HIDE DEF ev
      <4> QED
        BY <3>3, <4>1, <4>2, <4>3, EntryChanges
    <3> QED
      BY <1>2, <3>2, <3>3
  <2>2. CASE want' = [want EXCEPT ![fd] = @ \ {d}] /\ unregisterPoll(fd, d)
    <3> DEFINE s == [svc EXCEPT !.fds[i].events = @ \ {d}]
    <3>1. svc' = IF i = 0 THEN svc
                 ELSE IF s.fds[i].events # {} THEN s
                 ELSE [s EXCEPT !.nfds = @ - 1,
                         !.fds = [k \in DOMAIN s.fds |-> IF k \in i .. svc.nfds - 1
                                                          THEN s.fds[k + 1] ELSE s.fds[k]]]
      BY <2>2, Zenon DEF unregisterPoll
    <3> HIDE DEF i
    <3>2. CASE i = 0
      <4>1. svc' = svc
        BY <3>1, <3>2
      <4>2. want[fd] = {}
        BY <1>1, <1>2, <3>2 DEF ArrayKept
      <4>3. w = want
        BY <1>1, <1>3, <2>2, <4>2
      <4>4. \A k : MovedFrom(k)
        BY <4>1 DEF MovedFrom
      <4>5. ArrayFits(svc.fds, svc.nfds, want)
        BY <1>1 DEF ArrayKept, ArrayFits
      <4> QED
        BY <1>1, <4>1, <4>3, <4>4, <4>5 DEF ArrayStep
    <3>3. CASE i \in 1 .. svc.nfds
      <4> DEFINE ev == want[fd] \ {d}
      <4>1. s = [svc EXCEPT !.fds[i].events = ev]
        BY <1>1, <1>4, <3>3
      <4>2. i \in 1 .. Len(svc.fds) /\ svc.fds[i] \in PollEntries
        BY <1>1, <3>3
      <4>3. s.fds[i].events = ev
        BY <1>1, <4>1, <4>2 DEF SvcRecords, PollEntries
      <4>4. w = [want EXCEPT ![svc.fds[i].fd] = ev]
        BY <1>2, <1>3, <1>4, <2>2, <3>3
      <4>5. ev \in SUBSET Dirs
        BY <1>1
      <4> HIDE DEF ev, s
      <4>6. CASE ev # {}
        <5>1. svc' = [svc EXCEPT !.fds[i].events = ev]
          BY <1>4, <3>1, <3>3, <4>1, <4>3, <4>6
        <5> QED
          BY <3>3, <4>4, <4>5, <4>6, <5>1, EntryChanges
      <4>7. CASE ev = {}
        <5>1. s = [svc EXCEPT !.fds[i].events = {}] /\ w = [want EXCEPT ![svc.fds[i].fd] = {}]
          BY <4>1, <4>4, <4>7
        <5>2. RemovesEntry(s, i)
          BY <1>4, <3>1, <3>3, <4>3, <4>7 DEF RemovesEntry
        <5> QED
          BY <3>3, <5>1, <5>2, EntryRemoved
      <4> QED
        BY <4>6, <4>7
    <3> QED
      BY <1>2, <3>2, <3>3
  <2> QED
    BY <2>1, <2>2
<1> HIDE DEF i
<1>6. WatchTypeOK'
  <2>1. svc' \in SvcRecords
    BY <1>5 DEF ArrayStep
  <2> QED
    BY <1>3, <2>1, WatchTypes, WatchTypesNext
<1>7. ArrayKept'
  <2>1. svc'.nfds <= Len(svc'.fds) /\ ArrayFits(svc'.fds, svc'.nfds, want')
    BY <1>3, <1>5, Zenon DEF ArrayStep
  <2> QED
    BY <2>1, Zenon DEF ArrayKept, ArrayFits
<1>8. ScanDue'
  BY <1>1, <1>5, ScanStaysDue DEF ArrayStep
<1> QED
  BY <1>6, <1>7, <1>8 DEF Kept

-----------------------------------------------------------------------------
(* Watch: what is raised *)

\* A sequence of all elements of a set.
LEMMA SeqOfSet ==
  ASSUME NEW S, IsFiniteSet(S), NEW order \in SetToSeqs(S)
  PROVE  /\ order \in Seq(S) /\ DOMAIN order = 1 .. Len(order)
         /\ \A i, j \in DOMAIN order : order[i] = order[j] => i = j
         /\ \A x \in S : \E i \in DOMAIN order : order[i] = x
<1> DEFINE n == Cardinality(S)
<1>1. n \in Nat
  BY FS_CardinalityType
<1>2. /\ order \in [1 .. n -> S]
      /\ \A i, j \in 1 .. n : i # j => order[i] # order[j]
  BY DEF SetToSeqs
<1>3. ASSUME NEW x \in S, \A i \in 1 .. n : order[i] # x PROVE FALSE
  <2> DEFINE T == S \ {x}
  <2>1. IsFiniteSet(T) /\ Cardinality(T) = n - 1
    BY FS_RemoveElement
  <2>2. IsFiniteSet(1 .. n) /\ Cardinality(1 .. n) = n
    BY <1>1, FS_Interval
  <2>3. order \in [1 .. n -> T]
    BY <1>2, <1>3
  <2>4. Cardinality(T) < Cardinality(1 .. n)
    BY <1>1, <2>1, <2>2
  <2> HIDE DEF T, n
  <2>5. \E i, j \in 1 .. n : i # j /\ order[i] = order[j]
    BY <2>1, <2>2, <2>3, <2>4, FS_PigeonHole
  <2> QED
    BY <1>2, <2>5
<1> HIDE DEF n
<1>4. order \in Seq(S) /\ DOMAIN order = 1 .. n /\ Len(order) = n
  BY <1>1, <1>2
<1> QED
  BY <1>2, <1>3, <1>4

\* Short sequences one after the other.
LEMMA ShortConcats ==
  ASSUME NEW Y, NEW a \in Y, NEW b \in Y, NEW c \in Y
  PROVE  /\ <<a>> \o <<>> = <<a>> /\ <<>> \o <<a>> = <<a>> /\ <<a>> \o <<b>> = <<a, b>>
         /\ <<a, b>> \o <<>> = <<a, b>> /\ <<>> \o <<a, b>> = <<a, b>>
         /\ <<a, b>> \o <<c, b>> = <<a, b, c, b>>
<1>1. <<a>> \in Seq(Y) /\ <<a, b>> \in Seq(Y)
  OBVIOUS
<1>2. /\ <<a>> \o <<>> = <<a>> /\ <<>> \o <<a>> = <<a>>
      /\ <<a, b>> \o <<>> = <<a, b>> /\ <<>> \o <<a, b>> = <<a, b>>
  BY <1>1, ConcatEmptySeq, Zenon
<1>3. <<a>> \o <<b>> = <<a, b>>
  <2> DEFINE u == <<a>> \o <<b>>
             v == <<a, b>>
  <2>1. u \in Seq(Y) /\ v \in Seq(Y) /\ Len(u) = 2 /\ Len(v) = 2
    OBVIOUS
  <2>2. \A i \in 1 .. 2 : u[i] = v[i]
    OBVIOUS
  <2> HIDE DEF u, v
  <2>3. u = v
    BY <2>1, <2>2, SeqEqual
  <2> QED
    BY <2>3 DEF u, v
<1>4. <<a, b>> \o <<c, b>> = <<a, b, c, b>>
  <2> DEFINE u == <<a, b>> \o <<c, b>>
             v == <<a, b, c, b>>
  <2>1. u \in Seq(Y) /\ v \in Seq(Y) /\ Len(u) = 4 /\ Len(v) = 4
    OBVIOUS
  <2>2. \A i \in 1 .. 4 : u[i] = v[i]
    OBVIOUS
  <2> HIDE DEF u, v
  <2>3. u = v
    BY <2>1, <2>2, SeqEqual
  <2> QED
    BY <2>3 DEF u, v
<1> QED
  BY <1>2, <1>3, <1>4

\* The events of one descriptor: those reported, each once, and for event ports
\* a reregister.
IsListOf(t, fd) ==
  /\ t \in Seq(ListSteps)
  /\ \A p \in DOMAIN t : t[p].fd = fd /\ (t[p].do \in Dirs => t[p].do \in Report(fd))
  /\ \A p, q \in DOMAIN t : t[p].do \in Dirs /\ t[p] = t[q] => p = q
  /\ be # "evports" => \A p \in DOMAIN t : t[p].do \in Dirs
  /\ be = "evports" /\ Report(fd) \cap Dirs # {} => \E p \in DOMAIN t : t[p].do = "reregister"

\* Events makes such a list.
LEMMA EventsAre ==
  ASSUME NEW fd \in Fds
  PROVE  IsListOf(Events(fd), fd)
<1> DEFINE O == [do |-> "out", fd |-> fd]
           I == [do |-> "in", fd |-> fd]
           A == [do |-> "reregister", fd |-> fd]
<1>1. /\ O \in ListSteps /\ I \in ListSteps /\ A \in ListSteps
      /\ O.do = "out" /\ I.do = "in" /\ A.do = "reregister"
      /\ O.fd = fd /\ I.fd = fd /\ A.fd = fd
      /\ O # I /\ O # A /\ I # A
  BY DEF ListSteps
<1>2. /\ EventsOf(fd, "out") = IF "out" \notin Report(fd) THEN <<>>
                               ELSE IF be = "evports" THEN <<O, A>> ELSE <<O>>
      /\ EventsOf(fd, "in") = IF "in" \notin Report(fd) THEN <<>>
                              ELSE IF be = "evports" THEN <<I, A>> ELSE <<I>>
  BY Zenon DEF EventsOf
<1>3. Events(fd) = EventsOf(fd, "out") \o EventsOf(fd, "in")
  BY Zenon DEF Events
<1> HIDE DEF O, I, A
<1>4. CASE "out" \notin Report(fd) /\ "in" \notin Report(fd)
  <2>1. Events(fd) = <<>>
    BY <1>2, <1>3, <1>4
  <2>2. Report(fd) \cap Dirs = {}
    BY <1>4 DEF Dirs
  <2> QED
    BY <2>1, <2>2 DEF IsListOf
<1>5. CASE be # "evports" /\ "out" \in Report(fd) /\ "in" \notin Report(fd)
  <2>1. Events(fd) = <<O>>
    <3>1. EventsOf(fd, "out") = <<O>> /\ EventsOf(fd, "in") = <<>>
      BY <1>2, <1>5, Zenon
    <3>2. <<O>> \o <<>> = <<O>>
      BY <1>1, ShortConcats
    <3> QED
      BY <1>3, <3>1, <3>2, Zenon
  <2> QED
    BY <1>1, <1>5, <2>1 DEF IsListOf, Dirs
<1>6. CASE be # "evports" /\ "out" \notin Report(fd) /\ "in" \in Report(fd)
  <2>1. Events(fd) = <<I>>
    <3>1. EventsOf(fd, "out") = <<>> /\ EventsOf(fd, "in") = <<I>>
      BY <1>2, <1>6, Zenon
    <3>2. <<>> \o <<I>> = <<I>>
      BY <1>1, ShortConcats
    <3> QED
      BY <1>3, <3>1, <3>2, Zenon
  <2> QED
    BY <1>1, <1>6, <2>1 DEF IsListOf, Dirs
<1>7. CASE be # "evports" /\ "out" \in Report(fd) /\ "in" \in Report(fd)
  <2>1. Events(fd) = <<O, I>>
    <3>1. EventsOf(fd, "out") = <<O>> /\ EventsOf(fd, "in") = <<I>>
      BY <1>2, <1>7, Zenon
    <3>2. <<O>> \o <<I>> = <<O, I>>
      BY <1>1, ShortConcats
    <3> QED
      BY <1>3, <3>1, <3>2, Zenon
  <2> QED
    BY <1>1, <1>7, <2>1 DEF IsListOf, Dirs
<1>8. CASE be = "evports" /\ "out" \in Report(fd) /\ "in" \notin Report(fd)
  <2>1. Events(fd) = <<O, A>>
    <3>1. EventsOf(fd, "out") = <<O, A>> /\ EventsOf(fd, "in") = <<>>
      BY <1>2, <1>8, Zenon
    <3>2. <<O, A>> \o <<>> = <<O, A>>
      BY <1>1, ShortConcats
    <3> QED
      BY <1>3, <3>1, <3>2, Zenon
  <2> QED
    BY <1>1, <1>8, <2>1 DEF IsListOf, Dirs
<1>9. CASE be = "evports" /\ "out" \notin Report(fd) /\ "in" \in Report(fd)
  <2>1. Events(fd) = <<I, A>>
    <3>1. EventsOf(fd, "out") = <<>> /\ EventsOf(fd, "in") = <<I, A>>
      BY <1>2, <1>9, Zenon
    <3>2. <<>> \o <<I, A>> = <<I, A>>
      BY <1>1, ShortConcats
    <3> QED
      BY <1>3, <3>1, <3>2, Zenon
  <2> QED
    BY <1>1, <1>9, <2>1 DEF IsListOf, Dirs
<1>10. CASE be = "evports" /\ "out" \in Report(fd) /\ "in" \in Report(fd)
  <2>1. Events(fd) = <<O, A, I, A>>
    <3>1. EventsOf(fd, "out") = <<O, A>> /\ EventsOf(fd, "in") = <<I, A>>
      BY <1>2, <1>10, Zenon
    <3>2. <<O, A>> \o <<I, A>> = <<O, A, I, A>>
      BY <1>1, ShortConcats
    <3> QED
      BY <1>3, <3>1, <3>2, Zenon
  <2> QED
    BY <1>1, <1>10, <2>1 DEF IsListOf, Dirs
<1> QED
  BY <1>4, <1>5, <1>6, <1>7, <1>8, <1>9, <1>10

\* What may be the list of the events of the descriptors in got.
IsList(t, got) ==
  /\ t \in Seq(ListSteps)
  /\ \A k \in DOMAIN t : t[k].fd \in got /\ (t[k].do \in Dirs => t[k].do \in Report(t[k].fd))
  /\ \A k, l \in DOMAIN t : t[k].do \in Dirs /\ t[k] = t[l] => k = l
  /\ be # "evports" => \A k \in DOMAIN t : t[k].do \in Dirs
  /\ be = "evports" => \A fd \in got : Report(fd) \cap Dirs # {} =>
                          \E k \in DOMAIN t : t[k].do = "reregister" /\ t[k].fd = fd

\* The lists of several descriptors, one after the other.
LEMMA ListsJoin ==
  ASSUME NEW got \in SUBSET Fds, IsFiniteSet(got), NEW order \in SetToSeqs(got),
         NEW ss, ss = [i \in DOMAIN order |-> Events(order[i])]
  PROVE  IsList(FlattenSeq(ss), got)
<1> DEFINE t == FlattenSeq(ss)
           n == Len(order)
<1>1. /\ order \in Seq(got) /\ DOMAIN order = 1 .. n /\ n \in Nat
      /\ \A i, j \in DOMAIN order : order[i] = order[j] => i = j
      /\ \A x \in got : \E i \in DOMAIN order : order[i] = x
      /\ \A i \in 1 .. n : order[i] \in got /\ order[i] \in Fds
  BY SeqOfSet
<1>2. \A i \in 1 .. n : ss[i] = Events(order[i]) /\ IsListOf(ss[i], order[i])
  BY <1>1, EventsAre
<1>3. ss \in Seq(Seq(ListSteps)) /\ Len(ss) = n
  <2>1. \A i \in 1 .. n : ss[i] \in Seq(ListSteps)
    BY <1>2 DEF IsListOf
  <2>2. DOMAIN ss = 1 .. n /\ ss = [i \in 1 .. n |-> ss[i]]
    BY <1>1
  <2>3. ss \in [1 .. n -> Seq(ListSteps)]
    BY <2>1, <2>2
  <2> HIDE DEF n
  <2> QED
    BY <1>1, <2>3
<1>4. t \in Seq(ListSteps)
  BY <1>3, FlattenType
<1>5. PICK a, b : Places(a, b, t, ss, n)
  BY <1>3, FlattenPlaces
<1> HIDE DEF t, n
<1>6. ASSUME NEW k \in DOMAIN t
      PROVE  /\ a[k] \in 1 .. n /\ b[k] \in DOMAIN ss[a[k]] /\ t[k] = ss[a[k]][b[k]]
             /\ order[a[k]] \in got /\ t[k].fd = order[a[k]]
             /\ t[k].do \in Dirs => t[k].do \in Report(order[a[k]])
             /\ be # "evports" => t[k].do \in Dirs
  <2>1. a[k] \in 1 .. n /\ b[k] \in DOMAIN ss[a[k]] /\ t[k] = ss[a[k]][b[k]]
    BY <1>5 DEF Places
  <2>2. IsListOf(ss[a[k]], order[a[k]]) /\ order[a[k]] \in got
    BY <1>1, <1>2, <2>1
  <2>3. PICK u : u = ss[a[k]]
    OBVIOUS
  <2>4. PICK p \in DOMAIN u : t[k] = u[p]
    BY <2>1, <2>3, Zenon
  <2>5. IsListOf(u, order[a[k]])
    BY <2>2, <2>3, Zenon
  <2>6. /\ u[p].fd = order[a[k]]
        /\ u[p].do \in Dirs => u[p].do \in Report(order[a[k]])
        /\ be # "evports" => u[p].do \in Dirs
    BY <2>5, Zenon DEF IsListOf
  <2> QED
    BY <2>1, <2>2, <2>4, <2>6, Zenon
<1>7. ASSUME NEW k \in DOMAIN t, NEW l \in DOMAIN t, t[k].do \in Dirs, t[k] = t[l]
      PROVE  k = l
  <2>1. order[a[k]] = order[a[l]] /\ a[k] \in 1 .. n /\ a[l] \in 1 .. n
    BY <1>6, <1>7
  <2>2. a[k] = a[l]
    BY <1>1, <2>1
  <2>3. /\ b[k] \in DOMAIN ss[a[k]] /\ b[l] \in DOMAIN ss[a[k]]
        /\ ss[a[k]][b[k]] = ss[a[k]][b[l]] /\ ss[a[k]][b[k]].do \in Dirs
    BY <1>6, <1>7, <2>2
  <2>4. IsListOf(ss[a[k]], order[a[k]])
    BY <1>2, <2>1
  <2>5. b[k] = b[l]
    BY <2>3, <2>4 DEF IsListOf
  <2> QED
    BY <1>5, <2>2, <2>5 DEF Places
<1>8. ASSUME be = "evports", NEW fd \in got, Report(fd) \cap Dirs # {}
      PROVE  \E k \in DOMAIN t : t[k].do = "reregister" /\ t[k].fd = fd
  <2>1. PICK i \in 1 .. n : order[i] = fd
    BY <1>1
  <2>2. PICK p \in DOMAIN ss[i] : ss[i][p].do = "reregister"
    BY <1>2, <1>8, <2>1 DEF IsListOf
  <2>3. PICK k \in DOMAIN t : a[k] = i /\ b[k] = p
    BY <1>5 DEF Places
  <2> QED
    BY <1>6, <2>1, <2>2, <2>3
<1>9. ASSUME NEW k \in DOMAIN t
      PROVE  t[k].fd \in got /\ (t[k].do \in Dirs => t[k].do \in Report(t[k].fd))
  BY <1>6
<1>10. be # "evports" => \A k \in DOMAIN t : t[k].do \in Dirs
  BY <1>6
<1>11. IsList(t, got)
  BY <1>4, <1>7, <1>8, <1>9, <1>10, Zenon DEF IsList
<1> QED
  BY <1>11 DEF t

\* The events of one direction, each once.
IsHalf(t, got, d) ==
  /\ t \in Seq(ListSteps)
  /\ \A k \in DOMAIN t : t[k].fd \in got /\ t[k].do = d /\ d \in Report(t[k].fd)
  /\ \A k, l \in DOMAIN t : t[k] = t[l] => k = l

\* select: the events of one direction, of one descriptor after the other.
LEMMA HalfJoins ==
  ASSUME be = "select", NEW got \in SUBSET Fds, IsFiniteSet(got), NEW d \in Dirs,
         NEW order \in SetToSeqs(got), NEW ss, ss = [i \in DOMAIN order |-> EventsOf(order[i], d)]
  PROVE  IsHalf(FlattenSeq(ss), got, d)
<1> DEFINE t == FlattenSeq(ss)
           n == Len(order)
           E(fd) == [do |-> d, fd |-> fd]
<1>1. /\ order \in Seq(got) /\ DOMAIN order = 1 .. n /\ n \in Nat
      /\ \A i, j \in DOMAIN order : order[i] = order[j] => i = j
      /\ \A i \in 1 .. n : order[i] \in got /\ order[i] \in Fds
  BY SeqOfSet
<1>2. \A i \in 1 .. n : ss[i] = IF d \in Report(order[i]) THEN <<E(order[i])>> ELSE <<>>
  BY <1>1 DEF EventsOf
<1>3. \A fd \in Fds : E(fd) \in ListSteps /\ E(fd).fd = fd /\ E(fd).do = d
  BY DEF ListSteps, Dirs
<1> HIDE DEF E
<1>4. \A i \in 1 .. n : /\ ss[i] \in Seq(ListSteps)
                        /\ \A p \in DOMAIN ss[i] : /\ p = 1 /\ ss[i][p] = E(order[i])
                                                   /\ d \in Report(order[i])
  <2> SUFFICES ASSUME NEW i \in 1 .. n
               PROVE  /\ ss[i] \in Seq(ListSteps)
                      /\ \A p \in DOMAIN ss[i] : /\ p = 1 /\ ss[i][p] = E(order[i])
                                                 /\ d \in Report(order[i])
    OBVIOUS
  <2>1. PICK e \in ListSteps : e = E(order[i])
    BY <1>1, <1>3
  <2>2. <<e>> \in Seq(ListSteps) /\ \A p \in DOMAIN <<e>> : p = 1 /\ <<e>>[p] = e
    OBVIOUS
  <2>3. CASE d \in Report(order[i])
    <3>1. ss[i] = <<e>>
      BY <1>2, <2>1, <2>3, Zenon
    <3> QED
      BY <2>1, <2>2, <2>3, <3>1, Zenon
  <2>4. CASE d \notin Report(order[i])
    <3>1. ss[i] = <<>>
      BY <1>2, <2>4, Zenon
    <3>2. <<>> \in Seq(ListSteps) /\ ~\E p : p \in DOMAIN <<>>
      OBVIOUS
    <3> QED
      BY <3>1, <3>2, Zenon
  <2> QED
    BY <2>3, <2>4
<1>5. ss \in Seq(Seq(ListSteps)) /\ Len(ss) = n
  <2>2. DOMAIN ss = 1 .. n /\ ss = [i \in 1 .. n |-> ss[i]]
    BY <1>1
  <2>3. ss \in [1 .. n -> Seq(ListSteps)]
    BY <1>4, <2>2
  <2> HIDE DEF n
  <2> QED
    BY <1>1, <2>3
<1>6. t \in Seq(ListSteps)
  BY <1>5, FlattenType
<1>7. PICK a, b : Places(a, b, t, ss, n)
  BY <1>5, FlattenPlaces
<1> HIDE DEF t, n
<1>8. ASSUME NEW k \in DOMAIN t
      PROVE  /\ a[k] \in 1 .. n /\ b[k] = 1 /\ t[k] = E(order[a[k]])
             /\ order[a[k]] \in got /\ order[a[k]] \in Fds /\ d \in Report(order[a[k]])
  <2>1. a[k] \in 1 .. n /\ b[k] \in DOMAIN ss[a[k]] /\ t[k] = ss[a[k]][b[k]]
    BY <1>7 DEF Places
  <2> QED
    BY <1>1, <1>4, <2>1
<1>9. ASSUME NEW k \in DOMAIN t
      PROVE  t[k].fd \in got /\ t[k].do = d /\ d \in Report(t[k].fd)
  BY <1>3, <1>8
<1>10. ASSUME NEW k \in DOMAIN t, NEW l \in DOMAIN t, t[k] = t[l] PROVE k = l
  <2>1. order[a[k]] = order[a[l]]
    BY <1>3, <1>8, <1>10
  <2>2. a[k] = a[l] /\ b[k] = b[l]
    BY <1>1, <1>8, <2>1
  <2> QED
    BY <1>7, <2>2 DEF Places
<1>11. IsHalf(t, got, d)
  BY <1>6, <1>9, <1>10, Zenon DEF IsHalf
<1> QED
  BY <1>11 DEF t

\* select: both directions.
LEMMA HalvesJoin ==
  ASSUME be = "select", NEW got \in SUBSET Fds, NEW o, NEW i,
         IsHalf(o, got, "out"), IsHalf(i, got, "in")
  PROVE  IsList(o \o i, got)
<1> DEFINE t == o \o i
<1>1. /\ o \in Seq(ListSteps) /\ i \in Seq(ListSteps)
      /\ Len(o) \in Nat /\ Len(i) \in Nat /\ DOMAIN o = 1 .. Len(o) /\ DOMAIN i = 1 .. Len(i)
  BY DEF IsHalf
<1>2. t \in Seq(ListSteps) /\ DOMAIN t = 1 .. Len(o) + Len(i)
  BY <1>1
<1>3. ASSUME NEW k \in DOMAIN t
      PROVE  \/ k \in DOMAIN o /\ t[k] = o[k]
             \/ ~(k \in DOMAIN o) /\ k - Len(o) \in DOMAIN i /\ t[k] = i[k - Len(o)]
  BY <1>1, <1>2
<1> HIDE DEF t
<1>4. ASSUME NEW k \in DOMAIN t
      PROVE  /\ t[k].fd \in got /\ t[k].do \in Dirs /\ t[k].do \in Report(t[k].fd)
             /\ t[k].do = IF k \in DOMAIN o THEN "out" ELSE "in"
  BY <1>3 DEF IsHalf, Dirs
<1>5. ASSUME NEW k \in DOMAIN t, NEW l \in DOMAIN t, t[k] = t[l] PROVE k = l
  <2>1. (k \in DOMAIN o) = (l \in DOMAIN o)
    BY <1>4, <1>5
  <2>2. CASE k \in DOMAIN o
    BY <1>3, <1>5, <2>1, <2>2 DEF IsHalf
  <2>3. CASE ~(k \in DOMAIN o)
    <3>1. k - Len(o) = l - Len(o)
      <4>1. PICK p \in DOMAIN i : p = k - Len(o) /\ t[k] = i[p]
        BY <1>3, <2>3
      <4>2. PICK q \in DOMAIN i : q = l - Len(o) /\ t[l] = i[q]
        BY <1>3, <2>1, <2>3
      <4>3. p = q
        BY <1>5, <4>1, <4>2 DEF IsHalf
      <4> QED
        BY <4>1, <4>2, <4>3
    <3> QED
      BY <1>1, <1>2, <3>1
  <2> QED
    BY <2>2, <2>3
<1>6. IsList(t, got)
  BY <1>2, <1>4, <1>5 DEF IsList
<1> QED
  BY <1>6 DEF t

\* External: what the system may report, when it looks at what was asked for.
LEMMA ReportIs ==
  ASSUME WatchAssumption, Interest \in [Fds -> SUBSET Dirs], NEW fd \in Fds
  PROVE  /\ Report(fd) \subseteq {"in", "out", "hup"}
         /\ be \notin EndIsHup => Report(fd) \subseteq Dirs
<1>1. PICK T : T = Interest[fd]
  OBVIOUS
<1>2. T \subseteq Dirs
  BY <1>1
<1>3. Report(fd) \in {{}, T, {"hup"}, T \cap {"in"}}
  <2>1. Report(fd) = CASE T = {} \/ ready[fd] = "idle" -> {}
                       [] T # {} /\ ready[fd] = "ready" -> T
                       [] OTHER -> IF be \in EndIsHup THEN {"hup"} ELSE T \cap {"in"}
    BY <1>1, Zenon DEF Report
  <2> QED
    BY <2>1
<1>4. be \notin EndIsHup => Report(fd) \in {{}, T, T \cap {"in"}}
  <2>1. Report(fd) = CASE T = {} \/ ready[fd] = "idle" -> {}
                       [] T # {} /\ ready[fd] = "ready" -> T
                       [] OTHER -> IF be \in EndIsHup THEN {"hup"} ELSE T \cap {"in"}
    BY <1>1, Zenon DEF Report
  <2> QED
    BY <2>1
<1> QED
  BY <1>2, <1>3, <1>4 DEF Dirs

\* The events of the list t are in the set G, and each is in the list once.
ListIn(t, G) ==
  \A i \in DOMAIN t :
     /\ t[i].do \in Dirs => t[i] \in G /\ \A j \in DOMAIN t : t[j] = t[i] => j = i
     /\ t[i].do \notin Dirs => be = "evports"

\* The list of a round holds events that were reported, each once.
LEMMA ListIsIn ==
  ASSUME NEW got \in SUBSET Fds, NEW t, IsList(t, got),
         NEW G, G = {e \in [do : Dirs, fd : got] : e.do \in Report(e.fd)}
  PROVE  ListIn(t, G)
<1> SUFFICES ASSUME NEW i \in DOMAIN t, t[i].do \in Dirs
             PROVE  t[i] \in G /\ \A j \in DOMAIN t : t[j] = t[i] => j = i
  BY DEF ListIn, IsList
<1>1. PICK e : e = t[i]
  OBVIOUS
<1>2. e \in ListSteps /\ e.fd \in got /\ e.do \in Dirs /\ e.do \in Report(e.fd)
  BY <1>1 DEF IsList
<1>3. e \in [do : Dirs, fd : got]
  BY <1>2 DEF ListSteps
<1> QED
  BY <1>1, <1>2, <1>3 DEF IsList

\* What holds when the thread waits.
LEMMA Waiting ==
  ASSUME WatchAssumption, WatchInv, at = "wait"
  PROVE  /\ WatchTypeOK /\ Kept /\ todo = <<>> /\ Interest = want
         /\ Interest \in [Fds -> SUBSET Dirs] /\ want \in [Fds -> SUBSET Dirs]
         /\ svc \in SvcRecords /\ watching \in [Fds -> SUBSET Dirs]
         /\ IsFiniteSet(Reported) /\ Reported \in SUBSET Fds
<1>1. WatchTypeOK /\ Kept /\ todo = <<>>
  BY DEF WatchInv
<1>2. want \in [Fds -> SUBSET Dirs] /\ svc \in SvcRecords /\ watching \in [Fds -> SUBSET Dirs]
  BY <1>1, WatchTypes
<1>3. Reported \in SUBSET Fds
  BY DEF Reported
<1>4. IsFiniteSet(Reported)
  BY <1>3, FS_Subset DEF WatchAssumption
<1> QED
  BY <1>1, <1>2, <1>3, <1>4, InterestIs

\* The type of the state after a step, from the variables a step of processEvents
\* can change.
LEMMA StepTypes ==
  ASSUME WatchTypeOK, UNCHANGED <<be, want>>, at' \in {"wait", "run"}, svc' \in SvcRecords,
         watching' \in [Fds -> SUBSET Dirs],
         todo' \in Seq(IF be = "poll" THEN ScanSteps ELSE ListSteps)
  PROVE  WatchTypeOK'
  BY WatchTypes, WatchTypesNext

\* The list of changes is emptied.
LEMMA ChangesEmptied ==
  ASSUME NEW s \in SvcRecords
  PROVE  LET u == [s EXCEPT !.changes = <<>>]
         IN  u \in SvcRecords /\ u.watches = s.watches /\ u.changes = <<>>
<1>1. PICK c \in Seq(KqChanges) : c = <<>>
  BY EmptySeq, Zenon
<1>2. LET u == [s EXCEPT !.changes = c]
      IN  u \in SvcRecords /\ u.watches = s.watches /\ u.changes = c
  BY DEF SvcRecords
<1> QED
  BY <1>1, <1>2

\* The wait of epoll, kqueue and event ports.
LEMMA WaitListKeeps ==
  ASSUME WatchAssumption, "evports" \notin EndIsHup, WatchInv, at = "wait", at' = "run",
         WaitList, UNCHANGED <<be, want>>
  PROVE  WatchTypeOK' /\ Kept' /\ ListDue'
<1>1. /\ WatchTypeOK /\ Kept /\ Interest = want
      /\ Interest \in [Fds -> SUBSET Dirs] /\ want \in [Fds -> SUBSET Dirs]
      /\ svc \in SvcRecords /\ IsFiniteSet(Reported) /\ Reported \in SUBSET Fds
  BY Waiting
<1>2. PICK got \in SUBSET Reported :
        /\ \E order \in SetToSeqs(got) :
              todo' = FlattenSeq([i \in DOMAIN order |-> Events(order[i])])
        /\ due' = {e \in [do : Dirs, fd : got] : e.do \in Report(e.fd)}
        /\ watching' = [fd \in Fds |-> IF be = "evports" /\ fd \in got THEN {} ELSE Interest[fd]]
  BY DEF WaitList
<1>3. got \in SUBSET Fds /\ IsFiniteSet(got)
  BY <1>1, FS_Subset
<1>4. PICK order \in SetToSeqs(got) :
        todo' = FlattenSeq([i \in DOMAIN order |-> Events(order[i])])
  BY <1>2
<1>5. PICK ss : ss = [i \in DOMAIN order |-> Events(order[i])]
  OBVIOUS
<1>6. PICK t : t = todo'
  OBVIOUS
<1>7. IsList(t, got)
  <2>1. IsList(FlattenSeq(ss), got)
    BY <1>3, <1>5, ListsJoin
  <2>2. t = FlattenSeq(ss)
    BY <1>4, <1>5, <1>6
  <2> QED
    BY <2>1, <2>2
<1>8. be \in {"epoll", "kqueue", "evports"} /\ svc' = [svc EXCEPT !.changes = <<>>]
  BY DEF WaitList
<1>9. svc' \in SvcRecords /\ svc'.watches = svc.watches /\ svc'.changes = <<>>
  BY <1>1, <1>8, ChangesEmptied
<1>10. watching' \in [Fds -> SUBSET Dirs]
  BY <1>1, <1>2
<1>11. WatchTypeOK'
  BY <1>1, <1>6, <1>7, <1>8, <1>9, <1>10, StepTypes DEF IsList
<1>12. ListDue'
  <2>1. PICK G : G = due'
    OBVIOUS
  <2>2. ListIn(t, G)
    BY <1>2, <1>3, <1>7, <2>1, ListIsIn
  <2> QED
    BY <1>6, <2>1, <2>2, Zenon DEF ListDue, ListIn
<1>13. Kept'
  <2>1. CASE be \in {"epoll", "evports"}
    <3>1. svc'.watches = want'
      BY <1>1, <1>9, <2>1 DEF Kept, WatchesKept
    <3>2. ASSUME NEW fd \in Fds
          PROVE  (watching[fd] = want[fd] \/ (be = "evports" /\ Pending(fd)))'
      <4>1. CASE be = "evports" /\ fd \in got
        <5>1. Report(fd) \cap Dirs # {}
          <6>1. Report(fd) # {}
            BY <4>1 DEF Reported
          <6>2. Report(fd) \subseteq Dirs
            BY <1>1, <4>1, ReportIs
          <6> QED
            BY <6>1, <6>2
        <5>2. \E k \in DOMAIN t : t[k].do = "reregister" /\ t[k].fd = fd
          BY <1>7, <4>1, <5>1 DEF IsList
        <5>3. Pending(fd)'
          BY <1>6, <5>2, Zenon DEF Pending
        <5> QED
          BY <4>1, <5>3
      <4>2. CASE ~(be = "evports" /\ fd \in got)
        BY <1>1, <1>2, <4>2
      <4> QED
        BY <4>1, <4>2
    <3>3. WatchesKept'
      BY <3>1, <3>2 DEF WatchesKept
    <3> QED
      BY <2>1, <3>3 DEF Kept
  <2>2. CASE be = "kqueue"
    <3>1. watching' = want
      BY <1>1, <1>2, <2>2
    <3>2. Applied(want, <<>>) = want
      BY <1>1, AppliedNone
    <3>3. ChangesKept'
      BY <1>9, <3>1, <3>2, Zenon DEF ChangesKept
    <3> QED
      BY <2>2, <3>3 DEF Kept
  <2> QED
    BY <1>8, <2>1, <2>2
<1> QED
  BY <1>11, <1>12, <1>13

\* The wait of select.
LEMMA WaitSelectKeeps ==
  ASSUME WatchAssumption, WatchInv, at = "wait", at' = "run", WaitSelect, UNCHANGED <<be, want>>
  PROVE  WatchTypeOK' /\ Kept' /\ ListDue'
<1>1. /\ WatchTypeOK /\ Kept /\ svc \in SvcRecords /\ watching \in [Fds -> SUBSET Dirs]
      /\ IsFiniteSet(Reported) /\ Reported \in SUBSET Fds
  BY Waiting
<1>2. /\ be = "select" /\ UNCHANGED <<svc, watching>>
      /\ due' = {e \in [do : Dirs, fd : Reported] : e.do \in Report(e.fd)}
  BY DEF WaitSelect
<1>3. PICK got : got = Reported
  OBVIOUS
<1>4. got \in SUBSET Fds /\ IsFiniteSet(got)
  BY <1>1, <1>3
<1>5. PICK up \in SetToSeqs(got) :
        todo' = FlattenSeq([i \in DOMAIN up |-> EventsOf(up[i], "out")])
                \o FlattenSeq([i \in DOMAIN up |-> EventsOf(up[i], "in")])
  BY <1>3, Zenon DEF WaitSelect
<1>6. PICK so : so = [i \in DOMAIN up |-> EventsOf(up[i], "out")]
  OBVIOUS
<1>7. PICK si : si = [i \in DOMAIN up |-> EventsOf(up[i], "in")]
  OBVIOUS
<1>8. IsHalf(FlattenSeq(so), got, "out") /\ IsHalf(FlattenSeq(si), got, "in")
  BY <1>2, <1>4, <1>6, <1>7, HalfJoins DEF Dirs
<1>9. PICK t : t = todo'
  OBVIOUS
<1>10. IsList(t, got)
  <2>1. t = FlattenSeq(so) \o FlattenSeq(si)
    BY <1>5, <1>6, <1>7, <1>9, Zenon
  <2> QED
    BY <1>2, <1>4, <1>8, <2>1, HalvesJoin
<1>11. WatchTypeOK'
  BY <1>1, <1>2, <1>9, <1>10, StepTypes DEF IsList
<1>12. ListDue'
  <2>1. PICK G : G = due'
    OBVIOUS
  <2>2. ListIn(t, G)
    BY <1>2, <1>3, <1>4, <1>10, <2>1, ListIsIn
  <2> QED
    BY <1>9, <2>1, <2>2, Zenon DEF ListDue, ListIn
<1>13. Kept'
  BY <1>1, <1>2 DEF Kept, SetsKept
<1> QED
  BY <1>11, <1>12, <1>13

\* The array u is s, but for what was reported.
NotedIn(s, u, n) ==
  /\ u \in Seq(PollEntries) /\ Len(u) = Len(s)
  /\ \A i \in 1 .. n : /\ u[i].fd = s[i].fd /\ u[i].events = s[i].events
                       /\ u[i].revents = Report(s[i].fd)

\* poll notes what is reported.
LEMMA Noted ==
  ASSUME NEW s \in Seq(PollEntries), NEW n \in Nat, n <= Len(s),
         \A fd \in Fds : Report(fd) \subseteq {"in", "out", "hup"},
         NEW u, u = [i \in DOMAIN s |-> IF i > n THEN s[i]
                                        ELSE [s[i] EXCEPT !.revents = Report(s[i].fd)]]
  PROVE  NotedIn(s, u, n)
<1> DEFINE New(e, r) == [e EXCEPT !.revents = r]
<1>1. ASSUME NEW e \in PollEntries, NEW r \in SUBSET {"in", "out", "hup"}
      PROVE  /\ New(e, r) \in PollEntries /\ New(e, r).fd = e.fd
             /\ New(e, r).events = e.events /\ New(e, r).revents = r
  BY DEF PollEntries
<1>2. /\ DOMAIN s = 1 .. Len(s) /\ Len(s) \in Nat
      /\ \A i \in 1 .. Len(s) : s[i] \in PollEntries
  OBVIOUS
<1>3. \A e \in PollEntries : e.fd \in Fds
  BY DEF PollEntries
<1>4. u = [i \in DOMAIN s |-> IF i > n THEN s[i] ELSE New(s[i], Report(s[i].fd))]
  OBVIOUS
<1> HIDE DEF New
<1>5. ASSUME NEW i \in 1 .. Len(s)
      PROVE  /\ u[i] \in PollEntries
             /\ i <= n => /\ u[i].fd = s[i].fd /\ u[i].events = s[i].events
                          /\ u[i].revents = Report(s[i].fd)
  <2>1. PICK e \in PollEntries : e = s[i]
    BY <1>2
  <2>2. PICK r \in SUBSET {"in", "out", "hup"} : r = Report(s[i].fd)
    BY <1>3, <2>1
  <2>3. u[i] = IF i > n THEN e ELSE New(e, r)
    BY <1>2, <1>4, <2>1, <2>2
  <2>4. i > n <=> ~(i <= n)
    BY <1>2
  <2>5. /\ New(e, r) \in PollEntries /\ New(e, r).fd = e.fd
        /\ New(e, r).events = e.events /\ New(e, r).revents = r
    BY <1>1
  <2> QED
    BY <2>1, <2>2, <2>3, <2>4, <2>5, Zenon
<1>6. u \in Seq(PollEntries) /\ Len(u) = Len(s)
  <2>1. DOMAIN u = 1 .. Len(s) /\ u = [i \in 1 .. Len(s) |-> u[i]]
    BY <1>2, <1>4
  <2>2. u \in [1 .. Len(s) -> PollEntries]
    BY <1>5, <2>1
  <2> QED
    BY <1>2, <2>2
<1> QED
  BY <1>2, <1>5, <1>6 DEF NotedIn

\* The array is replaced.
LEMMA FdsUpdates ==
  ASSUME NEW s \in SvcRecords, NEW f \in Seq(PollEntries)
  PROVE  LET u == [s EXCEPT !.fds = f]
         IN  u \in SvcRecords /\ u.fds = f /\ u.nfds = s.nfds
  BY DEF SvcRecords

\* The wait of poll.
LEMMA WaitPollKeeps ==
  ASSUME WatchAssumption, WatchInv, at = "wait", at' = "run", WaitPoll, UNCHANGED <<be, want>>
  PROVE  WatchTypeOK' /\ Kept' /\ ScanDue'
<1>1. /\ WatchTypeOK /\ Kept /\ Interest \in [Fds -> SUBSET Dirs]
      /\ watching \in [Fds -> SUBSET Dirs] /\ IsFiniteSet(Reported)
  BY Waiting
<1>2. /\ be = "poll" /\ UNCHANGED watching
      /\ svc' = [svc EXCEPT !.fds =
                   [i \in DOMAIN svc.fds |->
                      IF i > svc.nfds THEN svc.fds[i]
                      ELSE [svc.fds[i] EXCEPT !.revents = Report(svc.fds[i].fd)]]]
      /\ todo' = <<[do |-> "scan", i |-> 1, prc |-> Cardinality(Reported)]>>
      /\ due' = {e \in [do : Dirs, fd : Reported] : e.do \in Report(e.fd)}
  BY DEF WaitPoll
<1>3. /\ svc \in SvcRecords /\ svc.fds \in Seq(PollEntries) /\ svc.nfds \in Nat
      /\ svc.nfds <= Len(svc.fds) /\ Len(svc.fds) \in Nat /\ ArrayKept
      /\ \A k \in 1 .. Len(svc.fds) : svc.fds[k] \in PollEntries
  BY <1>1, <1>2, ArrayFacts
<1>4. PICK f : f = [i \in DOMAIN svc.fds |->
                      IF i > svc.nfds THEN svc.fds[i]
                      ELSE [svc.fds[i] EXCEPT !.revents = Report(svc.fds[i].fd)]]
  OBVIOUS
<1>5. NotedIn(svc.fds, f, svc.nfds)
  <2>1. \A fd \in Fds : Report(fd) \subseteq {"in", "out", "hup"}
    BY <1>1, ReportIs
  <2>2. PICK s \in Seq(PollEntries) : s = svc.fds
    BY <1>3
  <2>3. PICK n \in Nat : n = svc.nfds
    BY <1>3
  <2>4. f = [i \in DOMAIN s |-> IF i > n THEN s[i]
                                ELSE [s[i] EXCEPT !.revents = Report(s[i].fd)]]
    BY <1>4, <2>2, <2>3, Zenon
  <2> HIDE <1>4
  <2>5. NotedIn(s, f, n)
    BY <1>3, <2>1, <2>2, <2>3, <2>4, Noted
  <2> QED
    BY <2>2, <2>3, <2>5
<1>6. svc' \in SvcRecords /\ svc'.fds = f /\ svc'.nfds = svc.nfds
  <2>1. svc' = [svc EXCEPT !.fds = f]
    BY <1>2, <1>4, Zenon
  <2>2. f \in Seq(PollEntries)
    BY <1>5 DEF NotedIn
  <2> QED
    BY <1>3, <2>1, <2>2, FdsUpdates
<1>7. todo' \in Seq(ScanSteps) /\ todo' # <<>> /\ Len(todo') = 1
      /\ todo'[1].do = "scan" /\ todo'[1].i = 1
  <2>1. PICK p \in Nat : p = Cardinality(Reported)
    BY <1>1, FS_CardinalityType
  <2>2. PICK s : s = [do |-> "scan", i |-> 1, prc |-> p]
    OBVIOUS
  <2>3. s \in ScanSteps /\ s.do = "scan" /\ s.i = 1
    BY <2>2 DEF ScanSteps
  <2>4. todo' = <<s>>
    BY <1>2, <2>1, <2>2, Zenon
  <2> QED
    BY <2>3, <2>4
<1>8. WatchTypeOK'
  BY <1>1, <1>2, <1>6, <1>7, StepTypes
<1>9. ArrayKept'
  <2>1. /\ \A i \in 1 .. svc.nfds : f[i].fd = svc.fds[i].fd /\ f[i].events = svc.fds[i].events
        /\ Len(f) = Len(svc.fds)
    BY <1>5 DEF NotedIn
  <2>2. PICK n \in Nat : n = svc.nfds /\ n = svc'.nfds
    BY <1>3, <1>6
  <2> QED
    BY <1>3, <1>6, <2>1, <2>2 DEF ArrayKept
<1>10. ASSUME NEW k \in 1 .. svc.nfds, NEW d \in Dirs, d \in f[k].revents
       PROVE  [do |-> d, fd |-> f[k].fd] \in due'
  <2>1. PICK fd : fd = f[k].fd
    OBVIOUS
  <2>2. d \in Report(fd) /\ fd \in Fds
    <3>1. svc.fds[k] \in PollEntries
      BY <1>3
    <3> QED
      BY <1>5, <1>10, <2>1, <3>1 DEF NotedIn, PollEntries
  <2>3. fd \in Reported
    BY <2>2 DEF Reported
  <2> QED
    BY <1>2, <2>1, <2>2, <2>3
<1>11. ScanDue'
  <2>1. "in" \in Dirs /\ "out" \in Dirs
    BY DEF Dirs
  <2> QED
    BY <1>6, <1>7, <1>10, <2>1 DEF ScanDue
<1> QED
  BY <1>2, <1>8, <1>9, <1>11 DEF Kept

\* A list without its first element.
LEMMA TailIs ==
  ASSUME NEW Y, NEW t \in Seq(Y), t # <<>>
  PROVE  /\ Tail(t) \in Seq(Y) /\ Head(t) \in Y /\ Head(t) = t[1] /\ 1 \in DOMAIN t
         /\ \A i \in DOMAIN Tail(t) : /\ i + 1 \in DOMAIN t /\ Tail(t)[i] = t[i + 1]
                                      /\ i \in Nat /\ i + 1 # 1
         /\ \A i \in DOMAIN t : i # 1 => i - 1 \in DOMAIN Tail(t) /\ Tail(t)[i - 1] = t[i]
  OBVIOUS

\* Without its first element, a list is as it was.
LEMMA TailIn ==
  ASSUME NEW t \in Seq(ListSteps), t # <<>>, NEW G, ListIn(t, G)
  PROVE  /\ ListIn(Tail(t), G)
         /\ Head(t).do \in Dirs => ListIn(Tail(t), G \ {Head(t)})
<1>1. PICK u : u = Tail(t)
  OBVIOUS
<1>2. PICK h : h = Head(t)
  OBVIOUS
<1>3. /\ h = t[1] /\ 1 \in DOMAIN t
      /\ \A i \in DOMAIN u : i + 1 \in DOMAIN t /\ u[i] = t[i + 1] /\ i \in Nat /\ i + 1 # 1
  BY <1>1, <1>2, TailIs
<1>4. ASSUME NEW i \in DOMAIN u, u[i].do \in Dirs
      PROVE  /\ u[i] \in G /\ (h.do \in Dirs => u[i] # h)
             /\ \A j \in DOMAIN u : u[j] = u[i] => j = i
  <2>1. PICK k \in DOMAIN t : k = i + 1 /\ u[i] = t[k] /\ k # 1
    BY <1>3
  <2>2. u[i] \in G /\ \A j \in DOMAIN t : t[j] = u[i] => j = k
    BY <1>4, <2>1 DEF ListIn
  <2>3. u[i] # h
    BY <1>3, <2>1, <2>2
  <2>4. ASSUME NEW j \in DOMAIN u, u[j] = u[i] PROVE j = i
    <3>1. j + 1 = i + 1
      BY <1>3, <2>1, <2>2, <2>4
    <3> QED
      BY <1>3, <3>1
  <2> QED
    BY <2>2, <2>3, <2>4
<1>5. ASSUME NEW i \in DOMAIN u, u[i].do \notin Dirs PROVE be = "evports"
  <2>1. PICK k \in DOMAIN t : u[i] = t[k]
    BY <1>3
  <2> QED
    BY <1>5, <2>1 DEF ListIn
<1>6. ListIn(u, G)
  BY <1>4, <1>5 DEF ListIn
<1>7. h.do \in Dirs => ListIn(u, G \ {h})
  BY <1>4, <1>5 DEF ListIn
<1> QED
  BY <1>1, <1>2, <1>6, <1>7

\* The list of this round, as the invariant has it, when there is something in it.
LEMMA ListFacts ==
  ASSUME WatchInv, todo # <<>>, Head(todo).do \in {"in", "out", "reregister"}
  PROVE  /\ be # "poll" /\ todo \in Seq(ListSteps) /\ ListIn(todo, due)
         /\ Head(todo) \in ListSteps /\ WatchTypeOK /\ Kept /\ at \in {"wait", "run"}
         /\ svc \in SvcRecords /\ watching \in [Fds -> SUBSET Dirs]
         /\ want \in [Fds -> SUBSET Dirs]
<1>1. WatchTypeOK /\ Kept
  BY DEF WatchInv
<1>2. /\ todo \in Seq(IF be = "poll" THEN ScanSteps ELSE ListSteps) /\ at \in {"wait", "run"}
      /\ svc \in SvcRecords /\ watching \in [Fds -> SUBSET Dirs] /\ want \in [Fds -> SUBSET Dirs]
  BY <1>1, WatchTypes
<1>3. be # "poll"
  <2>1. ASSUME be = "poll" PROVE FALSE
    <3>1. Head(todo) \in ScanSteps
      BY <1>2, <2>1, TailIs
    <3> QED
      BY <3>1 DEF ScanSteps
  <2> QED
    BY <2>1
<1>4. todo \in Seq(ListSteps)
  BY <1>2, <1>3
<1>5. Head(todo) \in ListSteps
  BY <1>4, TailIs
<1>6. ListDue
  BY <1>3 DEF WatchInv
<1>7. ListIn(todo, due)
  BY <1>6, Zenon DEF ListDue, ListIn
<1> QED
  BY <1>1, <1>2, <1>3, <1>4, <1>5, <1>7

\* After a step that leaves the list t and the reported events G.
LEMMA ListStays ==
  ASSUME UNCHANGED be, NEW t, NEW G, ListIn(t, G), todo' = t, due' = G
  PROVE  ListDue'
<1>1. \A i \in DOMAIN t :
         /\ t[i].do \in Dirs => t[i] \in G /\ \A j \in DOMAIN t : t[j] = t[i] => j = i
         /\ t[i].do \notin Dirs => be' = "evports"
  BY Zenon DEF ListIn
<1> QED
  BY <1>1, Zenon DEF ListDue

\* What is kept does not change when an event is taken from the list.
LEMMA KeptStays ==
  ASSUME WatchAssumption, WatchTypeOK, Kept, be # "poll",
         UNCHANGED <<be, svc, watching, want>>,
         \A fd \in Fds : Pending(fd) => Pending(fd)'
  PROVE  Kept'
<1>1. be \in {"epoll", "evports", "kqueue", "poll", "select"}
  BY WatchTypes DEF WatchAssumption
<1>2. CASE be \in {"epoll", "evports"}
  <2>1. WatchesKept
    BY <1>2 DEF Kept
  <2>2. WatchesKept'
    BY <2>1 DEF WatchesKept
  <2> QED
    BY <1>2, <2>2 DEF Kept
<1>3. CASE be = "kqueue"
  <2>1. Applied(watching, svc.changes) = want
    BY <1>3 DEF Kept, ChangesKept
  <2>2. ChangesKept'
    BY <2>1, Zenon DEF ChangesKept
  <2> QED
    BY <1>3, <2>2 DEF Kept
<1>4. CASE be = "select"
  <2>1. SetsKept
    BY <1>4 DEF Kept
  <2>2. SetsKept'
    BY <2>1 DEF SetsKept
  <2> QED
    BY <1>4, <2>2 DEF Kept
<1> QED
  BY <1>1, <1>2, <1>3, <1>4

\* The next event is raised.
LEMMA RaiseNextKeeps ==
  ASSUME WatchAssumption, WatchInv, RaiseNext
  PROVE  WatchInv'
<1>1. /\ todo # <<>> /\ Head(todo).do \in Dirs /\ todo' = Tail(todo) /\ at = "run"
      /\ UNCHANGED <<be, svc, watching, want, at>>
      /\ NoneRaised \/ Event(Head(todo).fd, Head(todo).do)
  BY DEF RaiseNext
<1>2. /\ be # "poll" /\ todo \in Seq(ListSteps) /\ ListIn(todo, due)
      /\ Head(todo) \in ListSteps /\ WatchTypeOK /\ Kept /\ at \in {"wait", "run"}
      /\ svc \in SvcRecords /\ watching \in [Fds -> SUBSET Dirs]
  BY <1>1, ListFacts DEF Dirs
<1>3. PICK h \in ListSteps : h = Head(todo)
  BY <1>2
<1>4. PICK t : t = Tail(todo)
  OBVIOUS
<1>5. t \in Seq(ListSteps) /\ h = todo[1] /\ 1 \in DOMAIN todo
  BY <1>1, <1>2, <1>3, <1>4, TailIs
<1>6. h \in due /\ h = [do |-> h.do, fd |-> h.fd] /\ h.do \in Dirs
  <2>1. h \in due
    BY <1>1, <1>2, <1>3, <1>5 DEF ListIn
  <2> QED
    BY <1>1, <1>3, <2>1 DEF ListSteps
<1>7. \/ due' = due /\ raised' = NoEvent
      \/ due' = due \ {h} /\ raised' = h
  <2>1. CASE NoneRaised
    BY <2>1 DEF NoneRaised
  <2>2. CASE Event(h.fd, h.do)
    BY <1>6, <2>2 DEF Event
  <2> QED
    BY <1>1, <1>3, <2>1, <2>2
<1>8. RaisedAsReported'
  BY <1>6, <1>7 DEF RaisedAsReported, NoEvent, Dirs
<1>9. ListDue'
  <2>1. ListIn(t, due) /\ ListIn(t, due \ {h})
    BY <1>1, <1>2, <1>3, <1>4, TailIn
  <2>2. PICK G : G = due'
    OBVIOUS
  <2>3. ListIn(t, G)
    BY <1>7, <2>1, <2>2
  <2> QED
    BY <1>1, <1>4, <2>2, <2>3, ListStays
<1>10. WatchTypeOK'
  BY <1>1, <1>2, <1>4, <1>5, StepTypes
<1>11. \A fd \in Fds : Pending(fd) => Pending(fd)'
  <2> SUFFICES ASSUME NEW fd \in Fds, NEW i \in DOMAIN todo,
                      todo[i].do = "reregister", todo[i].fd = fd
               PROVE  Pending(fd)'
    BY DEF Pending
  <2>1. i # 1
    BY <1>5, <1>6 DEF Dirs
  <2>2. i - 1 \in DOMAIN t /\ t[i - 1] = todo[i]
    BY <1>1, <1>2, <1>4, <2>1, TailIs
  <2>3. \E k \in DOMAIN t : t[k].do = "reregister" /\ t[k].fd = fd
    BY <2>2
  <2> QED
    BY <1>1, <1>4, <2>3, Zenon DEF Pending
<1>12. Kept'
  BY <1>1, <1>2, <1>11, KeptStays
<1> QED
  BY <1>1, <1>2, <1>8, <1>9, <1>10, <1>12 DEF WatchInv

\* Event ports associate a descriptor again.
LEMMA ReregisterKeeps ==
  ASSUME WatchAssumption, WatchInv, reregister
  PROVE  WatchInv'
<1>1. /\ todo # <<>> /\ Head(todo).do = "reregister" /\ todo' = Tail(todo) /\ at = "run"
      /\ UNCHANGED <<be, svc, want, at, due>> /\ raised' = NoEvent
      /\ watching' = [watching EXCEPT ![Head(todo).fd] = svc.watches[Head(todo).fd]]
  BY DEF reregister
<1>2. /\ be # "poll" /\ todo \in Seq(ListSteps) /\ ListIn(todo, due)
      /\ Head(todo) \in ListSteps /\ WatchTypeOK /\ Kept /\ at \in {"wait", "run"}
      /\ svc \in SvcRecords /\ watching \in [Fds -> SUBSET Dirs]
      /\ want \in [Fds -> SUBSET Dirs]
  BY <1>1, ListFacts
<1>3. PICK h \in ListSteps : h = Head(todo)
  BY <1>2
<1>4. PICK t : t = Tail(todo)
  OBVIOUS
<1>5. /\ t \in Seq(ListSteps) /\ h = todo[1] /\ 1 \in DOMAIN todo
      /\ h.fd \in Fds /\ h.do = "reregister"
  BY <1>1, <1>2, <1>3, <1>4, TailIs DEF ListSteps
<1>6. be = "evports"
  BY <1>2, <1>5 DEF ListIn, Dirs
<1>7. WatchesKept
  BY <1>2, <1>6 DEF Kept
<1>8. watching' = [watching EXCEPT ![h.fd] = want[h.fd]] /\ watching' \in [Fds -> SUBSET Dirs]
  BY <1>1, <1>2, <1>3, <1>5, <1>7 DEF WatchesKept
<1>9. WatchTypeOK'
  BY <1>1, <1>2, <1>4, <1>5, <1>8, StepTypes
<1>10. ListDue'
  <2>1. ListIn(t, due)
    BY <1>1, <1>2, <1>4, TailIn
  <2> QED
    BY <1>1, <1>4, <2>1, ListStays
<1>11. ASSUME NEW fd \in Fds
       PROVE  (watching[fd] = want[fd] \/ (be = "evports" /\ Pending(fd)))'
  <2>1. CASE fd = h.fd
    BY <1>1, <1>2, <1>8, <2>1
  <2>2. CASE fd # h.fd /\ watching[fd] = want[fd]
    BY <1>1, <1>2, <1>8, <2>2
  <2>3. CASE fd # h.fd /\ Pending(fd)
    <3>1. PICK i \in DOMAIN todo : todo[i].do = "reregister" /\ todo[i].fd = fd
      BY <2>3 DEF Pending
    <3>2. i # 1
      BY <1>5, <2>3, <3>1
    <3>3. i - 1 \in DOMAIN t /\ t[i - 1] = todo[i]
      BY <1>1, <1>2, <1>4, <3>2, TailIs
    <3>4. \E k \in DOMAIN t : t[k].do = "reregister" /\ t[k].fd = fd
      BY <3>1, <3>3
    <3>5. Pending(fd)'
      BY <1>1, <1>4, <3>4, Zenon DEF Pending
    <3> QED
      BY <1>1, <1>6, <3>5
  <2> QED
    BY <1>7, <2>1, <2>2, <2>3 DEF WatchesKept
<1>12. WatchesKept'
  BY <1>1, <1>7, <1>11 DEF WatchesKept
<1>13. Kept'
  BY <1>1, <1>6, <1>12 DEF Kept
<1>14. RaisedAsReported'
  BY <1>1 DEF RaisedAsReported, NoEvent
<1> QED
  BY <1>1, <1>2, <1>9, <1>10, <1>13, <1>14 DEF WatchInv

\* The entry k of the array fs has only events in G.
EntryDue(fs, k, G) ==
  \A d \in Dirs : d \in fs[k].revents => [do |-> d, fd |-> fs[k].fd] \in G

\* The first n entries of the array fs, from the one after i on, have only events in G.
RestDue(fs, n, i, G) == \A k \in 1 .. n : k > i => EntryDue(fs, k, G)

\* A step of the loop over the array.
LEMMA ScanFacts ==
  ASSUME WatchAssumption, WatchInv, todo # <<>>, Head(todo).do \in {"scan", "scanin", "scanned"}
  PROVE  /\ be = "poll" /\ WatchTypeOK /\ Kept /\ ArrayKept /\ Head(todo) \in ScanSteps
         /\ at \in {"wait", "run"} /\ watching \in [Fds -> SUBSET Dirs]
         /\ svc \in SvcRecords /\ svc.fds \in Seq(PollEntries) /\ svc.nfds \in Nat
         /\ svc.nfds <= Len(svc.fds) /\ Len(svc.fds) \in Nat
         /\ \A k \in 1 .. Len(svc.fds) : svc.fds[k] \in PollEntries
         /\ Head(todo).i >= 1 /\ RestDue(svc.fds, svc.nfds, Head(todo).i, due)
         /\ Head(todo).do # "scan" => Head(todo).i <= Len(svc.fds)
         /\ Head(todo).do = "scanin" /\ "in" \in svc.fds[Head(todo).i].revents =>
              [do |-> "in", fd |-> svc.fds[Head(todo).i].fd] \in due
         /\ Head(todo).do = "scan" /\ Head(todo).i <= svc.nfds =>
              EntryDue(svc.fds, Head(todo).i, due)
<1>1. WatchTypeOK /\ Kept
  BY DEF WatchInv
<1>2. /\ todo \in Seq(IF be = "poll" THEN ScanSteps ELSE ListSteps) /\ at \in {"wait", "run"}
      /\ watching \in [Fds -> SUBSET Dirs]
  BY <1>1, WatchTypes
<1>3. be = "poll"
  <2>1. ASSUME be # "poll" PROVE FALSE
    <3>1. Head(todo) \in ListSteps
      BY <1>2, <2>1, TailIs
    <3> QED
      BY <3>1 DEF ListSteps
  <2> QED
    BY <2>1
<1>4. todo \in Seq(ScanSteps)
  BY <1>2, <1>3
<1>5. PICK s \in ScanSteps : s = Head(todo) /\ s = todo[1]
  BY <1>4, TailIs
<1>6. /\ svc \in SvcRecords /\ svc.fds \in Seq(PollEntries) /\ svc.nfds \in Nat
      /\ svc.nfds <= Len(svc.fds) /\ Len(svc.fds) \in Nat /\ ArrayKept
      /\ \A k \in 1 .. Len(svc.fds) : svc.fds[k] \in PollEntries
  BY <1>1, <1>3, ArrayFacts
<1>7. ScanDue
  BY <1>3 DEF WatchInv
<1>8. /\ s.i >= 1 /\ (s.do # "scan" => s.i <= Len(svc.fds))
      /\ s.do = "scanin" /\ "in" \in svc.fds[s.i].revents =>
           [do |-> "in", fd |-> svc.fds[s.i].fd] \in due
      /\ \A k \in 1 .. svc.nfds : k > s.i \/ (k = s.i /\ s.do = "scan") => EntryDue(svc.fds, k, due)
  BY <1>5, <1>7 DEF ScanDue, EntryDue, Dirs
<1>9. RestDue(svc.fds, svc.nfds, s.i, due)
  BY <1>8 DEF RestDue
<1>10. s.do = "scan" /\ s.i <= svc.nfds => EntryDue(svc.fds, s.i, due)
  <2>1. s.i \in Nat
    BY DEF ScanSteps
  <2> QED
    BY <1>6, <1>8, <2>1
<1> QED
  BY <1>1, <1>2, <1>3, <1>5, <1>6, <1>8, <1>9, <1>10

\* Where the loop over the array goes next.
LEMMA ScanGoesOn ==
  ASSUME NEW do \in {"scan", "scanin", "scanned"}, NEW i \in Nat, NEW prc \in Int,
         todo' = Scan(do, i, prc), i >= 1,
         svc'.nfds \in Nat, do # "scan" => i <= Len(svc'.fds),
         do = "scanin" /\ "in" \in svc'.fds[i].revents =>
            [do |-> "in", fd |-> svc'.fds[i].fd] \in due',
         RestDue(svc'.fds, svc'.nfds, IF do = "scan" THEN i - 1 ELSE i, due')
  PROVE  ScanDue' /\ todo' \in Seq(ScanSteps)
<1>1. PICK s : s = [do |-> do, i |-> i, prc |-> prc]
  OBVIOUS
<1>2. s \in ScanSteps /\ s.do = do /\ s.i = i
  BY <1>1 DEF ScanSteps
<1>3. todo' = <<s>>
  BY <1>1, Zenon DEF Scan
<1>4. todo' \in Seq(ScanSteps) /\ todo' # <<>> /\ Len(todo') = 1 /\ todo'[1] = s
  BY <1>2, <1>3
<1>5. ASSUME NEW k \in 1 .. svc'.nfds, k > i \/ (k = i /\ do = "scan")
      PROVE  EntryDue(svc'.fds, k, due')
  <2>1. k > (IF do = "scan" THEN i - 1 ELSE i)
    BY <1>5
  <2> QED
    BY <2>1 DEF RestDue
<1>6. ScanDue'
  BY <1>2, <1>4, <1>5 DEF ScanDue, EntryDue, Dirs
<1> QED
  BY <1>4, <1>6

\* Taking the event of an entry leaves those of the entries after it.
LEMMA RestStaysDue ==
  ASSUME ArrayKept, svc.nfds \in Nat, NEW i \in Nat, i >= 1, NEW d \in Dirs,
         RestDue(svc.fds, svc.nfds, i, due)
  PROVE  RestDue(svc.fds, svc.nfds, i, due \ {[do |-> d, fd |-> svc.fds[i].fd]})
<1> DEFINE gone == [do |-> d, fd |-> svc.fds[i].fd]
<1> SUFFICES ASSUME NEW k \in 1 .. svc.nfds, k > i, NEW c \in Dirs, c \in svc.fds[k].revents
             PROVE  [do |-> c, fd |-> svc.fds[k].fd] \in due \ {gone}
  BY DEF RestDue, EntryDue
<1>1. [do |-> c, fd |-> svc.fds[k].fd] \in due
  BY DEF RestDue, EntryDue
<1>2. i \in 1 .. svc.nfds /\ i # k
  OBVIOUS
<1>3. svc.fds[k].fd # svc.fds[i].fd
  BY <1>2 DEF ArrayKept
<1>4. [do |-> c, fd |-> svc.fds[k].fd] # gone
  BY <1>3
<1> QED
  BY <1>1, <1>4

\* The event of an entry is raised.
LEMMA EntryRaised ==
  ASSUME NEW fd, NEW d \in Dirs, [do |-> d, fd |-> fd] \in due, Event(fd, d)
  PROVE  due' = due \ {[do |-> d, fd |-> fd]} /\ RaisedAsReported'
<1>1. PICK e : e = [do |-> d, fd |-> fd]
  OBVIOUS
<1>2. due' = due \ {e} /\ raised' = e
  BY <1>1, Zenon DEF Event
<1>3. e.do # "stray"
  BY <1>1 DEF Dirs
<1> QED
  BY <1>1, <1>2, <1>3 DEF RaisedAsReported

\* An entry of the array is looked at.
LEMMA ScanPollKeeps ==
  ASSUME WatchAssumption, WatchInv, ScanPoll
  PROVE  WatchInv'
<1>1. /\ todo # <<>> /\ Head(todo).do \in {"scan", "scanin"} /\ at = "run"
      /\ UNCHANGED <<be, svc, watching, want, at>>
  BY DEF ScanPoll
<1>2. PICK s : s = Head(todo)
  OBVIOUS
<1>3. PICK e : e = svc.fds[s.i]
  OBVIOUS
<1>4. /\ be = "poll" /\ WatchTypeOK /\ Kept /\ ArrayKept /\ s \in ScanSteps
      /\ at \in {"wait", "run"} /\ watching \in [Fds -> SUBSET Dirs]
      /\ svc \in SvcRecords /\ svc.nfds \in Nat
      /\ svc.nfds <= Len(svc.fds) /\ Len(svc.fds) \in Nat
      /\ s.i >= 1 /\ RestDue(svc.fds, svc.nfds, s.i, due)
      /\ s.do # "scan" => s.i <= Len(svc.fds)
      /\ s.do = "scanin" /\ "in" \in e.revents => [do |-> "in", fd |-> e.fd] \in due
      /\ s.do = "scan" /\ s.i <= svc.nfds => EntryDue(svc.fds, s.i, due)
  BY <1>1, <1>2, <1>3, ScanFacts
<1>5. s.i \in Nat /\ s.prc \in Int /\ s.do \in {"scan", "scanin"}
  BY <1>1, <1>2, <1>4 DEF ScanSteps
<1>6. "in" \in Dirs /\ "out" \in Dirs
  BY DEF Dirs
<1>7. ASSUME NoneRaised PROVE due' = due /\ RaisedAsReported'
  BY <1>7 DEF NoneRaised, RaisedAsReported, NoEvent
<1>8. RaisedAsReported' /\ ScanDue' /\ todo' \in Seq(ScanSteps)
  <2>1. CASE s.do = "scan" /\ (s.prc = 0 \/ s.i > svc.nfds)
    <3>1. todo' = <<>> /\ NoneRaised
      BY <1>2, <2>1 DEF ScanPoll
    <3>2. todo' \in Seq(ScanSteps)
      BY <3>1, EmptySeq
    <3> QED
      BY <1>7, <3>1, <3>2 DEF ScanDue
  <2>2. CASE s.do = "scan" /\ ~(s.prc = 0 \/ s.i > svc.nfds) /\ e.revents = {}
    <3>1. todo' = Scan("scan", s.i + 1, s.prc) /\ NoneRaised
      BY <1>2, <1>3, <2>2 DEF ScanPoll
    <3>2. RestDue(svc'.fds, svc'.nfds, (s.i + 1) - 1, due')
      <4>1. (s.i + 1) - 1 = s.i
        BY <1>5
      <4> QED
        BY <1>1, <1>4, <1>7, <3>1, <4>1
    <3>3. PICK i \in Nat : i = s.i + 1 /\ i >= 1
      BY <1>5
    <3>4. todo' = Scan("scan", i, s.prc) /\ RestDue(svc'.fds, svc'.nfds, i - 1, due')
      BY <3>1, <3>2, <3>3
    <3> QED
      BY <1>1, <1>4, <1>5, <1>7, <3>1, <3>3, <3>4, ScanGoesOn
  <2>3. CASE s.do = "scan" /\ ~(s.prc = 0 \/ s.i > svc.nfds) /\ e.revents # {}
    <3>1. /\ todo' = Scan("scanin", s.i, s.prc - 1)
          /\ IF "out" \in e.revents THEN Event(e.fd, "out") ELSE NoneRaised
      BY <1>2, <1>3, <2>3 DEF ScanPoll
    <3>2. s.i <= svc.nfds /\ s.i <= Len(svc.fds)
      BY <1>4, <1>5, <2>3
    <3>3. /\ "in" \in e.revents => [do |-> "in", fd |-> e.fd] \in due
          /\ "out" \in e.revents => [do |-> "out", fd |-> e.fd] \in due
      BY <1>3, <1>4, <1>6, <2>3, <3>2 DEF EntryDue
    <3>4. /\ RaisedAsReported' /\ RestDue(svc.fds, svc.nfds, s.i, due')
          /\ "in" \in e.revents => [do |-> "in", fd |-> e.fd] \in due'
      <4>1. CASE "out" \in e.revents
        <5>1. due' = due \ {[do |-> "out", fd |-> e.fd]} /\ RaisedAsReported'
          BY <1>6, <3>1, <3>3, <4>1, EntryRaised
        <5>2. RestDue(svc.fds, svc.nfds, s.i, due')
          BY <1>3, <1>4, <1>5, <1>6, <5>1, RestStaysDue
        <5> QED
          BY <3>3, <5>1, <5>2
      <4>2. CASE "out" \notin e.revents
        BY <1>4, <1>7, <3>1, <3>3, <4>2
      <4> QED
        BY <4>1, <4>2
    <3>5. PICK p \in Int : p = s.prc - 1
      BY <1>5
    <3>6. todo' = Scan("scanin", s.i, p)
      BY <3>1, <3>5
    <3> QED
      BY <1>1, <1>3, <1>4, <1>5, <3>2, <3>4, <3>6, ScanGoesOn
  <2>4. CASE s.do = "scanin"
    <3>1. /\ todo' = Scan("scanned", s.i, s.prc)
          /\ IF "in" \in e.revents THEN Event(e.fd, "in") ELSE NoneRaised
      BY <1>2, <1>3, <2>4 DEF ScanPoll, Scan
    <3>2. RaisedAsReported' /\ RestDue(svc.fds, svc.nfds, s.i, due')
      <4>1. CASE "in" \in e.revents
        <5>1. due' = due \ {[do |-> "in", fd |-> e.fd]} /\ RaisedAsReported'
          BY <1>4, <1>6, <2>4, <3>1, <4>1, EntryRaised
        <5>2. RestDue(svc.fds, svc.nfds, s.i, due')
          BY <1>3, <1>4, <1>5, <1>6, <5>1, RestStaysDue
        <5> QED
          BY <5>1, <5>2
      <4>2. CASE "in" \notin e.revents
        BY <1>4, <1>7, <3>1, <4>2
      <4> QED
        BY <4>1, <4>2
    <3> QED
      BY <1>1, <1>4, <1>5, <2>4, <3>1, <3>2, ScanGoesOn
  <2> QED
    BY <1>5, <2>1, <2>2, <2>3, <2>4
<1>9. WatchTypeOK'
  BY <1>1, <1>4, <1>8, StepTypes
<1>10. ArrayKept'
  BY <1>1, <1>4 DEF ArrayKept
<1> QED
  BY <1>1, <1>4, <1>8, <1>9, <1>10 DEF WatchInv, Kept

\* The array v is f, but for the entry i, which is g.
EntryIs(f, i, g, v) ==
  /\ v \in Seq(PollEntries) /\ Len(v) = Len(f)
  /\ v[i] = g /\ \A k \in 1 .. Len(f) : k # i => v[k] = f[k]

\* An entry is replaced.
LEMMA EntrySet ==
  ASSUME NEW f \in Seq(PollEntries), NEW i \in 1 .. Len(f), NEW g \in PollEntries
  PROVE  EntryIs(f, i, g, [f EXCEPT ![i] = g])
  BY DEF EntryIs

\* The events of an entry are cleared.
LEMMA RevsCleared ==
  ASSUME NEW f \in Seq(PollEntries), NEW i \in 1 .. Len(f),
         NEW u, u = [f EXCEPT ![i].revents = {}]
  PROVE  /\ u \in Seq(PollEntries) /\ Len(u) = Len(f)
         /\ \A k \in 1 .. Len(f) : /\ u[k].fd = f[k].fd /\ u[k].events = f[k].events
                                   /\ k # i => u[k] = f[k]
<1>1. PICK e \in PollEntries : e = f[i]
  OBVIOUS
<1>2. PICK g : g = [e EXCEPT !.revents = {}]
  OBVIOUS
<1>3. g \in PollEntries /\ g.fd = e.fd /\ g.events = e.events
  BY <1>2 DEF PollEntries
<1>4. u = [f EXCEPT ![i] = g]
  BY <1>1, <1>2
<1>5. EntryIs(f, i, g, [f EXCEPT ![i] = g])
  BY <1>3, EntrySet
<1>6. /\ u \in Seq(PollEntries) /\ Len(u) = Len(f)
      /\ u[i] = g /\ \A k \in 1 .. Len(f) : k # i => u[k] = f[k]
  <2>1. EntryIs(f, i, g, u)
    BY <1>4, <1>5, Zenon
  <2> QED
    BY <2>1, Zenon DEF EntryIs
<1>7. ASSUME NEW k \in 1 .. Len(f)
      PROVE  u[k].fd = f[k].fd /\ u[k].events = f[k].events
  BY <1>1, <1>3, <1>6, Zenon
<1> QED
  BY <1>6, <1>7, Zenon

\* The loop over the array is done with an entry.
LEMMA ScannedPollKeeps ==
  ASSUME WatchAssumption, WatchInv, ScannedPoll
  PROVE  WatchInv'
<1>1. /\ todo # <<>> /\ Head(todo).do = "scanned" /\ at = "run"
      /\ UNCHANGED <<be, watching, want, at, due>> /\ raised' = NoEvent
      /\ svc' = [svc EXCEPT !.fds[Head(todo).i].revents = {}]
      /\ todo' = Scan("scan", Head(todo).i + 1, Head(todo).prc)
  BY DEF ScannedPoll, NoneRaised
<1>2. PICK s : s = Head(todo)
  OBVIOUS
<1>3. /\ be = "poll" /\ WatchTypeOK /\ Kept /\ ArrayKept /\ s \in ScanSteps
      /\ at \in {"wait", "run"} /\ watching \in [Fds -> SUBSET Dirs]
      /\ svc \in SvcRecords /\ svc.nfds \in Nat /\ svc.fds \in Seq(PollEntries)
      /\ svc.nfds <= Len(svc.fds) /\ Len(svc.fds) \in Nat
      /\ s.i >= 1 /\ RestDue(svc.fds, svc.nfds, s.i, due)
      /\ s.do # "scan" => s.i <= Len(svc.fds)
  BY <1>1, <1>2, ScanFacts
<1>4. s.i \in Nat /\ s.prc \in Int /\ s.i \in 1 .. Len(svc.fds)
  <2>1. s.i \in Nat /\ s.prc \in Int
    BY <1>3 DEF ScanSteps
  <2> QED
    BY <1>1, <1>2, <1>3, <2>1
<1>5. PICK f \in Seq(PollEntries) : f = svc.fds
  BY <1>3
<1>6. PICK u : u = [f EXCEPT ![s.i].revents = {}]
  OBVIOUS
<1>7. /\ u \in Seq(PollEntries) /\ Len(u) = Len(f)
      /\ \A k \in 1 .. Len(f) : /\ u[k].fd = f[k].fd /\ u[k].events = f[k].events
                                /\ k # s.i => u[k] = f[k]
  BY <1>4, <1>5, <1>6, RevsCleared
<1>8. svc' \in SvcRecords /\ svc'.fds = u /\ svc'.nfds = svc.nfds
  <2>1. svc' = [svc EXCEPT !.fds = u]
    BY <1>1, <1>2, <1>5, <1>6
  <2> QED
    BY <1>3, <1>7, <2>1, FdsUpdates
<1>9. RestDue(svc'.fds, svc'.nfds, s.i, due')
  <2>1. ASSUME NEW k \in 1 .. svc.nfds, k > s.i PROVE EntryDue(u, k, due)
    <3>1. k \in 1 .. Len(f) /\ k # s.i
      BY <1>3, <1>4, <1>5, <2>1
    <3>2. EntryDue(f, k, due)
      BY <1>3, <1>5, <2>1 DEF RestDue
    <3> QED
      BY <1>7, <3>1, <3>2 DEF EntryDue
  <2> QED
    BY <1>1, <1>8, <2>1 DEF RestDue
<1>10. ScanDue' /\ todo' \in Seq(ScanSteps)
  <2>1. (s.i + 1) - 1 = s.i
    BY <1>4
  <2>2. PICK i \in Nat : i = s.i + 1 /\ i >= 1
    BY <1>4
  <2>3. todo' = Scan("scan", i, s.prc) /\ RestDue(svc'.fds, svc'.nfds, i - 1, due')
    BY <1>1, <1>2, <1>9, <2>1, <2>2
  <2>4. svc'.nfds \in Nat
    BY <1>3, <1>8
  <2> QED
    BY <1>4, <2>2, <2>3, <2>4, ScanGoesOn
<1>11. WatchTypeOK'
  BY <1>1, <1>3, <1>8, <1>10, StepTypes
<1>12. ArrayKept'
  <2>1. \A k \in 1 .. svc.nfds : k \in 1 .. Len(f)
    BY <1>3, <1>5
  <2>2. PICK n \in Nat : n = svc.nfds /\ n = svc'.nfds
    BY <1>3, <1>8
  <2> QED
    BY <1>1, <1>3, <1>5, <1>7, <1>8, <2>1, <2>2 DEF ArrayKept
<1>13. RaisedAsReported'
  BY <1>1 DEF RaisedAsReported, NoEvent
<1> QED
  BY <1>1, <1>3, <1>10, <1>11, <1>12, <1>13 DEF WatchInv, Kept

\* The thread waits, and what it waited for.
LEMMA WaitEventsKeeps ==
  ASSUME WatchAssumption, "evports" \notin EndIsHup, WatchInv, WaitEvents
  PROVE  WatchInv'
<1>1. /\ at = "wait" /\ at' = "run" /\ UNCHANGED <<be, want>> /\ raised' = NoEvent
      /\ WaitList \/ WaitSelect \/ WaitPoll
  BY DEF WaitEvents
<1>2. RaisedAsReported'
  BY <1>1 DEF RaisedAsReported, NoEvent
<1>3. CASE WaitList
  <2>1. WatchTypeOK' /\ Kept' /\ ListDue'
    BY <1>1, <1>3, WaitListKeeps
  <2>2. be' # "poll"
    BY <1>1, <1>3 DEF WaitList
  <2> QED
    BY <1>1, <1>2, <2>1, <2>2 DEF WatchInv
<1>4. CASE WaitSelect
  <2>1. WatchTypeOK' /\ Kept' /\ ListDue'
    BY <1>1, <1>4, WaitSelectKeeps
  <2>2. be' # "poll"
    BY <1>1, <1>4 DEF WaitSelect
  <2> QED
    BY <1>1, <1>2, <2>1, <2>2 DEF WatchInv
<1>5. CASE WaitPoll
  <2>1. WatchTypeOK' /\ Kept' /\ ScanDue'
    BY <1>1, <1>5, WaitPollKeeps
  <2>2. be' = "poll"
    BY <1>1, <1>5 DEF WaitPoll
  <2> QED
    BY <1>1, <1>2, <2>1, <2>2 DEF WatchInv
<1> QED
  BY <1>1, <1>3, <1>4, <1>5

\* Registrations and their removal, in each backend.
LEMMA RegistrationKeeps ==
  ASSUME WatchAssumption, WatchInv, NEW fd \in Fds, NEW d \in Dirs,
         PSC_Service_register(fd, d) \/ PSC_Service_unregister(fd, d)
  PROVE  WatchInv'
<1>1. /\ at = "run" /\ raised' = NoEvent /\ UNCHANGED <<be, at, todo, due>>
  BY DEF PSC_Service_register, PSC_Service_unregister
<1>2. WatchTypeOK /\ Kept /\ (IF be = "poll" THEN ScanDue ELSE ListDue)
  BY DEF WatchInv
<1>3. be \in {"epoll", "evports", "kqueue", "poll", "select"}
  BY <1>2, WatchTypes DEF WatchAssumption
<1>4. be # "poll" => ListDue'
  BY <1>1, <1>2 DEF ListDue
<1>5. RaisedAsReported'
  BY <1>1 DEF RaisedAsReported, NoEvent
<1>6. CASE be \in {"epoll", "evports"}
  <2>1. \/ want' = [want EXCEPT ![fd] = @ \cup {d}] /\ registerWatch(fd, d)
        \/ want' = [want EXCEPT ![fd] = @ \ {d}] /\ unregisterWatch(fd, d)
    BY <1>6 DEF PSC_Service_register, PSC_Service_unregister
  <2>2. WatchTypeOK' /\ Kept'
    BY <1>1, <1>2, <1>6, <2>1, RegisterWatches
  <2> QED
    BY <1>1, <1>4, <1>5, <1>6, <2>2 DEF WatchInv
<1>7. CASE be = "kqueue"
  <2>1. \E add \in BOOLEAN :
           /\ want' = [want EXCEPT ![fd] = IF add THEN @ \cup {d} ELSE @ \ {d}]
           /\ addChange(fd, d, add)
    BY <1>7 DEF PSC_Service_register, PSC_Service_unregister
  <2>2. WatchTypeOK' /\ Kept'
    BY <1>1, <1>2, <1>7, <2>1, RegisterChanges
  <2> QED
    BY <1>1, <1>4, <1>5, <1>7, <2>2 DEF WatchInv
<1>8. CASE be = "poll"
  <2>1. /\ UNCHANGED watching
        /\ \/ want' = [want EXCEPT ![fd] = @ \cup {d}] /\ registerPoll(fd, d)
           \/ want' = [want EXCEPT ![fd] = @ \ {d}] /\ unregisterPoll(fd, d)
    BY <1>8 DEF PSC_Service_register, PSC_Service_unregister
  <2>2. WatchTypeOK' /\ Kept' /\ ScanDue'
    BY <1>1, <1>2, <1>8, <2>1, RegisterArray
  <2> QED
    BY <1>1, <1>5, <1>8, <2>2 DEF WatchInv
<1>9. CASE be = "select"
  <2>1. /\ UNCHANGED watching
        /\ \/ want' = [want EXCEPT ![fd] = @ \cup {d}] /\ SetFd(fd, d)
           \/ want' = [want EXCEPT ![fd] = @ \ {d}] /\ ClrFd(fd, d)
    BY <1>9 DEF PSC_Service_register, PSC_Service_unregister
  <2>2. WatchTypeOK' /\ Kept'
    BY <1>1, <1>2, <1>9, <2>1, RegisterSets
  <2> QED
    BY <1>1, <1>4, <1>5, <1>9, <2>2 DEF WatchInv
<1> QED
  BY <1>3, <1>6, <1>7, <1>8, <1>9

\* Initially nothing is registered.
LEMMA WatchStarts ==
  ASSUME WatchAssumption, WatchInit
  PROVE  WatchInv
<1>1. /\ be \in Backends /\ watching = None /\ want = None /\ at = "run" /\ todo = <<>>
      /\ svc = [watches |-> None, fds |-> <<>>, nfds |-> 0, readfds |-> {}, writefds |-> {},
                nread |-> 0, nwrite |-> 0, changes |-> <<>>]
      /\ raised = NoEvent
  BY DEF WatchInit
<1>2. None \in [Fds -> SUBSET Dirs] /\ \A fd \in Fds : None[fd] = {}
  BY DEF None
<1>3. /\ svc.watches = None /\ svc.fds = <<>> /\ svc.nfds = 0 /\ svc.readfds = {}
      /\ svc.writefds = {} /\ svc.nread = 0 /\ svc.nwrite = 0 /\ svc.changes = <<>>
  BY <1>1
<1>4. svc \in SvcRecords
  <2>1. <<>> \in Seq(PollEntries) /\ <<>> \in Seq(KqChanges)
    BY EmptySeq, Zenon
  <2>2. PICK p \in Seq(PollEntries) : p = <<>>
    BY <2>1, Zenon
  <2>3. PICK c \in Seq(KqChanges) : c = <<>>
    BY <2>1, Zenon
  <2>4. svc = [watches |-> None, fds |-> p, nfds |-> 0, readfds |-> {}, writefds |-> {},
               nread |-> 0, nwrite |-> 0, changes |-> c]
    BY <1>1, <2>2, <2>3, Zenon
  <2> QED
    BY <1>2, <2>4 DEF SvcRecords
<1>5. WatchTypeOK
  <2>1. todo \in Seq(IF be = "poll" THEN ScanSteps ELSE ListSteps)
    BY <1>1, EmptySeq
  <2> QED
    BY <1>1, <1>2, <1>4, <2>1, WatchTypes
<1>6. Kept
  <2>1. WatchesKept
    BY <1>1, <1>3 DEF WatchesKept
  <2>2. ChangesKept
    BY <1>1, <1>2, <1>3, AppliedNone DEF ChangesKept
  <2>3. ArrayKept
    BY <1>1, <1>2, <1>3 DEF ArrayKept
  <2>4. SetsKept
    BY <1>1, <1>2, <1>3, FS_EmptySet DEF SetsKept
  <2>5. be \in {"epoll", "evports", "kqueue", "poll", "select"}
    BY <1>1 DEF WatchAssumption
  <2> QED
    BY <2>1, <2>2, <2>3, <2>4, <2>5 DEF Kept
<1> QED
  BY <1>1, <1>5, <1>6 DEF WatchInv, ScanDue, ListDue, RaisedAsReported, NoEvent

\* Every step of WatchNext, and a stuttering one, keeps the invariant.
LEMMA WatchSteps ==
  ASSUME WatchAssumption, "evports" \notin EndIsHup, WatchInv, [WatchNext]_wvars
  PROVE  WatchInv'
<1>1. CASE WaitEvents
  BY <1>1, WaitEventsKeeps
<1>2. CASE RaiseNext
  BY <1>2, RaiseNextKeeps
<1>3. CASE reregister
  BY <1>3, ReregisterKeeps
<1>4. CASE ScanPoll
  BY <1>4, ScanPollKeeps
<1>5. CASE ScannedPoll
  BY <1>5, ScannedPollKeeps
<1>6. ASSUME NEW fd \in Fds, NEW d \in Dirs,
             PSC_Service_register(fd, d) \/ PSC_Service_unregister(fd, d)
      PROVE  WatchInv'
  BY <1>6, RegistrationKeeps
<1>7. ASSUME UNCHANGED <<be, svc, watching, want, todo>>, at' \in {"wait", "run"},
             at' = "wait" => todo = <<>>, due' = due \/ todo = <<>>, RaisedAsReported'
      PROVE  WatchInv'
  <2>1. WatchTypeOK /\ Kept /\ (IF be = "poll" THEN ScanDue ELSE ListDue)
    BY DEF WatchInv
  <2>2. WatchTypeOK'
    BY <1>7, <2>1, WatchTypes, WatchTypesNext
  <2>3. Kept'
    <3>1. CASE be # "poll"
      <4>1. \A fd \in Fds : Pending(fd) => Pending(fd)'
        BY <1>7 DEF Pending
      <4> QED
        BY <1>7, <2>1, <3>1, <4>1, KeptStays
    <3>2. CASE be = "poll"
      <4>1. ArrayKept
        BY <2>1, <3>2 DEF Kept
      <4>2. ArrayKept'
        BY <1>7, <4>1 DEF ArrayKept
      <4> QED
        BY <1>7, <3>2, <4>2 DEF Kept
    <3> QED
      BY <3>1, <3>2
  <2>4. IF be' = "poll" THEN ScanDue' ELSE ListDue'
    <3>1. CASE todo = <<>>
      BY <1>7, <3>1 DEF ScanDue, ListDue
    <3>2. CASE due' = due
      BY <1>7, <2>1, <3>2 DEF ScanDue, ListDue
    <3> QED
      BY <1>7, <3>1, <3>2
  <2> QED
    BY <1>7, <2>2, <2>3, <2>4 DEF WatchInv
<1>8. WatchTypeOK /\ RaisedAsReported /\ (at = "wait" => todo = <<>>)
  BY DEF WatchInv
<1>9. at \in {"wait", "run"}
  BY <1>8, WatchTypes
<1>10. CASE LoopEnd
  BY <1>7, <1>10 DEF LoopEnd, RaisedAsReported, NoEvent
<1>11. CASE \E fd \in Fds : FileChanges(fd)
  BY <1>7, <1>8, <1>9, <1>11 DEF FileChanges, RaisedAsReported
<1>12. CASE UNCHANGED wvars
  BY <1>7, <1>8, <1>9, <1>12 DEF wvars, RaisedAsReported
<1> QED
  BY <1>1, <1>2, <1>3, <1>4, <1>5, <1>6, <1>10, <1>11, <1>12 DEF WatchNext, WatchStep

\* EventsAsAsked: for any descriptors, any number of events per wait and any
\* number of collected changes, processEvents raises in each of the five backends
\* only events reported in its round, each once, whatever handlers register and
\* unregister meanwhile, and when the thread waits, the system watches what was
\* asked for.  Event ports must not report POLLHUP alone: poser would not
\* associate the descriptor again.
THEOREM WatchEvents ==
  ASSUME WatchAssumption, "evports" \notin EndIsHup
  PROVE  WatchSpec => []EventsAsAsked
<1>1. WatchInit => WatchInv
  BY WatchStarts
<1>2. WatchInv /\ [WatchNext]_wvars => WatchInv'
  BY WatchSteps
<1>3. WatchInv => EventsAsAsked
  BY InterestIs DEF WatchInv, EventsAsAsked, InterestKept
<1> QED
  BY <1>1, <1>2, <1>3, PTL DEF WatchSpec
=============================================================================
