------------------------------ MODULE Process ------------------------------
(***************************************************************************)
(* PSC_Process (process.c): child processes of a service.  The main thread *)
(* forks and learns that a child ended; everything else, the pipes to the  *)
(* standard streams and the end of the process, happens on the thread that *)
(* created the object.  Commands reach each thread in order (RunOnThread). *)
(***************************************************************************)
EXTENDS Naturals, Sequences, FiniteSets

CONSTANTS Procs,      \* the PSC_Process objects
          Pids,       \* the process ids the system uses
          PipeSets,   \* which streams may be pipes: subsets of Streams
          ReusePids   \* TRUE: the id of a child that was waited for is used again

Streams == 0 .. 2   \* PSC_ST_STDIN, PSC_ST_STDOUT, PSC_ST_STDERR
ProcAssumption == PipeSets \subseteq SUBSET Streams

VARIABLES proc,    \* per object: the struct PSC_Process
          child,   \* per object: its child process
          mainq,   \* commands for the main thread
          thrq,    \* commands for the thread of the objects
          reg,     \* handlers of PSC_Service_childExited: <<object, pid>>
          seen     \* what must not happen: a freed object was used

pvars == <<proc, child, mainq, thrq, reg, seen>>

Created(pipes) == [life |-> "live", pid |-> 0, status |-> "none", killtimer |-> FALSE,
                   streams |-> {}, pipes |-> pipes, done |-> 0]

ProcInit ==
    /\ \E pipes \in [Procs -> PipeSets] : proc = [p \in Procs |-> Created(pipes[p])]
    /\ child = [p \in Procs |-> [state |-> "none", term |-> FALSE]]
    /\ mainq = <<>> /\ thrq = <<>> /\ reg = {}
    /\ seen = [freed |-> FALSE, asked |-> {}]

Use(p) == [seen EXCEPT !.freed = @ \/ proc[p].life = "freed"]

-----------------------------------------------------------------------------
(* The thread of the objects *)

\* PSC_Process_exec and PSC_Process_run, called once for an object.  (A second call is
\* ignored by runprocess while the object has the pid of the first; it works on a freed
\* object if the first one ended before.)
PSC_Process_exec(p) ==
    /\ p \notin seen.asked
    /\ mainq' = Append(mainq, p)
    /\ seen' = [seen EXCEPT !.asked = @ \cup {p}]
    /\ UNCHANGED <<proc, child, thrq, reg>>

\* The object is freed once the child has ended and no stream is open.
tryDestroy(o) ==
    IF o.status = "running" \/ o.streams # {} THEN o
    ELSE [o EXCEPT !.done = @ + 1, !.life = "freed"]

createpipeconn(p, i) ==
    /\ thrq # <<>> /\ Head(thrq) = [run |-> "createpipeconn", p |-> p, i |-> i]
    /\ thrq' = Tail(thrq)
    /\ proc' = [proc EXCEPT ![p].streams = @ \cup {i}]
    /\ seen' = Use(p)
    /\ UNCHANGED <<child, mainq, reg>>

\* The connection of a stream is closed, by the child, its end or the user.
streamClosed(p, i) ==
    /\ i \in proc[p].streams
    /\ proc' = [proc EXCEPT ![p] = tryDestroy([proc[p] EXCEPT !.streams = @ \ {i}])]
    /\ seen' = Use(p)
    /\ UNCHANGED <<child, mainq, thrq, reg>>

\* Mutant: the status is set before the child's standard input is closed.
Ended_early(o, how) ==
    LET s == [o EXCEPT !.killtimer = FALSE, !.status = how]
    IN  tryDestroy(IF 0 \in s.streams THEN tryDestroy([s EXCEPT !.streams = @ \ {0}]) ELSE s)

\* Mutant: the end of the process itself does not look whether all is closed.
Ended_stays(o, how) ==
    [o EXCEPT !.streams = @ \ {0}, !.killtimer = FALSE, !.status = how]

\* Standard input is closed, which calls streamClosed while the status still
\* says that the child runs; then the status is set.
Ended(o, how) ==
    LET s == IF 0 \in o.streams THEN tryDestroy([o EXCEPT !.streams = @ \ {0}]) ELSE o
    IN  tryDestroy([s EXCEPT !.killtimer = FALSE, !.status = how])

endprocess(p) ==
    /\ thrq # <<>> /\ Head(thrq).run = "endprocess" /\ Head(thrq).p = p
    /\ thrq' = Tail(thrq)
    /\ proc' = IF Head(thrq).pid # proc[p].pid THEN proc
               ELSE [proc EXCEPT ![p] = Ended(proc[p], Head(thrq).how)]
    /\ seen' = Use(p)
    /\ UNCHANGED <<child, mainq, reg>>

\* runprocess failed: the object is done at once.
failedDestroy(p) ==
    /\ thrq # <<>> /\ Head(thrq) = [run |-> "tryDestroy", p |-> p]
    /\ thrq' = Tail(thrq)
    /\ proc' = [proc EXCEPT ![p] = tryDestroy(proc[p])]
    /\ seen' = Use(p)
    /\ UNCHANGED <<child, mainq, reg>>

\* A signal for the pid: nothing happens when that child is gone.
Kill(p, force) == [child EXCEPT ![p].state = IF @ = "runs" /\ force THEN "zombie" ELSE @,
                                ![p].term = @ \/ child[p].state = "runs"]

\* SIGTERM, and with a timeout SIGKILL later; a child that was waited for
\* already cannot be signaled.
PSC_Process_stop(p, forceMs) ==
    /\ proc[p].life = "live" /\ proc[p].status = "running" /\ ~proc[p].killtimer
    /\ child[p].state # "reaped"
    /\ child' = Kill(p, FALSE)
    /\ proc' = [proc EXCEPT ![p].killtimer = forceMs # 0]
    /\ UNCHANGED <<mainq, thrq, reg, seen>>

\* The kill timer expires.
forcekill(p) ==
    /\ proc[p].life = "live" /\ proc[p].killtimer /\ child[p].state = "runs"
    /\ child' = Kill(p, TRUE)
    /\ UNCHANGED <<proc, mainq, thrq, reg, seen>>

-----------------------------------------------------------------------------
(* The main thread *)

\* Pids of children that were not waited for are taken; the system avoids
\* recently used ones.
Taken == {proc[q].pid : q \in {q \in Procs : child[q].state \in {"runs", "zombie"}}}
FreePids == IF ReusePids THEN Pids \ Taken ELSE Pids \ {proc[q].pid : q \in Procs}

\* fork, the handler for the child's end, and one connection per pipe, created
\* on the object's thread.
Piped(p, i) == IF i \in proc[p].pipes THEN <<[run |-> "createpipeconn", p |-> p, i |-> i]>>
               ELSE <<>>
runprocess(p) ==
    /\ mainq # <<>> /\ Head(mainq) = p
    /\ mainq' = Tail(mainq)
    /\ \/ \E pid \in FreePids :
             /\ proc' = [proc EXCEPT ![p].pid = pid, ![p].status = "running"]
             /\ reg' = reg \cup {<<p, pid>>}
             /\ child' = [child EXCEPT ![p].state = "runs"]
             /\ thrq' = thrq \o Piped(p, 0) \o Piped(p, 1) \o Piped(p, 2)
       \/ \* no pipe, or no process
          /\ proc' = [proc EXCEPT ![p].status = "exited"]
          /\ thrq' = Append(thrq, [run |-> "tryDestroy", p |-> p])
          /\ UNCHANGED <<reg, child>>
    /\ seen' = Use(p)

\* The handler for the child's end sends the object's thread a command.
childExited(q, p) == [run |-> "endprocess", p |-> q, pid |-> proc[p].pid,
                      how |-> IF child[p].term THEN "signaled" ELSE "exited"]

\* The service waits for the child and raises childExited with its pid.
reapChildren(p) ==
    LET told == {q \in Procs : <<q, proc[p].pid>> \in reg}
    IN  /\ child[p].state = "zombie"
        /\ child' = [child EXCEPT ![p].state = "reaped"]
        /\ \E order \in [1 .. Cardinality(told) -> told] :
              /\ \A q \in told : \E k \in DOMAIN order : order[k] = q
              /\ thrq' = thrq \o [k \in DOMAIN order |-> childExited(order[k], p)]
        /\ seen' = [seen EXCEPT !.freed = @ \/ \E q \in told : proc[q].life = "freed"]
        /\ UNCHANGED <<proc, mainq, reg>>

\* External: the child ends, on its own or because of SIGTERM.
childEnds(p) ==
    /\ child[p].state = "runs"
    /\ child' = [child EXCEPT ![p].state = "zombie"]
    /\ UNCHANGED <<proc, mainq, thrq, reg, seen>>

ThreadStep(p) == \/ \E i \in Streams : createpipeconn(p, i)
                 \/ endprocess(p) \/ failedDestroy(p)
ProcNext ==
    \E p \in Procs :
       \/ PSC_Process_exec(p)
       \/ \E ms \in {0, 1} : PSC_Process_stop(p, ms)
       \/ ThreadStep(p) \/ forcekill(p)
       \/ \E i \in Streams : streamClosed(p, i)
       \/ runprocess(p) \/ reapChildren(p) \/ childEnds(p)

ProcSpec == ProcInit /\ [][ProcNext]_pvars

\* Both threads run, and an expired timer is handled.
ProcFairness ==
    \A p \in Procs :
       /\ WF_pvars(ThreadStep(p)) /\ WF_pvars(runprocess(p)) /\ WF_pvars(reapChildren(p))
       /\ WF_pvars(forcekill(p))
ProcFairSpec == ProcSpec /\ ProcFairness

\* The reading end of a pipe learns that the child closed the other one.  It does with
\* kqueue, event ports and select, and not with epoll and poll (EndIsHup of Watch).
PipeEndsReported ==
    \A p \in Procs, i \in Streams \ {0} :
       WF_pvars(child[p].state = "reaped" /\ streamClosed(p, i))

-----------------------------------------------------------------------------
(* The inductive invariant *)

Objects == [life : {"live", "freed"}, pid : Pids \cup {0}, killtimer : BOOLEAN,
            status : {"none", "running", "exited", "signaled"}, streams : SUBSET Streams,
            pipes : SUBSET Streams, done : {0, 1}]
Commands == [run : {"createpipeconn"}, p : Procs, i : Streams]
            \cup [run : {"tryDestroy"}, p : Procs]
            \cup [run : {"endprocess"}, p : Procs, pid : Pids, how : {"exited", "signaled"}]

ProcTypeOK ==
    /\ proc \in [Procs -> Objects]
    /\ child \in [Procs -> [state : {"none", "runs", "zombie", "reaped"}, term : BOOLEAN]]
    /\ mainq \in Seq(Procs) /\ thrq \in Seq(Commands)
    /\ seen \in [freed : BOOLEAN, asked : SUBSET Procs]

\* What is asked of the main thread was not begun, and is asked once.
AskedOnce == \A k \in DOMAIN mainq :
    /\ mainq[k] \in seen.asked /\ proc[mainq[k]].status = "none"
    /\ \A l \in DOMAIN mainq : mainq[l] = mainq[k] => l = k

\* An object and its child.
ObjectFits(p) ==
    /\ p \notin seen.asked => proc[p].status = "none"
    /\ proc[p].status = "none" => child[p].state = "none"
    /\ child[p].state \in {"runs", "zombie"} => proc[p].status = "running"
    /\ proc[p].status = "running" => child[p].state # "none"
    /\ child[p].state # "none" => proc[p].pid \in Pids
    /\ proc[p].streams # {} => child[p].state # "none" /\ proc[p].life = "live"
    /\ proc[p].life = "live" => proc[p].done = 0
    /\ proc[p].life = "freed" => proc[p].status \in {"exited", "signaled"}
ObjectsFit == \A p \in Procs : ObjectFits(p)

\* No two objects ever had the same pid, and each handler is for its own.
PidsApart ==
    /\ \A x \in reg : \E p \in Procs : x = <<p, proc[p].pid>> /\ child[p].state # "none"
    /\ \A p \in Procs : child[p].state # "none" => <<p, proc[p].pid>> \in reg
    /\ \A p, q \in Procs :
          child[p].state # "none" /\ child[q].state # "none" /\ proc[p].pid = proc[q].pid => p = q

\* A command is for an object that is there, and the one that ends it is the
\* last of them.
CommandFits(c) ==
    /\ proc[c.p].life = "live"
    /\ c.run = "createpipeconn" => proc[c.p].status = "running"
    /\ c.run = "tryDestroy" => proc[c.p].status = "exited" /\ child[c.p].state = "none"
    /\ c.run = "endprocess" => /\ proc[c.p].status = "running"
                               /\ child[c.p].state = "reaped" /\ c.pid = proc[c.p].pid
CommandsFit == \A k \in DOMAIN thrq :
    /\ CommandFits(thrq[k])
    /\ thrq[k].run # "createpipeconn" => \A l \in DOMAIN thrq : thrq[l].p = thrq[k].p => l <= k

ProcInv == /\ ProcTypeOK /\ AskedOnce /\ ObjectsFit /\ PidsApart /\ CommandsFit
           /\ ~seen.freed

-----------------------------------------------------------------------------
(* Properties *)

\* An object is freed once, with one done event, and no command or handler on
\* any thread works on it afterwards.
ProcessNotFreed == ~seen.freed /\ \A p \in Procs : proc[p].done <= 1

\* done is raised only when the child was waited for, or there never was one,
\* and all data of its streams was delivered: no pipe is open or still to be
\* connected.
DoneAfterAll ==
    \A p \in Procs : proc[p].done # 0 =>
        /\ child[p].state \in {"none", "reaped"}
        /\ proc[p].streams = {}
        /\ \A k \in DOMAIN thrq : thrq[k].run = "createpipeconn" => thrq[k].p # p

\* A process object is freed once, not used afterwards, and done comes after the
\* child was waited for and its pipes were closed.
ProcessSafe == ProcessNotFreed /\ DoneAfterAll

\* A process whose child ends is done in the end; without pipes to read from this needs
\* nothing but the threads, as standard input is closed by endprocess.
EndedIsDone == \A p \in Procs : child[p].state = "zombie" ~> proc[p].done = 1
UnreadIsDone ==
    \A p \in Procs : child[p].state = "zombie" /\ proc[p].pipes \subseteq {0} ~> proc[p].done = 1

\* With a timeout, PSC_Process_stop ends the child even if it ignores SIGTERM.
StopEnds == \A p \in Procs :
               proc[p].killtimer ~> child[p].state \in {"zombie", "reaped"}

====
