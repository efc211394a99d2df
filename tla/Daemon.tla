------------------------------- MODULE Daemon -------------------------------
(***************************************************************************)
(* PSC_Daemon_run (daemon.c) with a pidfile, for several starts of the     *)
(* same daemon on one machine.  A start is three processes: the one that   *)
(* was launched ("P") opens and locks the pidfile, forks and waits for the *)
(* launch; its child ("C") forks again, writes the pid and exits; the      *)
(* grandchild ("D") becomes the daemon.                                    *)
(*                                                                         *)
(* The pidfile is what the code uses of it: a name for a file or for none, *)
(* the pid in the file, and its fcntl locks, which belong to a process, do *)
(* not pass to a forked child, and are gone when the process closes the    *)
(* file or ends.  A start creates at most one file, which bears its name.  *)
(***************************************************************************)
EXTENDS Naturals

CONSTANTS Starts,  \* the starts of the daemon
          Crowd,   \* bound: the ones that take place if they may overlap
          Nothing

DaemonAssumption == /\ Nothing \notin Starts /\ Nothing \notin Starts \X {"P", "C", "D"}
                    /\ Crowd \subseteq Starts

VARIABLES serial,    \* TRUE: a start, or a stop, begins when the one before is
                     \* launched or over, as an init script does it
          name,      \* the file the pidfile's name stands for, or Nothing
          content,   \* per file: the start whose daemon's pid it holds, or Nothing
          wr, rd,    \* per file: the process with the write lock, or Nothing, and
                     \* the processes with a read lock
          ppc, cpc, dpc,  \* per start: where its processes are
          rfile, file,    \* per start: the file opened to read and to write
          told       \* per start: the NUL that reports a failure was written

dvars == <<serial, name, content, wr, rd, ppc, cpc, dpc, rfile, file, told>>

P(i) == <<i, "P">>
C(i) == <<i, "C">>
D(i) == <<i, "D">>

DaemonInit == /\ serial \in BOOLEAN
              /\ name = Nothing
              /\ content = [f \in Starts |-> Nothing]
              /\ wr = [f \in Starts |-> Nothing] /\ rd = [f \in Starts |-> {}]
              /\ ppc = [i \in Starts |-> "new"]
              /\ cpc = [i \in Starts |-> "none"] /\ dpc = [i \in Starts |-> "none"]
              /\ rfile = [i \in Starts |-> Nothing] /\ file = [i \in Starts |-> Nothing]
              /\ told = [i \in Starts |-> FALSE]

Unlocked(f, p) == wr[f] \in {Nothing, p} /\ rd[f] \subseteq {p}

\* Process p closes a file, or ends: its locks on it are released.
Release(f, p) == /\ wr' = [wr EXCEPT ![f] = IF @ = p THEN Nothing ELSE @]
                 /\ rd' = [rd EXCEPT ![f] = @ \ {p}]

-----------------------------------------------------------------------------
(* P: openpidfile *)

Over(i) == /\ ppc[i] \in {"new", "ok", "failed"} /\ cpc[i] \in {"none", "gone"}
           /\ dpc[i] \in {"none", "launched", "gone"}

PSC_Daemon_run(i) ==
    /\ ppc[i] = "new"
    /\ IF serial THEN \A k \in Starts : Over(k) ELSE i \in Crowd
    /\ rfile' = [rfile EXCEPT ![i] = name]
    /\ ppc' = [ppc EXCEPT ![i] = IF name = Nothing THEN "create" ELSE "getlk"]
    /\ UNCHANGED <<name, content, wr, rd, cpc, dpc, file, told>>

\* F_GETLK: does a lock stand in the way of a read lock?
openpidfile_getlk(i) ==
    /\ ppc[i] = "getlk"
    /\ ppc' = [ppc EXCEPT ![i] = IF wr[rfile[i]] = Nothing THEN "rdlock" ELSE "read"]
    /\ UNCHANGED <<name, content, wr, rd, cpc, dpc, rfile, file, told>>

openpidfile_rdlock(i) ==
    /\ ppc[i] = "rdlock"
    /\ \/ /\ wr[rfile[i]] = Nothing
          /\ rd' = [rd EXCEPT ![rfile[i]] = @ \cup {P(i)}]
          /\ ppc' = [ppc EXCEPT ![i] = "unlink"]
       \/ /\ wr[rfile[i]] # Nothing
          /\ ppc' = [ppc EXCEPT ![i] = "read"]
          /\ UNCHANGED rd
    /\ UNCHANGED <<name, content, wr, cpc, dpc, rfile, file, told>>

\* Somebody holds the file: report the daemon that runs, and give up.
openpidfile_read(i) ==
    /\ ppc[i] = "read"
    /\ ppc' = [ppc EXCEPT ![i] = "failed"]
    /\ UNCHANGED <<name, content, wr, rd, cpc, dpc, rfile, file, told>>

\* "removing stale pidfile": whatever the name stands for now.  If it stands
\* for nothing any more, unlink fails and the process ends.
openpidfile_unlink(i) ==
    /\ ppc[i] = "unlink"
    /\ name' = Nothing
    /\ \/ /\ name # Nothing
          /\ ppc' = [ppc EXCEPT ![i] = "rdclose"]
          /\ UNCHANGED <<wr, rd>>
       \/ /\ name = Nothing
          /\ ppc' = [ppc EXCEPT ![i] = "failed"]
          /\ Release(rfile[i], P(i))
    /\ UNCHANGED <<content, cpc, dpc, rfile, file, told>>

openpidfile_close(i) ==
    /\ ppc[i] = "rdclose"
    /\ Release(rfile[i], P(i))
    /\ ppc' = [ppc EXCEPT ![i] = "create"]
    /\ UNCHANGED <<name, content, cpc, dpc, rfile, file, told>>

\* fopen(pidfile, "w"): a new file, or the one that is there, truncated.
openpidfile_create(i) ==
    /\ ppc[i] = "create"
    /\ LET f == IF name = Nothing THEN i ELSE name
       IN  /\ name' = f /\ file' = [file EXCEPT ![i] = f]
           /\ content' = [content EXCEPT ![f] = Nothing]
    /\ ppc' = [ppc EXCEPT ![i] = "lock"]
    /\ UNCHANGED <<wr, rd, cpc, dpc, rfile, told>>

openpidfile_lock(i) ==
    /\ ppc[i] = "lock"
    /\ \/ /\ Unlocked(file[i], P(i))
          /\ wr' = [wr EXCEPT ![file[i]] = P(i)]
          /\ ppc' = [ppc EXCEPT ![i] = "fork"]
       \/ /\ ~Unlocked(file[i], P(i))
          /\ ppc' = [ppc EXCEPT ![i] = "failed"]
          /\ UNCHANGED wr
    /\ UNCHANGED <<name, content, rd, cpc, dpc, rfile, file, told>>

-----------------------------------------------------------------------------
(* PSC_Daemon_run, after openpidfile *)

fork_first(i) ==
    /\ ppc[i] = "fork"
    /\ cpc' = [cpc EXCEPT ![i] = "waitlock"]
    /\ ppc' = [ppc EXCEPT ![i] = "close"]
    /\ UNCHANGED <<name, content, wr, rd, dpc, rfile, file, told>>

fork_fail(i) ==
    /\ ppc[i] = "fork"
    /\ Release(file[i], P(i))
    /\ ppc' = [ppc EXCEPT ![i] = "failed"]
    /\ UNCHANGED <<name, content, cpc, dpc, rfile, file, told>>

parent_close(i) ==
    /\ ppc[i] = "close"
    /\ Release(file[i], P(i))
    /\ ppc' = [ppc EXCEPT ![i] = "wait"]
    /\ UNCHANGED <<name, content, cpc, dpc, rfile, file, told>>

\* Mutant: the write end of the pipe stays open in P.
parent_wait_open(i) ==
    /\ ppc[i] = "wait"
    /\ told[i] /\ ppc' = [ppc EXCEPT ![i] = "failed"]
    /\ UNCHANGED <<name, content, wr, rd, cpc, dpc, rfile, file, told>>

\* The pipe is read to its end: until the NUL, or until nobody has it open.
parent_wait(i) ==
    /\ ppc[i] = "wait"
    /\ \/ told[i] /\ ppc' = [ppc EXCEPT ![i] = "failed"]
       \/ /\ ~told[i] /\ cpc[i] = "gone"
          /\ dpc[i] \in {"none", "launched", "stop", "unlink", "gone"}
          /\ ppc' = [ppc EXCEPT ![i] = "ok"]
    /\ UNCHANGED <<name, content, wr, rd, cpc, dpc, rfile, file, told>>

\* C: waitpflock.
child_lock(i) ==
    /\ cpc[i] = "waitlock" /\ Unlocked(file[i], C(i))
    /\ wr' = [wr EXCEPT ![file[i]] = C(i)]
    /\ cpc' = [cpc EXCEPT ![i] = "fork"]
    /\ UNCHANGED <<name, content, rd, ppc, dpc, rfile, file, told>>

fork_second(i) ==
    /\ cpc[i] = "fork"
    /\ dpc' = [dpc EXCEPT ![i] = "waitlock"]
    /\ cpc' = [cpc EXCEPT ![i] = "write"]
    /\ UNCHANGED <<name, content, wr, rd, ppc, rfile, file, told>>

\* waitpflock, setsid or the second fork fails: C ends, and P is not told.
child_fail(i) ==
    /\ cpc[i] \in {"waitlock", "fork"}
    /\ Release(file[i], C(i))
    /\ cpc' = [cpc EXCEPT ![i] = "gone"]
    /\ UNCHANGED <<name, content, ppc, dpc, rfile, file, told>>

\* The pid is written with the file's buffer, as it is closed; C ends.
child_write(i) ==
    /\ cpc[i] = "write"
    /\ content' = [content EXCEPT ![file[i]] = i]
    /\ Release(file[i], C(i))
    /\ cpc' = [cpc EXCEPT ![i] = "gone"]
    /\ UNCHANGED <<name, ppc, dpc, rfile, file, told>>

\* Mutant: the daemon does not wait for the pid to be written.
daemon_lock_skip(i) ==
    /\ dpc[i] = "waitlock"
    /\ dpc' = [dpc EXCEPT ![i] = "run"]
    /\ UNCHANGED <<name, content, wr, rd, ppc, cpc, rfile, file, told>>

\* D: waitpflock, and dmain begins.
daemon_lock(i) ==
    /\ dpc[i] = "waitlock" /\ Unlocked(file[i], D(i))
    /\ wr' = [wr EXCEPT ![file[i]] = D(i)]
    /\ dpc' = [dpc EXCEPT ![i] = "run"]
    /\ UNCHANGED <<name, content, rd, ppc, cpc, rfile, file, told>>

PSC_Daemon_launched(i) ==
    /\ dpc[i] = "run"
    /\ dpc' = [dpc EXCEPT ![i] = "launched"]
    /\ UNCHANGED <<name, content, wr, rd, ppc, cpc, rfile, file, told>>

\* waitpflock or chdir fails: D ends, and P is not told.
daemon_fail(i) ==
    /\ dpc[i] = "waitlock"
    /\ dpc' = [dpc EXCEPT ![i] = "gone"]
    /\ UNCHANGED <<name, content, wr, rd, ppc, cpc, rfile, file, told>>

\* dmain returns.  P is told of a failure, until the launch took the pipe away.
daemon_return(i) ==
    /\ dpc[i] \in {"run", "launched"}
    /\ serial => \A k \in Starts \ {i} : Over(k)
    /\ \E rc \in {"EXIT_SUCCESS", "EXIT_FAILURE"} :
          told' = [told EXCEPT ![i] = rc = "EXIT_FAILURE" /\ dpc[i] = "run"]
    /\ dpc' = [dpc EXCEPT ![i] = "stop"]
    /\ UNCHANGED <<name, content, wr, rd, ppc, cpc, rfile, file>>

daemon_close(i) ==
    /\ dpc[i] = "stop"
    /\ Release(file[i], D(i))
    /\ dpc' = [dpc EXCEPT ![i] = "unlink"]
    /\ UNCHANGED <<name, content, ppc, cpc, rfile, file, told>>

daemon_unlink(i) ==
    /\ dpc[i] = "unlink"
    /\ name' = Nothing
    /\ dpc' = [dpc EXCEPT ![i] = "gone"]
    /\ UNCHANGED <<content, wr, rd, ppc, cpc, rfile, file, told>>

\* The daemon is killed; its pidfile stays behind.
daemon_crash(i) ==
    /\ dpc[i] \in {"run", "launched", "stop", "unlink"}
    /\ Release(file[i], D(i))
    /\ dpc' = [dpc EXCEPT ![i] = "gone"]
    /\ UNCHANGED <<name, content, ppc, cpc, rfile, file, told>>

Step(i) ==
    \/ openpidfile_getlk(i) \/ openpidfile_rdlock(i) \/ openpidfile_read(i)
    \/ openpidfile_unlink(i) \/ openpidfile_close(i) \/ openpidfile_create(i)
    \/ openpidfile_lock(i)
    \/ fork_first(i) \/ parent_close(i) \/ parent_wait(i)
    \/ child_lock(i) \/ fork_second(i) \/ child_write(i)
    \/ daemon_lock(i) \/ daemon_close(i) \/ daemon_unlink(i)

StepOf(i) == \/ Step(i) \/ PSC_Daemon_run(i)
             \/ fork_fail(i) \/ child_fail(i) \/ daemon_fail(i)
             \/ PSC_Daemon_launched(i) \/ daemon_return(i) \/ daemon_crash(i)
DaemonNext == /\ \E i \in Starts : StepOf(i)
              /\ UNCHANGED serial

DaemonSpec == DaemonInit /\ [][DaemonNext]_dvars

\* Processes keep running, and dmain launches or returns; a launched daemon may
\* run for ever.
DaemonFairness ==
    /\ \A i \in Starts :
        /\ WF_dvars(Step(i) /\ UNCHANGED serial)
        /\ WF_dvars(/\ dpc[i] = "run"
                    /\ PSC_Daemon_launched(i) \/ daemon_return(i)
                    /\ UNCHANGED serial)

-----------------------------------------------------------------------------
(* Properties. *)

Files == Starts \cup {Nothing}
Processes == Starts \X {"P", "C", "D"}
PPlaces == {"new", "getlk", "rdlock", "read", "unlink", "rdclose", "create", "lock", "fork",
            "close", "wait", "ok", "failed"}
CPlaces == {"none", "waitlock", "fork", "write", "gone"}
DPlaces == {"none", "waitlock", "run", "launched", "stop", "unlink", "gone"}

DaemonTypeOK ==
    /\ serial \in BOOLEAN
    /\ name \in Files /\ content \in [Starts -> Files]
    /\ wr \in [Starts -> Processes \cup {Nothing}] /\ rd \in [Starts -> SUBSET Processes]
    /\ ppc \in [Starts -> PPlaces] /\ cpc \in [Starts -> CPlaces]
    /\ dpc \in [Starts -> DPlaces]
    /\ rfile \in [Starts -> Files] /\ file \in [Starts -> Files]
    /\ told \in [Starts -> BOOLEAN]

Running(i) == dpc[i] \in {"run", "launched"}

\* Starts and stops that do not overlap never leave two running daemons: the
\* library promises to "correctly handle a pidfile" (README).
OneDaemon == serial => \A i, k \in Starts : Running(i) /\ Running(k) => i = k

\* However starts, stops and crashes overlap, no two daemons run on one and the
\* same file: F_SETLKW lets a second one in only when the first is gone.  Two
\* daemons can only run when one of them removed the other's pidfile.
OneDaemonPerFile ==
    \A i, k \in Starts : Running(i) /\ Running(k) /\ file[i] = file[k] => i = k

\* Whoever looks for the daemon finds it: the pidfile of a running daemon
\* exists, holds its pid and is locked by it.
PidfileNamesDaemon ==
    serial => \A i \in Starts : Running(i) =>
        /\ name # Nothing /\ name = file[i]
        /\ content[name] = i /\ wr[name] = D(i)

\* When openpidfile finds the file locked, the pid in it is that of the owner
\* of the lock: a disagreement "should never happen" (daemon.c).
OwnerAgrees ==
    serial => \A i \in Starts : ppc[i] = "read" /\ wr[rfile[i]] # Nothing =>
        /\ content[rfile[i]] # Nothing
        /\ wr[rfile[i]] = D(content[rfile[i]])

\* One daemon after starts and stops in sequence, never two on the same pidfile
\* however starts overlap, and the file names the daemon that has its lock.
PidfileExcludes == OneDaemon /\ OneDaemonPerFile /\ PidfileNamesDaemon /\ OwnerAgrees

\* Every start comes to an end: it reports success or failure, also when its
\* daemon fails, or when another one crashes meanwhile.
StartReturns == \A i \in Starts : serial /\ ppc[i] # "new" ~> ppc[i] \in {"ok", "failed"}

-----------------------------------------------------------------------------
(* The inductive invariant *)

\* The three processes of a start come one after the other, and each has the
\* files open that it works on.
StartFits(i) ==
    /\ ppc[i] \in {"new", "getlk", "rdlock", "read", "unlink", "rdclose", "create", "lock",
                  "fork"} => cpc[i] = "none"
    /\ ppc[i] = "close" => cpc[i] \in {"waitlock", "gone"} /\ dpc[i] = "none"
    /\ cpc[i] \in {"none", "waitlock", "fork"} => dpc[i] = "none"
    /\ dpc[i] \in {"run", "launched", "stop", "unlink"} => cpc[i] = "gone"
    /\ ppc[i] \in {"getlk", "rdlock", "read", "unlink", "rdclose"} => rfile[i] \in Starts
    /\ ppc[i] \in {"lock", "fork", "close"} \/ cpc[i] # "none" => file[i] \in Starts

\* A process has the write lock of its file exactly while it needs it: the pid is
\* written, and the daemon runs, under that lock.
LockFits(i) ==
    /\ ppc[i] \in {"fork", "close"} => wr[file[i]] = P(i)
    /\ cpc[i] \in {"fork", "write"} => wr[file[i]] = C(i)
    /\ dpc[i] \in {"run", "launched", "stop"} => wr[file[i]] = D(i)
    /\ \A f \in Starts :
          /\ wr[f] = P(i) => ppc[i] \in {"fork", "close"} /\ file[i] = f
          /\ wr[f] = C(i) => cpc[i] \in {"fork", "write"} /\ file[i] = f
          /\ wr[f] = D(i) => dpc[i] \in {"run", "launched", "stop"} /\ file[i] = f

LocksFit == \A i \in Starts : StartFits(i) /\ LockFits(i)

\* The starts that have found no daemon, and have not failed since, and those
\* whose pidfile is there.
HasFile(i) == \/ ppc[i] \in {"lock", "fork", "close"} \/ cpc[i] \in {"waitlock", "fork", "write"}
              \/ dpc[i] \in {"waitlock", "run", "launched", "stop", "unlink"}
Owner(i) == HasFile(i) \/ ppc[i] \in {"rdlock", "unlink", "rdclose", "create"}

\* In a sequence of starts and stops only one is in progress and only one owns
\* the pidfile; who looks at it sees the file of the daemon that runs.
InSequence ==
    \A i, k \in Starts :
       /\ ~Over(i) /\ ~Over(k) => i = k
       /\ Owner(i) /\ Owner(k) => i = k
       /\ HasFile(k) => name = file[k]
       /\ dpc[k] \in {"waitlock", "run", "launched"} /\ cpc[k] = "gone" => content[file[k]] = k
       /\ ppc[i] = "getlk" /\ Running(k) => rfile[i] = file[k]

DaemonInv == DaemonTypeOK /\ LocksFit /\ (serial => InSequence)
=============================================================================
