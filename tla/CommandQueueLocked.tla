------------------------- MODULE CommandQueueLocked -------------------------
(***************************************************************************)
(* The command queue of a service thread (service.c) in builds without     *)
(* lock-free atomics (NO_SHAREDOBJ), with the part of serviceLoop that     *)
(* serves it.  Other threads append commands under the queue's mutex and   *)
(* wake the target thread through its eventfd (or command pipe), but only  *)
(* when mustwake tells them that it may be about to sleep.                 *)
(*                                                                         *)
(* A critical section is one step; the write to the eventfd is a step of   *)
(* its own, after the mutex is released.  The eventfd is what the code     *)
(* uses of it: readable or not, written by an enqueuer, drained by         *)
(* readCommandPipe.  Other event sources may end the wait at any time.     *)
(***************************************************************************)
EXTENDS Integers, Sequences

CONSTANTS Cmds,      \* the commands ever scheduled on the thread
          Threads    \* the other threads, which schedule them

VARIABLES commands,  \* the list first .. last of the SvcCommandQueue
          mustwake,  \* SvcCommandQueue.mustwake
          efd,       \* whether the eventfd is readable
          tpc,       \* where each other thread is in enqueueCommand
          loop,      \* where the service thread is in serviceLoop
          gotefd,    \* whether this round's events include the eventfd
          torun,     \* local of runCommands: the detached list
          executed   \* history: the commands executed, oldest first

vars == <<commands, mustwake, efd, tpc, loop, gotefd, torun, executed>>

Elems(s) == {s[i] : i \in DOMAIN s}
Scheduled == Elems(commands) \cup Elems(torun) \cup Elems(executed)

initCommandQueue == commands = <<>> /\ mustwake = TRUE /\ efd = FALSE

Init == /\ initCommandQueue
        /\ tpc = [t \in Threads |-> "idle"]
        /\ loop = "wait" /\ gotefd = FALSE
        /\ torun = <<>> /\ executed = <<>>

-----------------------------------------------------------------------------
(* Other threads: PSC_Service_runOnThread -> enqueueCommand *)

\* Mutant: the command is put in front of the list.
enqueueCommand_front(t, c) ==
    /\ tpc[t] = "idle" /\ c \notin Scheduled
    /\ commands' = <<c>> \o commands
    /\ tpc' = [tpc EXCEPT ![t] = IF mustwake THEN "wake" ELSE "idle"]
    /\ mustwake' = FALSE
    /\ UNCHANGED <<efd, loop, gotefd, torun, executed>>

\* The critical section of enqueueCommand.
enqueueCommand(t, c) ==
    /\ tpc[t] = "idle" /\ c \notin Scheduled
    /\ commands' = Append(commands, c)
    /\ tpc' = [tpc EXCEPT ![t] = IF mustwake THEN "wake" ELSE "idle"]
    /\ mustwake' = FALSE
    /\ UNCHANGED <<efd, loop, gotefd, torun, executed>>

\* "if (mustwake && write(q->efd, ...))".
enqueueCommand_wake(t) ==
    /\ tpc[t] = "wake"
    /\ efd' = TRUE
    /\ tpc' = [tpc EXCEPT ![t] = "idle"]
    /\ UNCHANGED <<commands, mustwake, loop, gotefd, torun, executed>>

-----------------------------------------------------------------------------
(* The service thread: processEvents(); runCommands(); ... *)

\* The wait of processEvents ends with the eventfd among its events, ...
processEvents_efd ==
    /\ loop = "wait" /\ efd
    /\ gotefd' = TRUE
    /\ loop' = "clear"
    /\ UNCHANGED <<commands, mustwake, efd, tpc, torun, executed>>

\* ... or without it: it became readable too late or found no room among the
\* events returned, and stays readable.
processEvents_other ==
    /\ loop = "wait"
    /\ gotefd' = FALSE
    /\ loop' = "clear"
    /\ UNCHANGED <<commands, mustwake, efd, tpc, torun, executed>>

clearMustWake ==
    /\ loop = "clear"
    /\ mustwake' = FALSE
    /\ loop' = "handle"
    /\ UNCHANGED <<commands, efd, tpc, gotefd, torun, executed>>

\* The handlers of this round's events; readCommandPipe drains the eventfd.
readCommandPipe ==
    /\ loop = "handle"
    /\ efd' = IF gotefd THEN FALSE ELSE efd
    /\ gotefd' = FALSE
    /\ loop' = "run"
    /\ UNCHANGED <<commands, mustwake, tpc, torun, executed>>

\* Mutant: the list is taken, but mustwake is not set again.
runCommands_nowake ==
    /\ loop = "run"
    /\ torun' = commands /\ commands' = <<>>
    /\ loop' = "exec"
    /\ UNCHANGED <<mustwake, efd, tpc, gotefd, executed>>

\* The critical section of runCommands.
runCommands ==
    /\ loop = "run"
    /\ torun' = commands /\ commands' = <<>>
    /\ mustwake' = TRUE
    /\ loop' = "exec"
    /\ UNCHANGED <<efd, tpc, gotefd, executed>>

\* Mutant: the rest of the list is dropped after its first command.
runCommands_exec_first ==
    /\ loop = "exec" /\ torun # <<>>
    /\ executed' = Append(executed, Head(torun))
    /\ torun' = <<>>
    /\ UNCHANGED <<commands, mustwake, efd, tpc, loop, gotefd>>

\* One round of "while (torun)": execute a command and free its node.
runCommands_exec ==
    /\ loop = "exec" /\ torun # <<>>
    /\ executed' = Append(executed, Head(torun))
    /\ torun' = Tail(torun)
    /\ UNCHANGED <<commands, mustwake, efd, tpc, loop, gotefd>>

\* The list is done; serviceLoop raises eventsDone and starts over.
runCommands_done ==
    /\ loop = "exec" /\ torun = <<>>
    /\ loop' = "wait"
    /\ UNCHANGED <<commands, mustwake, efd, tpc, gotefd, torun, executed>>

\* What the service thread does without help of other event sources.
LoopStep == \/ processEvents_efd \/ clearMustWake \/ readCommandPipe
            \/ runCommands \/ runCommands_exec \/ runCommands_done

Next == \/ \E t \in Threads, c \in Cmds : enqueueCommand(t, c)
        \/ \E t \in Threads : enqueueCommand_wake(t)
        \/ LoopStep
        \/ processEvents_other

Spec == Init /\ [][Next]_vars

\* Threads keep running.  Nothing is assumed of other event sources: a
\* sleeping service thread has nobody but the enqueuers to wake it.
FairSpec == /\ Spec
            /\ \A t \in Threads : WF_vars(enqueueCommand_wake(t))
            /\ WF_vars(LoopStep)

-----------------------------------------------------------------------------
(* Properties. *)

TypeOK ==
    /\ commands \in Seq(Cmds) /\ torun \in Seq(Cmds) /\ executed \in Seq(Cmds)
    /\ mustwake \in BOOLEAN /\ efd \in BOOLEAN /\ gotefd \in BOOLEAN
    /\ tpc \in [Threads -> {"idle", "wake"}]
    /\ loop \in {"wait", "clear", "handle", "run", "exec"}

\* The wake-up is already under way: the eventfd is readable, or a thread is
\* about to write to it.
WakePending == efd \/ \E t \in Threads : tpc[t] = "wake"

\* mustwake is only set while nothing is queued ...
WakeFlagMeansEmpty == mustwake => commands = <<>>
\* ... and once it is cleared behind runCommands, somebody wakes the loop.
ClearedFlagMeansWake == loop \in {"exec", "wait"} /\ ~mustwake => WakePending
\* An announced eventfd is readable until it is drained.
GotMeansReadable == gotefd => efd /\ loop \in {"clear", "handle"}
\* Commands are detached only inside runCommands.
DetachedOnlyInRun == torun # <<>> => loop = "exec"

\* The service thread never goes to sleep, or stays asleep, on a queued
\* command that nobody will wake it for.
NoLostWakeup == loop \in {"exec", "wait"} /\ commands # <<>> => WakePending

IInv == /\ TypeOK /\ WakeFlagMeansEmpty /\ ClearedFlagMeansWake
        /\ GotMeansReadable /\ DetachedOnlyInRun

R == INSTANCE RunOnThread WITH pending <- torun \o commands

\* The mutex build executes scheduled commands exactly once and in order.
ImplementsRunOnThread == R!RSpec

\* A scheduled command is executed although no other event ever occurs.
ScheduledEventuallyRuns == \A c \in Cmds : c \in Scheduled ~> c \in Elems(executed)
=============================================================================
