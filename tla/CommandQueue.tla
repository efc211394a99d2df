---------------------------- MODULE CommandQueue ----------------------------
(***************************************************************************)
(* The lock-free command queue of a service thread (service.c), the build  *)
(* with atomics: a linked list of SharedObj nodes to which any thread      *)
(* appends, which the service thread cuts off behind a dummy node it       *)
(* appends itself, and whose nodes it retires one by one.  With it the     *)
(* part of serviceLoop that sleeps, wakes up and runs the commands.        *)
(*                                                                         *)
(* Every atomic access to shared memory is a step, under sequential        *)
(* consistency; the loads and stores of thread local data join the step    *)
(* before or after.                                                        *)
(***************************************************************************)
EXTENDS SharedObj

CONSTANTS Cmds,        \* command nodes, one per call of enqueueCommand
          Owner,       \* the thread that schedules each command
          Dummies,     \* dummy nodes
          Loop,        \* the service thread
          Dummy0       \* the dummy node initCommandQueue allocates

ASSUME CommandQueueAssumption ==
    /\ Objs = Cmds \cup Dummies /\ Cmds \cap Dummies = {}
    /\ Loop \in Threads /\ Dummy0 \in Dummies
    /\ Owner \in [Cmds -> Threads \ {Loop}]

VARIABLES first, last, mustwake,   \* the SvcCommandQueue
          efd,         \* whether its eventfd is readable
          pc,          \* where each thread is
          node,        \* the node each thread is appending
          ep, ptr, nxt,\* locals of SOM_reserve and enqueueLockfree: ep, last, next
          gotefd,      \* whether this round's events include the eventfd
          torun,       \* local of runCommands
          victim,      \* the node runCommands is retiring
          issued,      \* history: the commands of each thread, in its order
          executed     \* history: the nodes executed, oldest first

cq == <<first, last, mustwake, efd>>
local == <<node, ep, ptr, nxt>>
loopVars == <<gotefd, torun, victim>>
hist == <<issued, executed>>
vars == <<soVars, cq, pc, local, loopVars, hist>>

Enqueuers == Threads \ {Loop}
Goto(t, l) == pc' = [pc EXCEPT ![t] = l]

initCommandQueue ==
    /\ first = Dummy0 /\ last = Dummy0
    /\ mustwake = TRUE /\ efd = FALSE
    /\ mem = [o \in Objs |-> IF o = Dummy0 THEN "live" ELSE "none"]
    /\ next = [o \in Objs |-> NULL]
    /\ created = [o \in Objs |-> 0] /\ retiredAt = [o \in Objs |-> 0]

Init ==
    /\ SOM_init
    /\ initCommandQueue
    /\ pc = [t \in Threads |-> IF t = Loop THEN "wait" ELSE "idle"]
    /\ node = [t \in Threads |-> NULL] /\ ep = [t \in Threads |-> 0]
    /\ ptr = [t \in Threads |-> NULL] /\ nxt = [t \in Threads |-> NULL]
    /\ gotefd = FALSE /\ torun = NULL /\ victim = NULL
    /\ issued = [t \in Threads |-> <<>>] /\ executed = <<>>

-----------------------------------------------------------------------------
(* enqueueLockfree(q, node), on any thread *)

Reserve_epoch(t) ==
    /\ pc[t] = "epoch"
    /\ ep' = [ep EXCEPT ![t] = epoch]
    /\ Goto(t, "announce")
    /\ UNCHANGED <<soVars, cq, node, ptr, nxt, loopVars, hist>>

Reserve_announce(t) ==
    /\ pc[t] = "announce"
    /\ SOM_announce(t, ep[t])
    /\ Goto(t, "load")
    /\ UNCHANGED <<cq, local, loopVars, hist>>

Reserve_load(t) ==
    /\ pc[t] = "load"
    /\ ptr' = [ptr EXCEPT ![t] = last]
    /\ Goto(t, "confirm")
    /\ UNCHANGED <<soVars, cq, node, ep, nxt, loopVars, hist>>

Reserve_confirm(t) ==
    /\ pc[t] = "confirm"
    /\ Goto(t, IF SOM_confirmed(ep[t]) THEN "next" ELSE "epoch")
    /\ UNCHANGED <<soVars, cq, local, loopVars, hist>>

\* next = last->base.next.
Enqueue_next(t) ==
    /\ pc[t] = "next"
    /\ nxt' = [nxt EXCEPT ![t] = next[ptr[t]]]
    /\ Goto(t, IF next[ptr[t]] = NULL THEN "link" ELSE "help")
    /\ UNCHANGED <<soVars, cq, node, ep, ptr, loopVars, hist>>

\* compare_exchange(&last->base.next, 0, node).
Enqueue_link(t) ==
    /\ pc[t] = "link"
    /\ IF next[ptr[t]] = NULL
       THEN next' = [next EXCEPT ![ptr[t]] = node[t]] /\ Goto(t, "swing")
       ELSE UNCHANGED next /\ Goto(t, "epoch")
    /\ UNCHANGED <<epoch, res, ncreated, created, retiredAt, mem, lists,
                   cq, local, loopVars, hist>>

\* q->last lags behind: compare_exchange(&q->last, last, next).
Enqueue_help(t) ==
    /\ pc[t] = "help"
    /\ last' = IF last = ptr[t] THEN nxt[t] ELSE last
    /\ Goto(t, "epoch")
    /\ UNCHANGED <<soVars, first, mustwake, efd, local, loopVars, hist>>

\* compare_exchange(&q->last, last, node).
Enqueue_swing(t) ==
    /\ pc[t] = "swing"
    /\ last' = IF last = ptr[t] THEN node[t] ELSE last
    /\ Goto(t, "release")
    /\ UNCHANGED <<soVars, first, mustwake, efd, local, loopVars, hist>>

\* SOM_release(); the locals are dead from here on, except the loop's dummy.
Enqueue_release(t) ==
    /\ pc[t] = "release"
    /\ SOM_release(t)
    /\ node' = [node EXCEPT ![t] = IF t = Loop THEN @ ELSE NULL]
    /\ ep' = [ep EXCEPT ![t] = 0]
    /\ ptr' = [ptr EXCEPT ![t] = NULL]
    /\ nxt' = [nxt EXCEPT ![t] = NULL]
    /\ Goto(t, IF t = Loop THEN "cut" ELSE "flag")
    /\ UNCHANGED <<cq, loopVars, hist>>

EnqueueLockfree(t) ==
    \/ Reserve_epoch(t) \/ Reserve_announce(t) \/ Reserve_load(t)
    \/ Reserve_confirm(t) \/ Enqueue_next(t) \/ Enqueue_link(t)
    \/ Enqueue_help(t) \/ Enqueue_swing(t) \/ Enqueue_release(t)

-----------------------------------------------------------------------------
(* enqueueCommand(q, func, arg), on a thread other than the target *)

CmdsOf(t) == {c \in Cmds : Owner[c] = t}
Unused(S) == {o \in S : mem[o] = "none"}

\* SharedObj_create; the commands of a thread are alike, so any is the next.
enqueueCommand(t) ==
    /\ pc[t] = "idle" /\ Unused(CmdsOf(t)) # {}
    /\ LET c == CHOOSE c \in Unused(CmdsOf(t)) : TRUE
       IN  /\ SharedObj_create(t, c)
           /\ node' = [node EXCEPT ![t] = c]
           /\ issued' = [issued EXCEPT ![t] = Append(@, c)]
    /\ Goto(t, "epoch")
    /\ UNCHANGED <<cq, ep, ptr, nxt, loopVars, executed>>

\* mustwake = atomic_exchange_explicit(&q->mustwake, 0, ...).
enqueueCommand_flag(t) ==
    /\ pc[t] = "flag"
    /\ Goto(t, IF mustwake THEN "wake" ELSE "idle")
    /\ mustwake' = FALSE
    /\ UNCHANGED <<soVars, first, last, efd, local, loopVars, hist>>

\* write(q->efd, &d, sizeof d).
enqueueCommand_wake(t) ==
    /\ pc[t] = "wake"
    /\ efd' = TRUE
    /\ Goto(t, "idle")
    /\ UNCHANGED <<soVars, first, last, mustwake, local, loopVars, hist>>

EnqueuerStep(t) ==
    EnqueueLockfree(t) \/ enqueueCommand_flag(t) \/ enqueueCommand_wake(t)

-----------------------------------------------------------------------------
(* The service thread: processEvents(); runCommands(); ... *)

processEvents_efd ==
    /\ pc[Loop] = "wait" /\ efd
    /\ gotefd' = TRUE
    /\ Goto(Loop, "clear")
    /\ UNCHANGED <<soVars, cq, local, torun, victim, hist>>

\* Another event source ends the wait; see CommandQueueLocked.
processEvents_other ==
    /\ pc[Loop] = "wait"
    /\ gotefd' = FALSE
    /\ Goto(Loop, "clear")
    /\ UNCHANGED <<soVars, cq, local, torun, victim, hist>>

clearMustWake ==
    /\ pc[Loop] = "clear"
    /\ mustwake' = FALSE
    /\ Goto(Loop, "handle")
    /\ UNCHANGED <<soVars, first, last, efd, local, loopVars, hist>>

readCommandPipe ==
    /\ pc[Loop] = "handle"
    /\ efd' = IF gotefd THEN FALSE ELSE efd
    /\ gotefd' = FALSE
    /\ Goto(Loop, "first")
    /\ UNCHANGED <<soVars, first, last, mustwake, local, torun, victim, hist>>

\* Mutant: the old dummy is taken for the first command.
runCommands_first_dummy ==
    /\ pc[Loop] = "first"
    /\ torun' = IF next[first] = NULL THEN NULL ELSE first
    /\ Goto(Loop, "setwake")
    /\ UNCHANGED <<soVars, cq, local, gotefd, victim, hist>>

\* torun = q->first->base.next.
runCommands_first ==
    /\ pc[Loop] = "first"
    /\ torun' = next[first]
    /\ Goto(Loop, "setwake")
    /\ UNCHANGED <<soVars, cq, local, gotefd, victim, hist>>

\* atomic_store(&q->mustwake, 1); if (!torun) return.
runCommands_setwake ==
    /\ pc[Loop] = "setwake"
    /\ mustwake' = TRUE
    /\ Goto(Loop, IF torun = NULL THEN "wait" ELSE "create")
    /\ UNCHANGED <<soVars, first, last, efd, local, loopVars, hist>>

\* dummy = SharedObj_create(...); enqueueLockfree(q, dummy) follows.
runCommands_create ==
    /\ pc[Loop] = "create" /\ Unused(Dummies) # {}
    /\ LET d == CHOOSE d \in Unused(Dummies) : TRUE
       IN  SharedObj_create(Loop, d) /\ node' = [node EXCEPT ![Loop] = d]
    /\ Goto(Loop, "epoch")
    /\ UNCHANGED <<cq, ep, ptr, nxt, loopVars, hist>>

\* SharedObj_retire(q->first); q->first = dummy.  Only this thread uses first.
runCommands_cut ==
    /\ pc[Loop] = "cut"
    /\ victim' = first
    /\ first' = node[Loop]
    /\ Goto(Loop, "stamp")
    /\ UNCHANGED <<soVars, last, mustwake, efd, local, gotefd, torun, hist>>

\* torun->cmd.func(torun->cmd.arg), unless torun is the dummy.
runCommands_exec ==
    /\ pc[Loop] = "exec" /\ torun # node[Loop]
    /\ executed' = Append(executed, torun)
    /\ Goto(Loop, "after")
    /\ UNCHANGED <<soVars, cq, local, loopVars, issued>>

\* next = torun->base.next; SharedObj_retire(torun) follows.
runCommands_after ==
    /\ pc[Loop] = "after"
    /\ victim' = torun
    /\ torun' = next[torun]
    /\ Goto(Loop, "stamp")
    /\ UNCHANGED <<soVars, cq, local, gotefd, hist>>

runCommands_done ==
    /\ pc[Loop] = "exec" /\ torun = node[Loop]
    /\ torun' = NULL /\ node' = [node EXCEPT ![Loop] = NULL]
    /\ Goto(Loop, "wait")
    /\ UNCHANGED <<soVars, cq, ep, ptr, nxt, gotefd, victim, hist>>

retire_stamp ==
    /\ pc[Loop] = "stamp"
    /\ Retire_stamp(victim)
    /\ Goto(Loop, "push")
    /\ UNCHANGED <<cq, local, loopVars, hist>>

retire_push ==
    /\ pc[Loop] = "push"
    /\ Retire_push(Loop, victim)
    /\ victim' = NULL
    /\ Goto(Loop, "scan")
    /\ UNCHANGED <<cq, local, gotefd, torun, hist>>

retire_scan ==
    /\ pc[Loop] = "scan" /\ Scanning(Loop)
    /\ Scan_begin(Loop) \/ Scan_compare(Loop) \/ Scan_free(Loop)
    /\ UNCHANGED <<cq, pc, local, loopVars, hist>>

retire_done ==
    /\ pc[Loop] = "scan" /\ ~Scanning(Loop)
    /\ Goto(Loop, "exec")
    /\ UNCHANGED <<soVars, cq, local, loopVars, hist>>

LoopStep ==
    \/ processEvents_efd \/ clearMustWake \/ readCommandPipe
    \/ runCommands_first \/ runCommands_setwake \/ runCommands_create
    \/ EnqueueLockfree(Loop) \/ runCommands_cut
    \/ runCommands_exec \/ runCommands_after \/ runCommands_done
    \/ retire_stamp \/ retire_push \/ retire_scan \/ retire_done

Next == \/ \E t \in Enqueuers : enqueueCommand(t) \/ EnqueuerStep(t)
        \/ LoopStep
        \/ processEvents_other

Spec == Init /\ [][Next]_vars

\* Threads keep running; a sleeping loop has only the enqueuers to wake it.
FairSpec == /\ Spec
            /\ \A t \in Enqueuers : WF_vars(EnqueuerStep(t))
            /\ WF_vars(LoopStep)

-----------------------------------------------------------------------------
(* Properties. *)

Elems(s) == {s[i] : i \in DOMAIN s}

TypeOK ==
    /\ epoch \in 0 .. EpochMod - 1
    /\ first \in Dummies /\ last \in Objs
    /\ next \in [Objs -> Objs \cup {NULL}]
    /\ mem \in [Objs -> {"none", "live", "freed"}]
    /\ torun \in Objs \cup {NULL} /\ victim \in Objs \cup {NULL}
    /\ node \in [Threads -> Objs \cup {NULL}]

\* The objects a thread dereferences in its next step.
Touches(t) ==
    CASE pc[t] \in {"next", "link"} -> {ptr[t]}
      [] pc[t] = "first" -> {first}
      [] pc[t] \in {"exec", "after"} -> {torun}
      [] pc[t] \in {"stamp", "push"} -> {victim}
      [] pc[t] = "scan" /\ Scanning(t) -> {scan[t].i, scan[t].p} \ {NULL}
      [] OTHER -> {}

\* No thread ever dereferences a node that was freed, whatever the enqueuers
\* do between loading q->last and using it: SOM_reserve protects the node from
\* the scan in SharedObj_retire.
NoUseAfterFree == \A t \in Threads, o \in Objs : o \in Touches(t) => mem[o] = "live"

IndexOf(s, x) == CHOOSE i \in DOMAIN s : s[i] = x

\* The service thread executes commands only, none twice, and those of one
\* thread in the order that thread scheduled them.
ExecutedInOrder ==
    /\ Elems(executed) \subseteq Cmds
    /\ \A i, j \in DOMAIN executed : i < j => executed[i] # executed[j]
    /\ \A t \in Enqueuers : \A i, j \in DOMAIN executed :
          i < j /\ Owner[executed[i]] = t /\ Owner[executed[j]] = t
             => IndexOf(issued[t], executed[i]) < IndexOf(issued[t], executed[j])

\* A scheduled command is eventually executed on the target thread: "The given
\* function is scheduled for execution on the worker thread" (service.h).
ScheduledEventuallyRuns ==
    \A c \in Cmds : mem[c] = "live" ~> c \in Elems(executed)
=============================================================================
