---------------------------- MODULE RunOnThread ----------------------------
(***************************************************************************)
(* What PSC_Service_runOnThread promises for one target thread: a function *)
(* scheduled by another thread is executed on the target thread, exactly   *)
(* once, in the order the functions were scheduled.                        *)
(***************************************************************************)
EXTENDS Naturals, Sequences

CONSTANT Cmds        \* the commands (function and argument) ever scheduled

VARIABLES pending,   \* commands scheduled and not yet executed
          executed   \* commands executed, oldest first

rvars == <<pending, executed>>

Known == {pending[i] : i \in DOMAIN pending} \cup {executed[i] : i \in DOMAIN executed}

RInit == pending = <<>> /\ executed = <<>>

Schedule(c) == /\ c \notin Known
               /\ pending' = Append(pending, c)
               /\ UNCHANGED executed

Execute == /\ pending # <<>>
           /\ executed' = Append(executed, Head(pending))
           /\ pending' = Tail(pending)

RSpec == RInit /\ [][(\E c \in Cmds : Schedule(c)) \/ Execute]_rvars
=============================================================================
