------------------------------ MODULE RateLimit ------------------------------
(***************************************************************************)
(* One limit of a PSC_RateLimit and its entry for one key (ratelimit.c):   *)
(* a ring of counters, one per time slot, that threads age and count in    *)
(* under the entry's lock.  The limits of an entry are independent of each *)
(* other, and so are the entries of different keys.                        *)
(*                                                                         *)
(* Slots and counters are uint16_t in the code, here modulo Wrap.  The     *)
(* time is read once, at the start of PSC_RateLimit_check, before the lock *)
(* is taken.                                                               *)
(***************************************************************************)
EXTENDS Integers, FiniteSets, FiniteSetsExt

CONSTANTS Checkers,
          Seconds, Limit, \* the arguments of PSC_RateLimitOpts_addLimit
          MAXCOUNTS,      \* the longest ring; 512 in the code
          Wrap,           \* the range of uint16_t; 2^16 in the code
          Spin,           \* TRUE: the atomic_flag in the entry is its lock,
                          \* FALSE: a mutex outside of it
          Cleanup,        \* whether other keys' checks run out cleancount
          MaxClock,       \* bound: when time stops
          MaxGap          \* bound: the longest time between two checks

\* PSC_RateLimitOpts_addLimit.
Res == (Seconds + MAXCOUNTS - 1) \div MAXCOUNTS
NCounts == (Seconds + Res - 1) \div Res

RateLimitAssumption ==
    /\ Seconds \in 1 .. Wrap - 1 /\ Limit \in 1 .. Wrap - 1 /\ Checkers # {}
    /\ MAXCOUNTS \in Nat \ {0} /\ Wrap \in Nat \ {0} /\ MaxGap \in Nat
    /\ Spin \in BOOLEAN /\ Cleanup \in BOOLEAN

VARIABLES clock,   \* CLOCK_MONOTONIC, in seconds
          lock,    \* Entry.lock, or the mutex of the EntryList
          last, total, countpos, counts,   \* Entry
          checkpc, ts, \* per thread: where it is, and the time it read
          seen,    \* history: when the last check began
          allowed  \* history: the actions allowed lately, as <<slot, number>>

ratevars == <<clock, lock, last, total, countpos, counts, checkpc, ts, seen, allowed>>
entry == <<last, total, countpos, counts>>

Pos == 0 .. NCounts - 1
Slot(t) == t \div Res
Now(t) == Slot(t) % Wrap

Zeroed(now) == /\ last' = now /\ total' = 0 /\ countpos' = 0
               /\ counts' = [p \in Pos |-> 0]

\* A new entry, made by the first check.  (That it has the time of that check in
\* last makes no difference: without a count, checkLimit sets last.)
RateInit == /\ clock = 0 /\ lock = FALSE
            /\ last = 0 /\ total = 0 /\ countpos = 0 /\ counts = [p \in Pos |-> 0]
            /\ checkpc = [t \in Checkers |-> "idle"] /\ ts = [t \in Checkers |-> 0]
            /\ seen = 0 /\ allowed = {}

Tick == /\ clock < MaxClock /\ clock - seen < MaxGap
        /\ clock' = clock + 1
        /\ UNCHANGED <<lock, entry, checkpc, ts, seen, allowed>>

-----------------------------------------------------------------------------
(* PSC_RateLimit_check by thread t *)

\* Every 2000th check first removes the entries in which nothing counts any
\* more; the key then gets a new one.  (Without a time nothing is done: the check
\* is refused.)
PSC_RateLimit_check(t) ==
    /\ checkpc[t] = "idle"
    /\ ts' = [ts EXCEPT ![t] = clock] /\ seen' = clock
    /\ \/ UNCHANGED entry
       \/ /\ Cleanup /\ Now(clock) - last >= NCounts
          /\ Zeroed(Now(clock))
    /\ checkpc' = [checkpc EXCEPT ![t] = "lock"]
    /\ UNCHANGED <<clock, lock, allowed>>

checkLimit_lock(t) ==
    /\ checkpc[t] = "lock" /\ ~lock
    /\ lock' = TRUE
    /\ checkpc' = [checkpc EXCEPT ![t] = "age"]
    /\ UNCHANGED <<clock, entry, ts, seen, allowed>>

\* Mutant: the slot that is reused keeps its count.
Rotate_keep(now) ==
    LET steps == (now - last) % Wrap
        dropped == {(countpos + i) % NCounts : i \in 1 .. steps}
    IN  /\ last' = now
        /\ countpos' = (countpos + steps) % NCounts
        /\ UNCHANGED counts
        /\ total' = (total - MapThenSumSet(LAMBDA p : counts[p], dropped)) % Wrap

\* "for (; e->last != now; ++e->last)": step the ring on, and drop the counts
\* of the slots that are reused.
Rotate(now) ==
    LET steps == (now - last) % Wrap
        dropped == {(countpos + i) % NCounts : i \in 1 .. steps}
    IN  /\ last' = now
        /\ countpos' = (countpos + steps) % NCounts
        /\ counts' = [p \in Pos |-> IF p \in dropped THEN 0 ELSE counts[p]]
        /\ total' = (total - MapThenSumSet(LAMBDA p : counts[p], dropped)) % Wrap

\* Age the ring.  The memset of an outdated entry clears its lock, too.
checkLimit_age(t) ==
    /\ checkpc[t] = "age"
    /\ LET now == Now(ts[t])
       IN  \/ /\ total # 0 /\ now - last >= NCounts
              /\ Zeroed(now)
              /\ lock' = (lock /\ ~Spin)
           \/ total # 0 /\ now - last < NCounts /\ Rotate(now) /\ UNCHANGED lock
           \/ total = 0 /\ last' = now /\ UNCHANGED <<total, countpos, counts, lock>>
    /\ checkpc' = [checkpc EXCEPT ![t] = "test"]
    /\ UNCHANGED <<clock, ts, seen, allowed>>

checkLimit_test(t) ==
    /\ checkpc[t] = "test"
    /\ checkpc' = [checkpc EXCEPT ![t] = IF total < Limit THEN "count" ELSE "reject"]
    /\ UNCHANGED <<clock, lock, entry, ts, seen, allowed>>

\* One more action in a slot.  The history forgets what no window that ends with
\* this slot or later contains.
Allow(s) == {a \in allowed : a[1] + NCounts > s}
               \cup {<<s, Cardinality({a \in allowed : a[1] = s})>>}

checkLimit_count(t) ==
    /\ checkpc[t] = "count"
    /\ counts' = [counts EXCEPT ![countpos] = (@ + 1) % Wrap]
    /\ total' = (total + 1) % Wrap
    /\ allowed' = Allow(Slot(ts[t]))
    /\ checkpc' = [checkpc EXCEPT ![t] = "unlock"]
    /\ UNCHANGED <<clock, lock, last, countpos, ts, seen>>

checkLimit_unlock(t) ==
    /\ checkpc[t] \in {"unlock", "reject"}
    /\ lock' = FALSE
    /\ checkpc' = [checkpc EXCEPT ![t] = "idle"]
    /\ UNCHANGED <<clock, entry, ts, seen, allowed>>

Check(t) == \/ PSC_RateLimit_check(t) \/ checkLimit_lock(t) \/ checkLimit_age(t)
            \/ checkLimit_test(t) \/ checkLimit_count(t) \/ checkLimit_unlock(t)

RateNext == Tick \/ \E t \in Checkers : Check(t)

RateSpec == RateInit /\ [][RateNext]_ratevars

-----------------------------------------------------------------------------
(* Properties. *)

RateTypeOK ==
    /\ clock \in Nat /\ lock \in BOOLEAN
    /\ last \in Nat /\ total \in Nat /\ countpos \in Pos /\ counts \in [Pos -> Nat]
    /\ checkpc \in [Checkers -> {"idle", "lock", "age", "test", "count", "unlock", "reject"}]
    /\ ts \in [Checkers -> Nat] /\ seen \in Nat
    /\ allowed \subseteq Nat \X Nat /\ IsFiniteSet(allowed)

\* The actions allowed in the window of NCounts slots that ends with slot s.
InWindow(s) == Cardinality({a \in allowed : a[1] <= s /\ a[1] + NCounts > s})

\* No window of the limit's length holds more than Limit allowed actions:
\* there is "a maximum number of actions allowed within this time period"
\* (ratelimit.h).
WithinLimit == \A s \in 0 .. Slot(clock) : InWindow(s) <= Limit

\* An action is rejected only if its window is full: PSC_RateLimit_check
\* returns "1 if the action is currently allowed" (ratelimit.h).
RejectsOnlyAtLimit ==
    \A t \in Checkers : checkpc[t] = "reject" => InWindow(Slot(ts[t])) >= Limit

\* While nobody is in the middle of it, the entry's total is the sum of its
\* counters.
TotalIsSum == ~lock => total = MapThenSumSet(LAMBDA p : counts[p], Pos)

\* In a window no more actions than the limit are allowed, one is rejected only
\* at the limit, and the total is the sum of the counts still valid.
LimitExact == WithinLimit /\ RejectsOnlyAtLimit /\ TotalIsSum

-----------------------------------------------------------------------------
(* The inductive invariant of the proof of LimitExact for one thread *)

\* How far the position p is behind c in a ring of n; the actions in A of slot s, and
\* those in the n slots up to slot s.
AgeIn(n, c, p) == IF p <= c THEN c - p ELSE c - p + n
InSlot(A, s) == {a \in A : a[1] = s}
SinceIn(n, A, s) == {a \in A : a[1] + n > s}

\* The counters f of a ring of n, with c the current one, count the actions in A, the
\* latest of which were in slot s.
RingCounts(n, A, s, c, f) ==
    /\ A \subseteq Nat \X Nat /\ IsFiniteSet(A)
    /\ \A a \in A : a[1] <= s
    /\ \A p \in 0 .. n - 1 : f[p] = Cardinality(InSlot(A, s - AgeIn(n, c, p)))

\* The entry is what counting the allowed actions up to slot s gives.
RingFits(s) == /\ last = s % Wrap
               /\ RingCounts(NCounts, allowed, s, countpos, counts)
               /\ total = Cardinality(SinceIn(NCounts, allowed, s))

\* The ring was aged for the time read last, or is still to be.
Aged(t) == \E s \in 0 .. Slot(ts[t]) :
              /\ RingFits(s) /\ Slot(ts[t]) - s < Wrap
              /\ checkpc[t] \notin {"lock", "age"} => s = Slot(ts[t])

\* The actions of a slot are numbered from 0.
NumberedIn(A) == \A a \in A : a[2] < Cardinality(InSlot(A, a[1]))

\* What holds of the only thread t that checks.
Checking(t) == /\ ts[t] = seen /\ Aged(t)
               /\ checkpc[t] = "count" => total < Limit
               /\ checkpc[t] = "reject" => total >= Limit

RateInv == /\ RateTypeOK /\ NumberedIn(allowed) /\ WithinLimit
           /\ seen <= clock /\ clock - seen <= MaxGap
           /\ \A t \in Checkers : Checking(t)
=============================================================================
