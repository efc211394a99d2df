----------------------------- MODULE SharedObj -----------------------------
(***************************************************************************)
(* The epoch based memory reclamation of sharedobj.c.  An object carries   *)
(* the epoch it was created and the epoch it was retired in.  A thread     *)
(* announces the epoch in which it loads a shared reference; a retired     *)
(* object is freed once no announced epoch lies in the object's lifetime.  *)
(*                                                                         *)
(* The operators are the atomic steps of the functions of sharedobj.c.     *)
(* The module of a client (CommandQueue) puts them in sequence and says    *)
(* what else a step does.                                                  *)
(***************************************************************************)
EXTENDS Integers, Sequences, FiniteSets

CONSTANTS Objs,        \* every object ever allocated; no address is reused
          Threads,     \* the threads that called SOM_registerThread
          NULL,
          IntEpoch,    \* objects a thread creates per epoch (128 in service.c)
          IntDestroy,  \* objects a thread retires per scan (1024 in service.c)
          EpochMod,    \* the epoch counts modulo this (2^32)
          ResGarbage   \* what malloc may leave in an entry of res

ASSUME SharedObjAssumption ==
    /\ NULL \notin Objs
    /\ IntEpoch \in Nat \ {0} /\ IntDestroy \in Nat \ {0} /\ EpochMod \in Nat \ {0}
    /\ ResGarbage \subseteq 0 .. EpochMod - 1

\* Fewer objects are ever created than the epoch has values.  The epoch advances
\* at most once per object, so it does not come round to an old one.
EpochNeverWraps == IsFiniteSet(Objs) /\ Cardinality(Objs) <= EpochMod

VARIABLES epoch,       \* the global epoch
          res,         \* res[t]: the epoch thread t announces
          ncreated,    \* thread local ncreated
          created,     \* SharedObj.created of each object
          retiredAt,   \* SharedObj.retired of each object
          next,        \* SharedObj.next, also the link of the client's list
          mem,         \* "none", "live" or "freed"
          retired,     \* thread local head of the list of retired objects
          nretired,    \* thread local nretired
          scan         \* thread local i, p, n and the threads left to compare

objects == <<created, retiredAt, next, mem>>
lists == <<retired, nretired, scan>>
soVars == <<epoch, res, ncreated, objects, lists>>

Idle == [i |-> NULL, p |-> NULL, n |-> NULL, left |-> {}, begun |-> FALSE]

\* SOM_init leaves res uninitialized: an entry holds what malloc left there.
SOM_init ==
    /\ epoch = 0
    /\ res \in [Threads -> ResGarbage]
    /\ ncreated = [t \in Threads |-> 0]
    /\ retired = [t \in Threads |-> NULL]
    /\ nretired = [t \in Threads |-> 0]
    /\ scan = [t \in Threads |-> Idle]

SharedObj_create(t, o) ==
    /\ mem[o] = "none"
    /\ \/ /\ ncreated[t] + 1 = IntEpoch
          /\ ncreated' = [ncreated EXCEPT ![t] = 0]
          /\ epoch' = (epoch + 1) % EpochMod
       \/ /\ ncreated[t] + 1 # IntEpoch
          /\ ncreated' = [ncreated EXCEPT ![t] = @ + 1]
          /\ UNCHANGED epoch
    /\ mem' = [mem EXCEPT ![o] = "live"]
    /\ next' = [next EXCEPT ![o] = NULL]
    /\ created' = [created EXCEPT ![o] = epoch]
    /\ retiredAt' = [retiredAt EXCEPT ![o] = (epoch - 1) % EpochMod]
    /\ UNCHANGED <<res, lists>>

-----------------------------------------------------------------------------
(* SOM_reserve(ref), SOM_release(): the steps that write shared state *)

SOM_announce(t, ep) ==
    /\ res' = [res EXCEPT ![t] = ep]
    /\ UNCHANGED <<epoch, ncreated, objects, lists>>

\* "if (ep == atomic_load_explicit(&epoch, ...)) return p".
SOM_confirmed(ep) == ep = epoch

SOM_release(t) ==
    /\ res' = [res EXCEPT ![t] = (epoch - 1) % EpochMod]
    /\ UNCHANGED <<epoch, ncreated, objects, lists>>

-----------------------------------------------------------------------------
(* SharedObj_retire(self) *)

\* The first store: the lifetime of the object ends in this epoch.
Retire_stamp(o) ==
    /\ retiredAt' = [retiredAt EXCEPT ![o] = epoch]
    /\ UNCHANGED <<epoch, res, ncreated, created, next, mem, lists>>

\* The object heads the retired list; every IntDestroy objects it is scanned.
Retire_push(t, o) ==
    /\ next' = [next EXCEPT ![o] = retired[t]]
    /\ retired' = [retired EXCEPT ![t] = o]
    /\ IF nretired[t] + 1 = IntDestroy
       THEN /\ nretired' = [nretired EXCEPT ![t] = 0]
            /\ scan' = [scan EXCEPT ![t] = [Idle EXCEPT !.i = o]]
       ELSE /\ nretired' = [nretired EXCEPT ![t] = @ + 1]
            /\ UNCHANGED scan
    /\ UNCHANGED <<epoch, res, ncreated, created, retiredAt, mem>>

Scanning(t) == scan[t].i # NULL

\* The head of the loop body: remember the next object.
Scan_begin(t) ==
    /\ ~scan[t].begun
    /\ scan' = [scan EXCEPT ![t].n = next[scan[t].i], ![t].left = Threads,
                            ![t].begun = TRUE]
    /\ UNCHANGED <<epoch, res, ncreated, objects, retired, nretired>>

\* Mutant: the epoch an object was created in is taken for outside its lifetime.
Conflicts_exclusive(e, o) ==
    IF created[o] > retiredAt[o] THEN e > created[o] \/ e <= retiredAt[o]
                                 ELSE e > created[o] /\ e <= retiredAt[o]

\* Does the announced epoch e lie in the lifetime of o (which may wrap)?
Conflicts(e, o) ==
    IF created[o] > retiredAt[o] THEN e >= created[o] \/ e <= retiredAt[o]
                                 ELSE e >= created[o] /\ e <= retiredAt[o]

\* The scan goes on with the object after the current one.
Advance(s, prev) == [Idle EXCEPT !.i = s.n, !.p = prev]

\* Compare with one thread: on a conflict the object stays in the list.
Scan_compare(t) ==
    LET s == scan[t]
        u == CHOOSE u \in s.left : TRUE
    IN  /\ s.begun /\ s.left # {}
        /\ scan' = [scan EXCEPT ![t] = IF Conflicts(res[u], s.i)
                                       THEN Advance(s, s.i)
                                       ELSE [s EXCEPT !.left = @ \ {u}]]
        /\ UNCHANGED <<epoch, res, ncreated, objects, retired, nretired>>

\* No conflict with any thread: unlink the object and free it.
Scan_free(t) ==
    LET s == scan[t]
    IN  /\ s.begun /\ s.left = {}
        /\ IF s.p # NULL
           THEN next' = [next EXCEPT ![s.p] = s.n] /\ UNCHANGED retired
           ELSE retired' = [retired EXCEPT ![t] = s.n] /\ UNCHANGED next
        /\ mem' = [mem EXCEPT ![s.i] = "freed"]
        /\ scan' = [scan EXCEPT ![t] = Advance(s, s.p)]
        /\ UNCHANGED <<epoch, res, ncreated, created, retiredAt, nretired>>
=============================================================================
