------------------------- MODULE CommandQueueProofs -------------------------
(***************************************************************************)
(* Proofs about the lock-free command queue with the reclamation of its    *)
(* nodes (modules CommandQueue and SharedObj), for any number of threads,  *)
(* commands and dummy nodes and any intervals of epochs and scans:         *)
(* commands are executed once and in order, and, while the epoch does not  *)
(* wrap around, no thread dereferences a freed node.                       *)
(*                                                                         *)
(* The invariant speaks of the order in which nodes were linked, which the *)
(* state does not keep once nodes are retired (SharedObj_retire uses the   *)
(* same field for its own list).  So it says that there is such an order,  *)
(* pos, that fits the state: Fits(pos) below.  A node that an enqueuer     *)
(* links behind one already retired, whose overwritten link it takes for   *)
(* the end of the queue, gets no place in it: its command is lost, and     *)
(* neither the order of the others nor the memory suffers from it.         *)
(***************************************************************************)
EXTENDS CommandQueue, FiniteSetTheorems, SequenceTheorems, TLAPS

\* The places of a thread that appends: its node is not linked yet, and it has
\* loaded q->last.
Unlinked == {"epoch", "announce", "load", "confirm", "next", "link", "help"}
Pointing == {"confirm", "next", "link", "help", "swing"}
Appending == Unlinked \cup {"swing", "release"}

\* The places of the loop behind the cut, in which it works on what it cut off.
Working == {"stamp", "push", "scan", "exec", "after"}
LoopPlaces == {"wait", "clear", "handle", "first", "setwake", "create", "cut"}
              \cup Appending \cup Working
EnqueuerPlaces == {"idle", "flag", "wake"} \cup Appending

\* The oldest node that is not in the hands of SharedObj_retire.
Low == CASE pc[Loop] \in {"stamp", "push"} -> victim
         [] pc[Loop] \in {"scan", "exec", "after"} -> torun
         [] OTHER -> first

ObjOrNull == Objs \cup {NULL}
Epochs == 0 .. EpochMod - 1

MemTypes ==
    /\ epoch \in Epochs /\ res \in [Threads -> Epochs]
    /\ ncreated \in [Threads -> Int] /\ nretired \in [Threads -> Int]
    /\ created \in [Objs -> Int] /\ retiredAt \in [Objs -> Int]
    /\ next \in [Objs -> ObjOrNull]
    /\ mem \in [Objs -> {"none", "live", "freed"}]
    /\ retired \in [Threads -> ObjOrNull]
    /\ scan \in [Threads -> [i : ObjOrNull, p : ObjOrNull, n : ObjOrNull,
                             left : SUBSET Threads, begun : BOOLEAN]]

QueueTypes ==
    /\ first \in Dummies /\ last \in Objs
    /\ torun \in ObjOrNull /\ victim \in ObjOrNull
    /\ node \in [Threads -> ObjOrNull] /\ ep \in [Threads -> Epochs]
    /\ ptr \in [Threads -> ObjOrNull] /\ nxt \in [Threads -> ObjOrNull]
    /\ issued \in [Threads -> Seq(Cmds)] /\ executed \in Seq(Objs)
    /\ pc \in [Threads -> LoopPlaces \cup EnqueuerPlaces]
    /\ pc[Loop] \in LoopPlaces
    /\ \A t \in Enqueuers : pc[t] \in EnqueuerPlaces

-----------------------------------------------------------------------------
(* pos[o] is the place of o in the order in which nodes were linked into the *)
(* queue, 0 if it was not.                                                   *)

\* From Low on the list is intact, and its last node is the last one linked.
ListFits(pos) ==
    /\ Low \in Objs /\ pos[Low] > 0
    /\ pos[Low] <= pos[first] /\ pos[first] <= pos[last]
    /\ \A o, p \in Objs : pos[o] > 0 /\ pos[o] = pos[p] => o = p
    /\ \A o \in Objs : pos[o] >= pos[Low] =>
          /\ mem[o] = "live"
          /\ next[o] # NULL => pos[next[o]] = pos[o] + 1
          /\ next[o] = NULL => \A p \in Objs : pos[p] <= pos[o]

\* Nothing refers to o but who allocated it.
Isolated(pos, o) ==
    /\ pos[o] = 0 /\ next[o] = NULL
    /\ \A p \in Objs : next[p] # o
    /\ retired[Loop] # o
    /\ scan[Loop].i # o /\ scan[Loop].p # o /\ scan[Loop].n # o

NewFits(pos) ==
    /\ \A o \in Objs : mem[o] = "none" => Isolated(pos, o)
    /\ \A t \in Threads : pc[t] \in Unlinked =>
          node[t] \in Objs /\ mem[node[t]] = "live" /\ Isolated(pos, node[t])
    /\ \A t, u \in Threads : pc[t] \in Unlinked /\ pc[u] \in Unlinked /\ t # u
                             => node[t] # node[u]

\* A link or a swing of q->last is to the next node, or too late to matter.
Follows(pos, o, p) == pos[o] = pos[p] + 1 \/ pos[p] < pos[first]

AppenderFits(pos, t) ==
    /\ pc[t] \in Pointing => ptr[t] \in Objs /\ pos[ptr[t]] > 0
    /\ pc[t] = "swing" => node[t] \in Objs /\ Follows(pos, node[t], ptr[t])
    /\ pc[t] = "help" => nxt[t] \in Objs /\ Follows(pos, nxt[t], ptr[t])

AppendFits(pos) == \A t \in Threads : AppenderFits(pos, t)

\* The service thread's own node is always linked to the end.
LoopAppends(pos) ==
    /\ pc[Loop] = "setwake" /\ torun # NULL => pos[torun] = pos[first] + 1
    /\ pc[Loop] \in {"create", "cut"} \cup Appending =>
          torun # NULL /\ pos[torun] = pos[first] + 1
    /\ pc[Loop] \in {"cut"} \cup Appending => node[Loop] \in Dummies
    /\ pc[Loop] \in Pointing =>
          pos[first] <= pos[ptr[Loop]] /\ pos[ptr[Loop]] <= pos[last]
    /\ pc[Loop] \in {"swing", "release", "cut"} => pos[first] < pos[node[Loop]]
    /\ pc[Loop] \in {"release", "cut"} => pos[node[Loop]] <= pos[last]

\* What it cut off are commands, up to its node.
LoopWorks(pos) ==
    /\ pc[Loop] \in Working =>
          /\ torun # NULL /\ first = node[Loop] /\ pos[torun] <= pos[first]
          /\ \A d \in Dummies : pos[torun] <= pos[d] => d = first
    /\ pc[Loop] \in {"stamp", "push"} => victim # NULL /\ pos[torun] = pos[victim] + 1
    /\ pc[Loop] = "after" => torun # first
    /\ pc[Loop] \notin Working =>
          \A d \in Dummies :
             \/ pos[d] <= pos[first]
             \/ d = node[Loop] /\ pc[Loop] \in {"swing", "release", "cut"}

\* Retired nodes: the list goes back in the order of the queue; what is in
\* it was not freed, and nothing is in it twice.
RetiredFits(pos) ==
    LET s == scan[Loop]
        Old(o) == o # NULL => pos[o] < pos[Low] /\ mem[o] = "live"
    IN  /\ Old(retired[Loop]) /\ Old(s.i) /\ Old(s.p) /\ Old(s.n)
        /\ s.i # NULL => pc[Loop] = "scan"
        /\ s.i # NULL /\ s.p = NULL => retired[Loop] = s.i
        /\ s.i # NULL /\ s.p # NULL => next[s.p] = s.i
        /\ s.i # NULL /\ s.n # NULL => s.n = next[s.i]
        /\ \A o \in Objs : pos[o] < pos[Low] /\ next[o] # NULL =>
              /\ pos[next[o]] < pos[o]
              /\ mem[o] = "live" => /\ mem[next[o]] = "live"
                                    /\ next[o] # retired[Loop]
        /\ \A o, p \in Objs : /\ pos[o] < pos[Low] /\ mem[o] = "live" /\ next[o] # NULL
                              /\ pos[p] < pos[Low] /\ mem[p] = "live" /\ next[o] = next[p]
                              => o = p

\* The order of execution is that of the queue, and so is the order in which a
\* thread scheduled what is in it.
OrderFits(pos) ==
    /\ \A i \in DOMAIN executed :
          /\ executed[i] \in Cmds /\ pos[executed[i]] > 0
          /\ pc[Loop] \notin Working => pos[executed[i]] < pos[first]
          /\ pc[Loop] \in Working => pos[executed[i]] <= pos[torun]
          /\ pc[Loop] \in Working \ {"after"} => pos[executed[i]] < pos[torun]
    /\ \A i, j \in DOMAIN executed : i < j => pos[executed[i]] < pos[executed[j]]

IssuedFits(pos) ==
    /\ \A t \in Enqueuers : pc[t] \in Appending =>
          issued[t] # <<>> /\ node[t] = issued[t][Len(issued[t])]
    /\ \A t \in Enqueuers : \A i \in DOMAIN issued[t] :
          Owner[issued[t][i]] = t /\ mem[issued[t][i]] # "none"
    /\ \A t \in Enqueuers : \A i, j \in DOMAIN issued[t] : i < j =>
          /\ issued[t][i] # issued[t][j]
          /\ pos[issued[t][j]] > 0 => pos[issued[t][i]] < pos[issued[t][j]]
    /\ \A c \in Cmds : pos[c] > 0 => \E i \in DOMAIN issued[Owner[c]] : issued[Owner[c]][i] = c

Fits(pos) == /\ MemTypes /\ QueueTypes
             /\ ListFits(pos) /\ NewFits(pos) /\ AppendFits(pos)
             /\ LoopAppends(pos) /\ LoopWorks(pos) /\ RetiredFits(pos)
             /\ OrderFits(pos) /\ IssuedFits(pos)

-----------------------------------------------------------------------------
(* Which variables the parts depend on. *)

LEMMA ListKept ==
    ASSUME NEW pos \in [Objs -> Nat], ListFits(pos),
           Low' = Low, first' = first, last' = last, mem' = mem, next' = next
    PROVE  ListFits(pos)'
BY DEF ListFits

LEMMA NewKept ==
    ASSUME NEW pos \in [Objs -> Nat], NewFits(pos),
           mem' = mem, next' = next, retired' = retired, scan' = scan,
           \A u \in Threads : pc'[u] \in Unlinked => pc[u] \in Unlinked /\ node'[u] = node[u]
    PROVE  NewFits(pos)'
BY DEF NewFits, Isolated

LEMMA LoopAppendsKept ==
    ASSUME NEW pos \in [Objs -> Nat], LoopAppends(pos), last \in Objs, last' \in Objs,
           first \in Objs, ptr \in [Threads -> ObjOrNull], node \in [Threads -> ObjOrNull],
           AppendFits(pos), Loop \in Threads, Dummies \subseteq Objs,
           pc'[Loop] = pc[Loop], torun' = torun, first' = first,
           node'[Loop] = node[Loop], ptr'[Loop] = ptr[Loop], pos[last] <= pos[last']
    PROVE  LoopAppends(pos)'
<1>1. pc[Loop] \in Pointing => pos[ptr[Loop]] \in Nat
  BY DEF AppendFits, AppenderFits
<1>2. pc[Loop] \in {"release", "cut"} => pos[node[Loop]] \in Nat
  BY DEF LoopAppends, Appending
<1>3. pos[last] \in Nat /\ pos[last'] \in Nat
  OBVIOUS
<1> QED
  BY <1>1, <1>2, <1>3 DEF LoopAppends

LEMMA LoopWorksKept ==
    ASSUME NEW pos \in [Objs -> Nat], LoopWorks(pos),
           pc'[Loop] = pc[Loop], torun' = torun, first' = first,
           node'[Loop] = node[Loop], victim' = victim
    PROVE  LoopWorks(pos)'
BY DEF LoopWorks

LEMMA RetiredKept ==
    ASSUME NEW pos \in [Objs -> Nat], RetiredFits(pos),
           Low' = Low, retired' = retired, scan' = scan, next' = next, mem' = mem,
           pc[Loop] = "scan" => pc'[Loop] = "scan"
    PROVE  RetiredFits(pos)'
BY DEF RetiredFits

LEMMA OrderKept ==
    ASSUME NEW pos \in [Objs -> Nat], OrderFits(pos),
           executed' = executed, first' = first, torun' = torun, pc'[Loop] = pc[Loop]
    PROVE  OrderFits(pos)'
BY DEF OrderFits

LEMMA IssuedKept ==
    ASSUME NEW pos \in [Objs -> Nat], IssuedFits(pos), issued' = issued,
           \A o \in Objs : mem[o] # "none" => mem'[o] # "none",
           \A u \in Enqueuers : pc'[u] \in Appending => pc[u] \in Appending /\ node'[u] = node[u],
           Cmds \subseteq Objs, issued \in [Threads -> Seq(Cmds)]
    PROVE  IssuedFits(pos)'
<1>1. \A t \in Enqueuers : \A i \in DOMAIN issued[t] : issued[t][i] \in Objs
  BY DEF Enqueuers
<1> QED
  BY <1>1 DEF IssuedFits

-----------------------------------------------------------------------------
(* Steps of a thread that appends. *)

LEMMA Moved ==
    ASSUME QueueTypes, NEW t \in Threads, NEW l, Goto(t, l),
           t = Loop => l \in LoopPlaces, t # Loop => l \in EnqueuerPlaces
    PROVE  /\ pc' \in [Threads -> LoopPlaces \cup EnqueuerPlaces]
           /\ pc'[Loop] \in LoopPlaces
           /\ \A u \in Enqueuers : pc'[u] \in EnqueuerPlaces
           /\ pc'[t] = l
           /\ \A u \in Threads \ {t} : pc'[u] = pc[u]
BY CommandQueueAssumption DEF QueueTypes, Goto, Enqueuers

\* Places that exclude each other.
LEMMA Apart ==
    /\ Unlinked \cap Working = {} /\ Appending \cap Working = {}
    /\ Unlinked \subseteq Appending
    /\ Appending \subseteq LoopPlaces /\ Appending \subseteq EnqueuerPlaces
    /\ "scan" \notin Appending /\ "stamp" \notin Appending /\ "push" \notin Appending
    /\ "exec" \notin Appending /\ "after" \notin Appending
BY DEF Unlinked, Working, Appending, LoopPlaces, EnqueuerPlaces

LEMMA LowIsFirst == ASSUME pc[Loop] \notin Working PROVE Low = first
BY DEF Low, Working

\* The state that the steps of an appending thread share with the others.
Shared == <<first, mem, next, retired, scan, torun, victim, issued, executed>>

LEMMA AppenderFrame ==
    ASSUME NEW pos \in [Objs -> Nat], NEW t \in Threads, NEW l, Fits(pos),
           Goto(t, l), pc[t] \in Appending, UNCHANGED Shared,
           t = Loop => l \in Appending \cup {"cut"},
           t # Loop => l \in EnqueuerPlaces
    PROVE  /\ Low' = Low /\ (t = Loop => Low = first)
           /\ pc' \in [Threads -> LoopPlaces \cup EnqueuerPlaces]
           /\ pc'[Loop] \in LoopPlaces
           /\ \A u \in Enqueuers : pc'[u] \in EnqueuerPlaces
           /\ pc'[t] = l
           /\ \A u \in Threads \ {t} : pc'[u] = pc[u]
           /\ RetiredFits(pos)' /\ OrderFits(pos)'
<1>0. Loop \in Threads
  BY CommandQueueAssumption
<1>a. /\ pc' \in [Threads -> LoopPlaces \cup EnqueuerPlaces]
      /\ pc'[Loop] \in LoopPlaces
      /\ \A u \in Enqueuers : pc'[u] \in EnqueuerPlaces
      /\ pc'[t] = l
      /\ \A u \in Threads \ {t} : pc'[u] = pc[u]
  <2>1. t = Loop => l \in LoopPlaces
    BY DEF LoopPlaces
  <2> QED BY <2>1, Moved DEF Fits
<1>1. t = Loop => pc[Loop] \notin Working /\ pc'[Loop] \notin Working
  <2>1. "cut" \notin Working
    BY DEF Working
  <2> QED BY <1>a, Apart, <2>1
<1>2. t # Loop => pc'[Loop] = pc[Loop]
  BY <1>0, <1>a
<1>3. /\ first' = first /\ mem' = mem /\ next' = next /\ retired' = retired /\ scan' = scan
      /\ torun' = torun /\ victim' = victim /\ executed' = executed
  BY DEF Shared
<1>4. Low' = Low /\ (t = Loop => Low = first)
  <2>1. CASE t = Loop
    BY <1>1, <1>3, <2>1 DEF Low, Working
  <2>2. CASE t # Loop
    BY <1>2, <1>3, <2>2 DEF Low
  <2> QED BY <2>1, <2>2
<1>5. RetiredFits(pos)'
  <2>1. pc[Loop] = "scan" => pc'[Loop] = "scan"
    BY <1>1, <1>2 DEF Working
  <2> QED BY <1>3, <1>4, <2>1, RetiredKept DEF Fits
<1>6. OrderFits(pos)'
  <2>1. CASE t = Loop
    BY <1>1, <1>3, <2>1 DEF Fits, OrderFits
  <2>2. CASE t # Loop
    BY <1>2, <1>3, <2>2, OrderKept DEF Fits
  <2> QED BY <2>1, <2>2
<1> QED
  BY <1>a, <1>4, <1>5, <1>6

\* Steps before the node is linked: what is left to show.
LEMMA UnlinkedFrame ==
    ASSUME NEW pos \in [Objs -> Nat], NEW t \in Threads, NEW l, Fits(pos),
           Goto(t, l), pc[t] \in Unlinked, l \in Unlinked, UNCHANGED <<Shared, node>>,
           last' \in Objs, pos[last] <= pos[last'], MemTypes',
           ep' \in [Threads -> Epochs],
           ptr' \in [Threads -> ObjOrNull], nxt' \in [Threads -> ObjOrNull],
           \A u \in Threads \ {t} : ptr'[u] = ptr[u] /\ nxt'[u] = nxt[u],
           pc'[t] = l => AppenderFits(pos, t)',
           t = Loop /\ pc'[t] = l => LoopAppends(pos)'
    PROVE  Fits(pos)'
<1>0. Loop \in Threads /\ Enqueuers \subseteq Threads /\ Cmds \subseteq Objs
      /\ Dummies \subseteq Objs
  BY CommandQueueAssumption DEF Enqueuers
<1>a. /\ first' = first /\ mem' = mem /\ next' = next /\ retired' = retired /\ scan' = scan
      /\ torun' = torun /\ victim' = victim /\ executed' = executed /\ node' = node
      /\ issued' = issued
  BY DEF Shared
<1>b. /\ Low' = Low /\ (t = Loop => Low = first)
      /\ pc' \in [Threads -> LoopPlaces \cup EnqueuerPlaces]
      /\ pc'[Loop] \in LoopPlaces
      /\ \A u \in Enqueuers : pc'[u] \in EnqueuerPlaces
      /\ pc'[t] = l
      /\ \A u \in Threads \ {t} : pc'[u] = pc[u]
      /\ RetiredFits(pos)' /\ OrderFits(pos)'
  <2>1. UNCHANGED Shared
    BY DEF Shared
  <2>2. l \in Appending /\ l \in EnqueuerPlaces /\ pc[t] \in Appending
    BY Apart
  <2> QED BY <2>1, <2>2, AppenderFrame
<1>1. QueueTypes'
  BY <1>a, <1>b DEF Fits, QueueTypes
<1>2. ListFits(pos)'
  <2>1. pos[first] <= pos[last']
    BY <1>0 DEF Fits, ListFits, QueueTypes
  <2> QED BY <2>1, <1>a, <1>b DEF Fits, ListFits
<1>3. NewFits(pos)'
  <2>1. \A u \in Threads : pc'[u] \in Unlinked => pc[u] \in Unlinked /\ node'[u] = node[u]
    BY <1>a, <1>b
  <2> QED BY <2>1, <1>a, NewKept DEF Fits
<1>4. AppendFits(pos)'
  <2> SUFFICES ASSUME NEW u \in Threads PROVE AppenderFits(pos, u)'
    BY DEF AppendFits
  <2>1. CASE u = t
    BY <2>1, <1>b
  <2>2. CASE u # t
    BY <2>2, <1>a, <1>b DEF Fits, AppendFits, AppenderFits, Follows
  <2> QED BY <2>1, <2>2
<1>5. LoopAppends(pos)'
  <2>1. CASE t = Loop
    BY <2>1, <1>b
  <2>2. CASE t # Loop
    BY <2>2, <1>0, <1>a, <1>b, LoopAppendsKept DEF Fits, QueueTypes
  <2> QED BY <2>1, <2>2
<1>6. LoopWorks(pos)'
  <2>1. CASE t = Loop
    <3>1. pc[Loop] \notin Working /\ pc'[Loop] \notin Working
          /\ pc[Loop] \notin {"swing", "release", "cut"} /\ pc'[Loop] \notin {"stamp", "push", "after"}
      BY <2>1, <1>b, Apart DEF Unlinked
    <3> QED BY <3>1, <1>a DEF Fits, LoopWorks
  <2>2. CASE t # Loop
    BY <2>2, <1>0, <1>a, <1>b, LoopWorksKept DEF Fits
  <2> QED BY <2>1, <2>2
<1>7. IssuedFits(pos)'
  <2>1. \A u \in Enqueuers : pc'[u] \in Appending => pc[u] \in Appending /\ node'[u] = node[u]
    BY <1>0, <1>a, <1>b, Apart
  <2>2. \A o \in Objs : mem[o] # "none" => mem'[o] # "none"
    BY <1>a
  <2> QED BY <1>0, <2>1, <2>2, <1>a, IssuedKept DEF Fits, QueueTypes
<1> QED
  BY <1>b, <1>1, <1>2, <1>3, <1>4, <1>5, <1>6, <1>7 DEF Fits

LEMMA Positions ==
    ASSUME NEW pos \in [Objs -> Nat], Fits(pos)
    PROVE  /\ Loop \in Threads /\ Dummies \subseteq Objs /\ Cmds \subseteq Objs
           /\ NULL \notin Objs
           /\ pos[first] \in Nat /\ pos[last] \in Nat /\ pos[first] <= pos[last]
           /\ first \in Objs /\ last \in Objs
           /\ Low \in Objs /\ pos[Low] \in Nat /\ pos[Low] > 0 /\ pos[Low] <= pos[first]
           /\ \A t \in Threads : pc[t] \in Pointing =>
                 ptr[t] \in Objs /\ pos[ptr[t]] \in Nat /\ pos[ptr[t]] > 0
           /\ ep \in [Threads -> Epochs] /\ ptr \in [Threads -> ObjOrNull]
           /\ nxt \in [Threads -> ObjOrNull] /\ node \in [Threads -> ObjOrNull]
BY CommandQueueAssumption, SharedObjAssumption
   DEF Fits, ListFits, QueueTypes, AppendFits, AppenderFits

LEMMA Reserve_epochFits ==
    ASSUME NEW pos \in [Objs -> Nat], NEW t \in Threads, Fits(pos), Reserve_epoch(t)
    PROVE  Fits(pos)'
<1>1. /\ Goto(t, "announce") /\ pc[t] \in Unlinked /\ "announce" \in Unlinked
      /\ UNCHANGED <<Shared, node>> /\ last' = last /\ ptr' = ptr /\ nxt' = nxt
      /\ ep' = [ep EXCEPT ![t] = epoch] /\ UNCHANGED soVars /\ "announce" \notin Pointing
  BY DEF Reserve_epoch, Shared, soVars, objects, lists, cq, loopVars, hist, Unlinked, Pointing
<1>2. MemTypes' /\ ep' \in [Threads -> Epochs]
  BY <1>1 DEF Fits, MemTypes, QueueTypes, soVars, objects, lists
<1>3. pc'[t] = "announce" => AppenderFits(pos, t)'
  BY <1>1 DEF AppenderFits
<1>4. t = Loop /\ pc'[t] = "announce" => LoopAppends(pos)'
  BY <1>1 DEF Fits, LoopAppends, Shared, Appending, Unlinked
<1> QED
  BY <1>1, <1>2, <1>3, <1>4, Positions, UnlinkedFrame

LEMMA Reserve_announceFits ==
    ASSUME NEW pos \in [Objs -> Nat], NEW t \in Threads, Fits(pos), Reserve_announce(t)
    PROVE  Fits(pos)'
<1>1. /\ Goto(t, "load") /\ pc[t] \in Unlinked /\ "load" \in Unlinked
      /\ UNCHANGED <<Shared, node>> /\ last' = last /\ ptr' = ptr /\ nxt' = nxt
      /\ ep' = ep /\ res' = [res EXCEPT ![t] = ep[t]] /\ "load" \notin Pointing
      /\ UNCHANGED <<epoch, ncreated, objects, lists>>
  BY DEF Reserve_announce, SOM_announce, Shared, objects, lists, cq, local, loopVars, hist, Unlinked,
         Pointing
<1>2. MemTypes' /\ ep' \in [Threads -> Epochs]
  BY <1>1 DEF Fits, MemTypes, QueueTypes, objects, lists
<1>3. pc'[t] = "load" => AppenderFits(pos, t)'
  BY <1>1 DEF AppenderFits
<1>4. t = Loop /\ pc'[t] = "load" => LoopAppends(pos)'
  BY <1>1 DEF Fits, LoopAppends, Shared, Appending, Unlinked
<1> QED
  BY <1>1, <1>2, <1>3, <1>4, Positions, UnlinkedFrame

LEMMA Reserve_loadFits ==
    ASSUME NEW pos \in [Objs -> Nat], NEW t \in Threads, Fits(pos), Reserve_load(t)
    PROVE  Fits(pos)'
<1>1. /\ Goto(t, "confirm") /\ pc[t] \in Unlinked /\ "confirm" \in Unlinked
      /\ UNCHANGED <<Shared, node>> /\ last' = last /\ nxt' = nxt
      /\ ep' = ep /\ ptr' = [ptr EXCEPT ![t] = last] /\ UNCHANGED soVars
  BY DEF Reserve_load, Shared, soVars, objects, lists, cq, loopVars, hist, Unlinked
<1>2. MemTypes' /\ ep' \in [Threads -> Epochs] /\ ptr' \in [Threads -> ObjOrNull]
      /\ ptr'[t] = last /\ \A u \in Threads \ {t} : ptr'[u] = ptr[u]
  BY <1>1, Positions DEF Fits, MemTypes, QueueTypes, soVars, objects, lists, ObjOrNull
<1>3. pc'[t] = "confirm" => AppenderFits(pos, t)'
  BY <1>2, Positions DEF AppenderFits
<1>4. t = Loop /\ pc'[t] = "confirm" => LoopAppends(pos)'
  BY <1>1, <1>2, Positions DEF Fits, LoopAppends, Shared, Appending, Unlinked
<1> QED
  BY <1>1, <1>2, <1>3, <1>4, Positions, UnlinkedFrame

LEMMA Reserve_confirmFits ==
    ASSUME NEW pos \in [Objs -> Nat], NEW t \in Threads, Fits(pos), Reserve_confirm(t)
    PROVE  Fits(pos)'
<1> DEFINE l == IF SOM_confirmed(ep[t]) THEN "next" ELSE "epoch"
<1>1. /\ Goto(t, l) /\ pc[t] = "confirm" /\ pc[t] \in Unlinked /\ l \in Unlinked
      /\ UNCHANGED <<Shared, node>> /\ last' = last /\ nxt' = nxt
      /\ ep' = ep /\ ptr' = ptr /\ UNCHANGED soVars /\ "confirm" \in Pointing
  BY DEF Reserve_confirm, Shared, soVars, objects, lists, cq, local, loopVars, hist, Unlinked, Pointing
<1>2. MemTypes' /\ ep' \in [Threads -> Epochs]
  BY <1>1 DEF Fits, MemTypes, QueueTypes, soVars, objects, lists
<1>3. pc'[t] = l => AppenderFits(pos, t)'
  BY <1>1, Positions DEF AppenderFits
<1>4. t = Loop /\ pc'[t] = l => LoopAppends(pos)'
  BY <1>1, Positions DEF Fits, LoopAppends, Shared, Appending, Unlinked
<1> QED
  <2> HIDE DEF l
  <2> QED
    BY <1>1, <1>2, <1>3, <1>4, Positions, UnlinkedFrame

LEMMA Enqueue_nextFits ==
    ASSUME NEW pos \in [Objs -> Nat], NEW t \in Threads, Fits(pos), Enqueue_next(t)
    PROVE  Fits(pos)'
<1> DEFINE l == IF next[ptr[t]] = NULL THEN "link" ELSE "help"
<1>1. /\ Goto(t, l) /\ pc[t] = "next" /\ pc[t] \in Unlinked /\ l \in Unlinked
      /\ UNCHANGED <<Shared, node>> /\ last' = last /\ nxt' = [nxt EXCEPT ![t] = next[ptr[t]]]
      /\ ep' = ep /\ ptr' = ptr /\ UNCHANGED soVars /\ "next" \in Pointing
  BY DEF Enqueue_next, Shared, soVars, objects, lists, cq, loopVars, hist, Unlinked, Pointing
<1>2. ptr[t] \in Objs /\ pos[ptr[t]] \in Nat /\ pos[ptr[t]] > 0 /\ next[ptr[t]] \in ObjOrNull
  BY <1>1, Positions DEF Fits, MemTypes
<1>3. MemTypes' /\ ep' \in [Threads -> Epochs] /\ nxt' \in [Threads -> ObjOrNull]
      /\ nxt'[t] = next[ptr[t]] /\ \A u \in Threads \ {t} : nxt'[u] = nxt[u]
  BY <1>1, <1>2 DEF Fits, MemTypes, QueueTypes, soVars, objects, lists
<1>4. pc'[t] = l => AppenderFits(pos, t)'
  <2>1. next[ptr[t]] # NULL => Follows(pos, next[ptr[t]], ptr[t])
    BY <1>2, Positions DEF Fits, ListFits, Follows
  <2>2. first' = first
    BY <1>1 DEF Shared
  <2> QED BY <1>1, <1>2, <1>3, <2>1, <2>2 DEF AppenderFits, Follows, ObjOrNull
<1>5. t = Loop /\ pc'[t] = l => LoopAppends(pos)'
  BY <1>1, Positions DEF Fits, LoopAppends, Shared, Appending, Unlinked
<1> QED
  <2> HIDE DEF l
  <2> QED
    BY <1>1, <1>3, <1>4, <1>5, Positions, UnlinkedFrame

LEMMA Enqueue_helpFits ==
    ASSUME NEW pos \in [Objs -> Nat], NEW t \in Threads, Fits(pos), Enqueue_help(t)
    PROVE  Fits(pos)'
<1>1. /\ Goto(t, "epoch") /\ pc[t] = "help" /\ pc[t] \in Unlinked /\ "epoch" \in Unlinked
      /\ UNCHANGED <<Shared, node>> /\ last' = IF last = ptr[t] THEN nxt[t] ELSE last
      /\ nxt' = nxt /\ ep' = ep /\ ptr' = ptr /\ UNCHANGED soVars
      /\ "help" \in Pointing /\ "epoch" \notin Pointing
  BY DEF Enqueue_help, Shared, soVars, objects, lists, local, loopVars, hist, Unlinked, Pointing
<1>2. last' \in Objs /\ pos[last] <= pos[last']
  <2>1. nxt[t] \in Objs /\ Follows(pos, nxt[t], ptr[t])
    BY <1>1 DEF Fits, AppendFits, AppenderFits
  <2> QED BY <1>1, <2>1, Positions DEF Follows
<1>3. MemTypes' /\ ep' \in [Threads -> Epochs]
  BY <1>1 DEF Fits, MemTypes, QueueTypes, soVars, objects, lists
<1>4. pc'[t] = "epoch" => AppenderFits(pos, t)'
  BY <1>1 DEF AppenderFits
<1>5. t = Loop /\ pc'[t] = "epoch" => LoopAppends(pos)'
  BY <1>1 DEF Fits, LoopAppends, Shared, Appending, Unlinked
<1> QED
  BY <1>1, <1>2, <1>3, <1>4, <1>5, Positions, UnlinkedFrame

\* What a thread that links knows of its node and of the node it links to.
LEMMA LinkFacts ==
    ASSUME NEW pos \in [Objs -> Nat], NEW t \in Threads, Fits(pos),
           pc[t] = "link", next[ptr[t]] = NULL
    PROVE  /\ node[t] \in Objs /\ ptr[t] \in Objs /\ node[t] # ptr[t]
           /\ pos[node[t]] = 0 /\ pos[ptr[t]] \in Nat /\ pos[ptr[t]] > 0
           /\ Isolated(pos, node[t]) /\ mem[node[t]] = "live"
           /\ t = Loop => node[t] \in Dummies /\ pos[ptr[t]] >= pos[Low]
           /\ t # Loop => /\ node[t] \in Cmds /\ Owner[node[t]] = t
                          /\ issued[t] # <<>> /\ node[t] = issued[t][Len(issued[t])]
           /\ \A o \in Objs : mem[o] = "none" => o # node[t] /\ o # ptr[t]
           /\ \A u \in Threads : u # t /\ pc[u] \in Unlinked =>
                 node[u] # node[t] /\ node[u] # ptr[t]
<1>1. /\ node[t] \in Objs /\ Isolated(pos, node[t]) /\ mem[node[t]] = "live"
      /\ \A u \in Threads : u # t /\ pc[u] \in Unlinked => node[u] # node[t]
  BY DEF Fits, NewFits, Unlinked
<1>2. ptr[t] \in Objs /\ pos[ptr[t]] \in Nat /\ pos[ptr[t]] > 0
  BY Positions DEF Pointing
<1>3. /\ \A o \in Objs : mem[o] = "none" => o # node[t] /\ o # ptr[t]
      /\ \A u \in Threads : u # t /\ pc[u] \in Unlinked => node[u] # ptr[t]
      /\ node[t] # ptr[t] /\ pos[node[t]] = 0
  BY <1>1, <1>2 DEF Fits, NewFits, Isolated
<1>4. t = Loop => node[t] \in Dummies /\ pos[ptr[t]] >= pos[Low]
  <2>1. t = Loop => pc[Loop] \in Appending /\ pc[Loop] \in Pointing /\ pc[Loop] \notin Working
    BY DEF Appending, Unlinked, Pointing, Working
  <2> QED BY <2>1, LowIsFirst DEF Fits, LoopAppends
<1>5. t # Loop => /\ node[t] \in Cmds /\ Owner[node[t]] = t
                  /\ issued[t] # <<>> /\ node[t] = issued[t][Len(issued[t])]
  <2> SUFFICES ASSUME t # Loop
               PROVE  /\ node[t] \in Cmds /\ Owner[node[t]] = t
                      /\ issued[t] # <<>> /\ node[t] = issued[t][Len(issued[t])]
    OBVIOUS
  <2>1. t \in Enqueuers /\ pc[t] \in Appending
    BY DEF Enqueuers, Appending, Unlinked
  <2>2. issued[t] # <<>> /\ node[t] = issued[t][Len(issued[t])]
    BY <2>1 DEF Fits, IssuedFits
  <2>3. issued[t] \in Seq(Cmds) /\ Len(issued[t]) \in DOMAIN issued[t]
    BY <2>2 DEF Fits, QueueTypes
  <2>4. issued[t][Len(issued[t])] \in Cmds
    BY <2>3
  <2> QED BY <2>1, <2>2, <2>3, <2>4 DEF Fits, IssuedFits
<1> QED
  BY <1>1, <1>2, <1>3, <1>4, <1>5

\* What linking changes, and what it leaves alone.
LEMMA LinkFrame ==
    ASSUME NEW pos \in [Objs -> Nat], NEW t \in Threads, Fits(pos), Enqueue_link(t),
           next[ptr[t]] = NULL
    PROVE  /\ pc[t] = "link" /\ next' = [next EXCEPT ![ptr[t]] = node[t]]
           /\ pc'[t] = "swing" /\ \A u \in Threads \ {t} : pc'[u] = pc[u]
           /\ MemTypes' /\ QueueTypes' /\ Low' = Low
           /\ mem' = mem /\ first' = first /\ last' = last /\ ptr' = ptr /\ node' = node
           /\ nxt' = nxt /\ torun' = torun /\ victim' = victim /\ retired' = retired
           /\ scan' = scan /\ issued' = issued /\ executed' = executed
           /\ pc'[Loop] = "scan" <=> pc[Loop] = "scan"
           /\ pc'[Loop] \in Working <=> pc[Loop] \in Working
<1>1. /\ pc[t] = "link" /\ next' = [next EXCEPT ![ptr[t]] = node[t]] /\ Goto(t, "swing")
      /\ UNCHANGED <<epoch, res, ncreated, created, retiredAt, mem, retired, nretired, scan>>
      /\ UNCHANGED <<first, last, node, ep, ptr, nxt, torun, victim, issued, executed>>
  BY DEF Enqueue_link, lists, cq, local, loopVars, hist
<1>2. /\ pc' \in [Threads -> LoopPlaces \cup EnqueuerPlaces]
      /\ pc'[Loop] \in LoopPlaces
      /\ \A u \in Enqueuers : pc'[u] \in EnqueuerPlaces
      /\ pc'[t] = "swing" /\ \A u \in Threads \ {t} : pc'[u] = pc[u]
  <2>1. "swing" \in LoopPlaces /\ "swing" \in EnqueuerPlaces
    BY DEF LoopPlaces, EnqueuerPlaces, Appending
  <2> QED BY <1>1, <2>1, Moved DEF Fits
<1>3. MemTypes'
  BY <1>1, LinkFacts DEF Fits, MemTypes, ObjOrNull
<1>4. QueueTypes'
  BY <1>1, <1>2 DEF Fits, QueueTypes
<1>5. /\ pc'[Loop] = "scan" <=> pc[Loop] = "scan"
      /\ pc'[Loop] \in Working <=> pc[Loop] \in Working
      /\ Low' = Low
  <2>1. CASE t = Loop
    BY <2>1, <1>1, <1>2 DEF Working, Low
  <2>2. CASE t # Loop
    BY <2>2, <1>1, <1>2, CommandQueueAssumption DEF Low
  <2> QED BY <2>1, <2>2
<1> QED
  BY <1>1, <1>2, <1>3, <1>4, <1>5

\* A node linked to one that was retired is lost; the queue is as before.
LEMMA LinkedLate ==
    ASSUME NEW pos \in [Objs -> Nat], NEW t \in Threads, Fits(pos), Enqueue_link(t),
           next[ptr[t]] = NULL, pos[ptr[t]] < pos[Low]
    PROVE  Fits(pos)'
<1>0. t # Loop /\ Loop \in Threads /\ pos[Low] \in Nat /\ pos[Low] <= pos[first]
      /\ pos[first] \in Nat
  BY Positions, LinkFrame, LinkFacts
<1> DEFINE o == node[t]
           p == ptr[t]
<1>f. /\ pc[t] = "link" /\ next' = [next EXCEPT ![p] = o]
      /\ pc'[t] = "swing" /\ \A u \in Threads \ {t} : pc'[u] = pc[u]
      /\ MemTypes' /\ QueueTypes' /\ Low' = Low
      /\ mem' = mem /\ first' = first /\ last' = last /\ ptr' = ptr /\ node' = node
      /\ nxt' = nxt /\ torun' = torun /\ victim' = victim /\ retired' = retired
      /\ scan' = scan /\ issued' = issued /\ executed' = executed
  BY LinkFrame
<1>g. /\ o \in Objs /\ p \in Objs /\ o # p /\ pos[o] = 0 /\ pos[p] \in Nat /\ pos[p] > 0
      /\ Isolated(pos, o) /\ mem[o] = "live"
      /\ \A x \in Objs : mem[x] = "none" => x # o /\ x # p
      /\ \A u \in Threads : u # t /\ pc[u] \in Unlinked => node[u] # o /\ node[u] # p
  BY <1>f, LinkFacts
<1>h. next \in [Objs -> ObjOrNull] /\ next'[p] = o /\ \A x \in Objs \ {p} : next'[x] = next[x]
  BY <1>f, <1>g DEF Fits, MemTypes
<1>1. ListFits(pos)'
  BY <1>f, <1>g, <1>h, <1>0 DEF Fits, ListFits
<1>2. NewFits(pos)'
  <2>1. ASSUME NEW x \in Objs, x # o, x # p, Isolated(pos, x) PROVE Isolated(pos, x)'
    BY <2>1, <1>f, <1>g, <1>h DEF Isolated
  <2>2. \A u \in Threads : pc'[u] \in Unlinked => u # t /\ pc[u] \in Unlinked
    BY <1>f DEF Unlinked
  <2> QED BY <2>1, <2>2, <1>f, <1>g DEF Fits, NewFits
<1>3. AppendFits(pos)'
  <2> SUFFICES ASSUME NEW u \in Threads PROVE AppenderFits(pos, u)'
    BY DEF AppendFits
  <2>1. CASE u = t
    BY <2>1, <1>0, <1>f, <1>g DEF AppenderFits, Follows
  <2>2. CASE u # t
    BY <2>2, <1>f DEF Fits, AppendFits, AppenderFits, Follows
  <2> QED BY <2>1, <2>2
<1>4. LoopAppends(pos)' /\ LoopWorks(pos)' /\ OrderFits(pos)'
  BY <1>0, <1>f DEF Fits, LoopAppends, LoopWorks, OrderFits
<1>5. RetiredFits(pos)'
  <2>1. /\ scan[Loop].i # NULL /\ scan[Loop].p # NULL => scan[Loop].p # p
        /\ scan[Loop].i # NULL /\ scan[Loop].n # NULL => scan[Loop].i # p
    BY DEF Fits, RetiredFits
  <2>2. /\ scan[Loop].i \in ObjOrNull /\ scan[Loop].p \in ObjOrNull
    BY <1>0 DEF Fits, MemTypes
  <2>3. \A x \in Objs : pos[x] < pos[Low] /\ next'[x] # NULL =>
            /\ pos[next'[x]] < pos[x]
            /\ mem[x] = "live" => /\ mem[next'[x]] = "live"
                                  /\ next'[x] # retired[Loop]
    BY <1>g, <1>h DEF Fits, RetiredFits, Isolated
  <2>4. ASSUME NEW x \in Objs, NEW y \in Objs,
               pos[x] < pos[Low], mem[x] = "live", next'[x] # NULL,
               pos[y] < pos[Low], mem[y] = "live", next'[x] = next'[y]
        PROVE  x = y
    BY <2>4, <1>g, <1>h DEF Fits, RetiredFits, Isolated
  <2>5. pc'[Loop] = pc[Loop]
    BY <1>0, <1>f
  <2> QED BY <2>1, <2>2, <2>3, <2>4, <2>5, <1>f, <1>h DEF Fits, RetiredFits, ObjOrNull
<1>6. IssuedFits(pos)'
  <2>1. \A u \in Enqueuers : pc'[u] \in Appending => pc[u] \in Appending
    BY <1>f DEF Appending, Unlinked, Enqueuers
  <2> QED BY <2>1, <1>f DEF Fits, IssuedFits
<1> QED
  BY <1>f, <1>1, <1>2, <1>3, <1>4, <1>5, <1>6 DEF Fits

\* A node linked to the end of the queue gets the next place.
LEMMA LinkedLast ==
    ASSUME NEW pos \in [Objs -> Nat], NEW t \in Threads, Fits(pos), Enqueue_link(t),
           next[ptr[t]] = NULL, pos[ptr[t]] >= pos[Low],
           NEW q, q = [pos EXCEPT ![node[t]] = pos[ptr[t]] + 1]
    PROVE  q \in [Objs -> Nat] /\ Fits(q)'
<1> DEFINE o == node[t]
           p == ptr[t]
<1>0. Loop \in Threads /\ pos[Low] \in Nat /\ pos[Low] > 0 /\ Low \in Objs
      /\ first \in Objs /\ last \in Objs /\ Dummies \subseteq Objs /\ Cmds \subseteq Objs
      /\ pos[first] \in Nat /\ pos[Low] <= pos[first] /\ NULL \notin Objs
  BY Positions
<1>f. /\ pc[t] = "link" /\ next' = [next EXCEPT ![p] = o]
      /\ pc'[t] = "swing" /\ \A u \in Threads \ {t} : pc'[u] = pc[u]
      /\ MemTypes' /\ QueueTypes' /\ Low' = Low
      /\ mem' = mem /\ first' = first /\ last' = last /\ ptr' = ptr /\ node' = node
      /\ nxt' = nxt /\ torun' = torun /\ victim' = victim /\ retired' = retired
      /\ scan' = scan /\ issued' = issued /\ executed' = executed
      /\ pc'[Loop] = "scan" <=> pc[Loop] = "scan"
      /\ pc'[Loop] \in Working <=> pc[Loop] \in Working
  BY LinkFrame
<1>g. /\ o \in Objs /\ p \in Objs /\ o # p /\ pos[o] = 0 /\ pos[p] \in Nat /\ pos[p] > 0
      /\ Isolated(pos, o) /\ mem[o] = "live"
      /\ t = Loop => o \in Dummies
      /\ t # Loop => /\ o \in Cmds /\ Owner[o] = t
                     /\ issued[t] # <<>> /\ o = issued[t][Len(issued[t])]
      /\ \A x \in Objs : mem[x] = "none" => x # o /\ x # p
      /\ \A u \in Threads : u # t /\ pc[u] \in Unlinked => node[u] # o /\ node[u] # p
  BY <1>f, LinkFacts
<1>h. next \in [Objs -> ObjOrNull] /\ next'[p] = o /\ \A x \in Objs \ {p} : next'[x] = next[x]
  BY <1>f, <1>g DEF Fits, MemTypes
<1>i. q \in [Objs -> Nat] /\ q[o] = pos[p] + 1 /\ \A x \in Objs \ {o} : q[x] = pos[x]
  BY <1>g
<1>j. \A x \in Objs : pos[x] <= pos[p]
  BY <1>g DEF Fits, ListFits
<1>k. q[Low] = pos[Low] /\ q[first] = pos[first] /\ q[last] = pos[last] /\ q[p] = pos[p]
      /\ q[o] > q[Low] /\ q[o] > q[first]
  BY <1>0, <1>g, <1>i, <1>j, Positions
<1> HIDE DEF o, p
<1>1. ListFits(q)'
  <2>1. \A x, y \in Objs : q[x] > 0 /\ q[x] = q[y] => x = y
    BY <1>g, <1>i, <1>j DEF Fits, ListFits
  <2>2. ASSUME NEW x \in Objs, q[x] >= q[Low]
        PROVE  /\ mem[x] = "live"
               /\ next'[x] # NULL => q[next'[x]] = q[x] + 1
               /\ next'[x] = NULL => \A y \in Objs : q[y] <= q[x]
    <3>1. CASE x = o
      <4>1. next'[x] = NULL
        BY <3>1, <1>g, <1>h DEF Isolated
      <4> QED BY <3>1, <4>1, <1>g, <1>i, <1>j
    <3>2. CASE x = p
      BY <3>2, <1>0, <1>g, <1>h, <1>i, <1>k DEF Fits, ListFits
    <3>3. CASE x # o /\ x # p
      <4>1. /\ mem[x] = "live"
            /\ next[x] # NULL => pos[next[x]] = pos[x] + 1
            /\ next[x] = NULL => \A y \in Objs : pos[y] <= pos[x]
        BY <2>2, <3>3, <1>i, <1>k DEF Fits, ListFits
      <4>2. next[x] # NULL
        BY <3>3, <4>1, <1>g, <1>j DEF Fits, ListFits
      <4>3. next[x] # o /\ next[x] \in Objs
        BY <4>2, <1>g, <1>h DEF Isolated, ObjOrNull
      <4> QED BY <3>3, <4>1, <4>2, <4>3, <1>h, <1>i
    <3> QED BY <3>1, <3>2, <3>3
  <2> QED BY <2>1, <2>2, <1>f, <1>k, <1>0 DEF Fits, ListFits
<1>2. NewFits(q)'
  <2>1. ASSUME NEW x \in Objs, x # o, x # p, Isolated(pos, x) PROVE Isolated(q, x)'
    BY <2>1, <1>f, <1>g, <1>h, <1>i DEF Isolated
  <2>2. \A u \in Threads : pc'[u] \in Unlinked => u # t /\ pc[u] \in Unlinked
    BY <1>f DEF Unlinked
  <2> QED BY <2>1, <2>2, <1>f, <1>g DEF Fits, NewFits
<1>3. AppendFits(q)'
  <2> SUFFICES ASSUME NEW u \in Threads PROVE AppenderFits(q, u)'
    BY DEF AppendFits
  <2>1. CASE u = t
    BY <2>1, <1>f, <1>g, <1>i, <1>k DEF AppenderFits, Follows, o, p
  <2>2. CASE u # t
    <3>1. AppenderFits(pos, u)
      BY DEF Fits, AppendFits
    <3>2. pc[u] \in Pointing => ptr[u] \in Objs /\ ptr[u] # o
      BY <3>1, <1>g DEF AppenderFits
    <3>3. pc[u] = "swing" => \/ pos[node[u]] = pos[ptr[u]] + 1 /\ node[u] # o
                             \/ pos[ptr[u]] < pos[first]
      BY <3>1, <3>2, <1>g DEF AppenderFits, Follows, Pointing
    <3>4. pc[u] = "help" => \/ pos[nxt[u]] = pos[ptr[u]] + 1 /\ nxt[u] # o
                            \/ pos[ptr[u]] < pos[first]
      BY <3>1, <3>2, <1>g DEF AppenderFits, Follows, Pointing
    <3> QED BY <2>2, <3>1, <3>2, <3>3, <3>4, <1>f, <1>i, <1>k
            DEF AppenderFits, Follows, Pointing
  <2> QED BY <2>1, <2>2
<1>4. LoopAppends(q)'
  <2>1. torun \in ObjOrNull /\ (torun # NULL => torun \in Objs)
    BY DEF Fits, QueueTypes, ObjOrNull
  <2>2. torun # NULL /\ pos[torun] = pos[first] + 1 => q[torun] = q[first] + 1
    BY <2>1, <1>0, <1>g, <1>i, <1>k
  <2>3. CASE t = Loop
    <3>1. pc[Loop] \in Appending /\ pc[Loop] \in Pointing
      BY <2>3, <1>f DEF Appending, Unlinked, Pointing
    <3>2. /\ torun # NULL /\ pos[torun] = pos[first] + 1 /\ node[Loop] \in Dummies
          /\ pos[first] <= pos[ptr[Loop]] /\ pos[ptr[Loop]] <= pos[last]
      BY <3>1 DEF Fits, LoopAppends
    <3> QED BY <2>2, <2>3, <3>2, <1>f, <1>k DEF LoopAppends, o, p
  <2>4. CASE t # Loop
    <3>1. pc'[Loop] = pc[Loop]
      BY <2>4, <1>0, <1>f
    <3>2. pc[Loop] \in Pointing => ptr[Loop] \in Objs /\ ptr[Loop] # o
      BY <1>0, <1>g DEF Fits, AppendFits, AppenderFits
    <3>3. pc[Loop] \in {"swing", "release", "cut"} => node[Loop] \in Objs /\ node[Loop] # o
      BY <1>0, <1>g DEF Fits, LoopAppends, Appending
    <3> QED BY <2>2, <3>1, <3>2, <3>3, <1>f, <1>i, <1>k DEF Fits, LoopAppends
  <2> QED BY <2>3, <2>4
<1>5. LoopWorks(q)'
  <2>1. CASE t = Loop
    <3>1. pc[Loop] \notin Working /\ pc'[Loop] \notin Working /\ pc'[Loop] = "swing"
          /\ pc[Loop] \notin {"swing", "release", "cut"}
      BY <2>1, <1>f DEF Working
    <3>2. ASSUME NEW d \in Dummies
          PROVE  q[d] <= q[first] \/ d = node[Loop]
      <4>1. pos[d] <= pos[first]
        BY <3>1 DEF Fits, LoopWorks
      <4> QED BY <4>1, <2>1, <1>0, <1>i, <1>k DEF o
    <3> QED BY <3>1, <3>2, <1>f DEF LoopWorks
  <2>2. CASE t # Loop
    <3>1. pc'[Loop] = pc[Loop]
      BY <2>2, <1>0, <1>f
    <3>2. \A d \in Dummies : q[d] = pos[d]
      BY <2>2, <1>0, <1>g, <1>i, CommandQueueAssumption
    <3>3. torun \in ObjOrNull /\ (torun # NULL => torun \in Objs)
      BY DEF Fits, QueueTypes, ObjOrNull
    <3>4. pc[Loop] \in Working => torun \in Objs /\ q[torun] = pos[torun]
      <4>1. ASSUME pc[Loop] \in Working PROVE torun # o /\ torun \in Objs
        <5>1. CASE pc[Loop] \in {"stamp", "push"}
          BY <5>1, <4>1, <3>3, <1>0, <1>g DEF Fits, LoopWorks, ListFits, Low
        <5>2. CASE pc[Loop] \in {"scan", "exec", "after"}
          BY <5>2, <4>1, <3>3, <1>0, <1>g DEF Fits, LoopWorks, ListFits, Low
        <5> QED BY <4>1, <5>1, <5>2 DEF Working
      <4> QED BY <4>1, <1>i
    <3>5. pc[Loop] \in {"stamp", "push"} => q[victim] = pos[victim]
      <4>1. pc[Loop] \in {"stamp", "push"} => Low = victim
        BY DEF Low
      <4> QED BY <4>1, <1>k
    <3> QED BY <3>1, <3>2, <3>4, <3>5, <1>f, <1>k DEF Fits, LoopWorks, Working
  <2> QED BY <2>1, <2>2
<1>6. RetiredFits(q)'
  <2>1. /\ scan[Loop].i \in ObjOrNull /\ scan[Loop].p \in ObjOrNull
        /\ scan[Loop].n \in ObjOrNull /\ retired[Loop] \in ObjOrNull
    BY <1>0 DEF Fits, MemTypes
  <2>2. /\ scan[Loop].i # o /\ scan[Loop].p # o /\ scan[Loop].n # o /\ retired[Loop] # o
    BY <1>g DEF Isolated
  <2>3. \A x \in Objs : q[x] < q[Low] => x # o /\ x # p /\ pos[x] < pos[Low] /\ next'[x] = next[x]
                                         /\ next[x] # o
    BY <1>0, <1>g, <1>h, <1>i, <1>k DEF Isolated
  <2>4. \A x \in ObjOrNull : x # NULL /\ x # o => (q[x] < q[Low] <=> pos[x] < pos[Low])
    BY <1>i, <1>k DEF ObjOrNull
  <2>5. /\ scan[Loop].i # NULL /\ scan[Loop].p # NULL => next'[scan[Loop].p] = next[scan[Loop].p]
        /\ scan[Loop].i # NULL => next'[scan[Loop].i] = next[scan[Loop].i]
    BY <2>1, <1>0, <1>g, <1>h DEF Fits, RetiredFits, ObjOrNull, p
  <2>6. \A x \in Objs : q[x] < q[Low] /\ next'[x] # NULL =>
            /\ q[next'[x]] < q[x]
            /\ mem[x] = "live" => mem[next'[x]] = "live" /\ next'[x] # retired[Loop]
    BY <2>3, <1>h, <1>i DEF Fits, RetiredFits, ObjOrNull
  <2> QED BY <2>1, <2>2, <2>3, <2>4, <2>5, <2>6, <1>f DEF Fits, RetiredFits
<1>7. OrderFits(q)'
  <2>1. \A i \in DOMAIN executed : executed[i] \in Objs /\ q[executed[i]] = pos[executed[i]]
    BY <1>0, <1>g, <1>i DEF Fits, OrderFits
  <2>2. pc[Loop] \in Working => torun \in Objs /\ q[torun] = pos[torun] /\ pc'[Loop] = pc[Loop]
    <3> SUFFICES ASSUME pc[Loop] \in Working
                 PROVE  torun \in Objs /\ q[torun] = pos[torun] /\ pc'[Loop] = pc[Loop]
      OBVIOUS
    <3>1. pc'[Loop] = pc[Loop]
      BY <1>0, <1>f DEF Working
    <3>2. torun \in Objs
      BY DEF Fits, LoopWorks, QueueTypes, ObjOrNull
    <3>3. pos[torun] > 0
      <4>1. CASE pc[Loop] \in {"stamp", "push"}
        BY <4>1, <1>0 DEF Fits, LoopWorks, ListFits, Low
      <4>2. CASE pc[Loop] \in {"scan", "exec", "after"}
        BY <4>2, <1>0 DEF Fits, LoopWorks, ListFits, Low
      <4> QED BY <4>1, <4>2 DEF Working
    <3> QED BY <3>1, <3>2, <3>3, <1>g, <1>i
  <2> QED BY <2>1, <2>2, <1>f, <1>k DEF Fits, OrderFits
<1>8. IssuedFits(q)'
  <2>1. \A u \in Enqueuers : pc'[u] \in Appending => pc[u] \in Appending
    BY <1>f DEF Appending, Unlinked, Enqueuers
  <2>2. ASSUME NEW u \in Enqueuers, NEW i \in DOMAIN issued[u] PROVE issued[u][i] \in Cmds
    BY <2>2 DEF Fits, QueueTypes, Enqueuers
  <2>3. ASSUME NEW u \in Enqueuers, NEW i \in DOMAIN issued[u], NEW j \in DOMAIN issued[u],
               i < j, q[issued[u][j]] > 0
        PROVE  q[issued[u][i]] < q[issued[u][j]]
    <3>1. /\ issued[u][i] # issued[u][j]
          /\ pos[issued[u][j]] > 0 => pos[issued[u][i]] < pos[issued[u][j]]
          /\ Owner[issued[u][i]] = u /\ Owner[issued[u][j]] = u
          /\ issued[u][i] \in Objs /\ issued[u][j] \in Objs
      BY <2>2, <2>3, <1>0 DEF Fits, IssuedFits
    <3>2. CASE issued[u][j] = o
      BY <3>1, <3>2, <1>i, <1>j, <1>g
    <3>3. CASE issued[u][j] # o
      <4>1. issued[u][i] # o
        <5> SUFFICES ASSUME issued[u][i] = o PROVE FALSE
          OBVIOUS
        <5>1. u = t /\ t # Loop
          BY <2>2, <3>1, <1>g, CommandQueueAssumption DEF Enqueuers
        <5>2. issued[t] \in Seq(Cmds) /\ Len(issued[t]) \in DOMAIN issued[t] /\ i \in 1 .. Len(issued[t])
              /\ j \in 1 .. Len(issued[t])
          BY <5>1, <1>g DEF Fits, QueueTypes
        <5>3. i < Len(issued[t])
          BY <2>3, <5>2
        <5>4. issued[t][i] # issued[t][Len(issued[t])]
          BY <5>1, <5>2, <5>3 DEF Fits, IssuedFits
        <5> QED BY <5>1, <5>4, <1>g
      <4> QED BY <3>1, <3>3, <4>1, <2>3, <1>i
    <3> QED BY <3>2, <3>3
  <2>4. ASSUME NEW c \in Cmds, q[c] > 0
        PROVE  \E i \in DOMAIN issued[Owner[c]] : issued[Owner[c]][i] = c
    <3>1. CASE c = o
      <4>1. t # Loop
        BY <3>1, <1>g, CommandQueueAssumption
      <4>2. Len(issued[t]) \in DOMAIN issued[t]
        BY <4>1, <1>g DEF Fits, QueueTypes
      <4> QED BY <3>1, <4>1, <4>2, <1>g
    <3>2. CASE c # o
      BY <3>2, <2>4, <1>0, <1>i DEF Fits, IssuedFits
    <3> QED BY <3>1, <3>2
  <2> QED BY <2>1, <2>3, <2>4, <1>f DEF Fits, IssuedFits
<1> QED
  BY <1>f, <1>i, <1>1, <1>2, <1>3, <1>4, <1>5, <1>6, <1>7, <1>8 DEF Fits

LEMMA Enqueue_linkFits ==
    ASSUME NEW pos \in [Objs -> Nat], NEW t \in Threads, Fits(pos), Enqueue_link(t),
           NEW q, q = IF next[ptr[t]] = NULL /\ pos[ptr[t]] >= pos[Low]
                      THEN [pos EXCEPT ![node[t]] = pos[ptr[t]] + 1] ELSE pos
    PROVE  q \in [Objs -> Nat] /\ Fits(q)'
<1>1. CASE next[ptr[t]] = NULL /\ pos[ptr[t]] >= pos[Low]
  BY <1>1, LinkedLast
<1>2. CASE next[ptr[t]] = NULL /\ ~(pos[ptr[t]] >= pos[Low])
  <2>1. pc[t] \in Pointing
    BY DEF Enqueue_link, Pointing
  <2>2. pos[ptr[t]] < pos[Low]
    BY <1>2, <2>1, Positions
  <2> QED BY <1>2, <2>2, LinkedLate
<1>3. CASE next[ptr[t]] # NULL
  <2>1. /\ Goto(t, "epoch") /\ pc[t] = "link" /\ pc[t] \in Unlinked /\ "epoch" \in Unlinked
        /\ UNCHANGED <<Shared, node>> /\ last' = last /\ nxt' = nxt
        /\ ep' = ep /\ ptr' = ptr /\ "epoch" \notin Pointing
        /\ UNCHANGED <<epoch, res, ncreated, created, retiredAt, mem, next, lists>>
    BY <1>3 DEF Enqueue_link, Shared, lists, cq, local, loopVars, hist, Unlinked, Pointing
  <2>2. MemTypes' /\ ep' \in [Threads -> Epochs]
    BY <2>1 DEF Fits, MemTypes, QueueTypes, lists
  <2>3. pc'[t] = "epoch" => AppenderFits(pos, t)'
    BY <2>1 DEF AppenderFits
  <2>4. t = Loop /\ pc'[t] = "epoch" => LoopAppends(pos)'
    BY <2>1 DEF Fits, LoopAppends, Shared, Appending, Unlinked
  <2> QED BY <1>3, <2>1, <2>2, <2>3, <2>4, Positions, UnlinkedFrame
<1> QED
  BY <1>1, <1>2, <1>3

\* A swing or the release: the node is linked, or lost.
LEMMA LinkedFrame ==
    ASSUME NEW pos \in [Objs -> Nat], NEW t \in Threads, NEW l, Fits(pos),
           Goto(t, l), pc[t] \in {"swing", "release"}, UNCHANGED Shared,
           t = Loop => l \in {"release", "cut"} /\ node'[t] = node[t],
           t # Loop => l \in {"release", "flag"},
           t # Loop /\ l = "release" => node'[t] = node[t],
           last' \in Objs, pos[last] <= pos[last'], MemTypes',
           ep' \in [Threads -> Epochs], node' \in [Threads -> ObjOrNull],
           ptr' \in [Threads -> ObjOrNull], nxt' \in [Threads -> ObjOrNull],
           \A u \in Threads \ {t} : /\ ptr'[u] = ptr[u] /\ nxt'[u] = nxt[u]
                                    /\ node'[u] = node[u],
           t = Loop => pos[node[t]] <= pos[last']
    PROVE  Fits(pos)'
<1>0. Loop \in Threads /\ Enqueuers \subseteq Threads /\ Cmds \subseteq Objs
      /\ Dummies \subseteq Objs
  BY CommandQueueAssumption DEF Enqueuers
<1>a. /\ first' = first /\ mem' = mem /\ next' = next /\ retired' = retired /\ scan' = scan
      /\ torun' = torun /\ victim' = victim /\ executed' = executed /\ issued' = issued
  BY DEF Shared
<1>b. /\ Low' = Low /\ (t = Loop => Low = first)
      /\ pc' \in [Threads -> LoopPlaces \cup EnqueuerPlaces]
      /\ pc'[Loop] \in LoopPlaces
      /\ \A u \in Enqueuers : pc'[u] \in EnqueuerPlaces
      /\ pc'[t] = l
      /\ \A u \in Threads \ {t} : pc'[u] = pc[u]
      /\ RetiredFits(pos)' /\ OrderFits(pos)'
  <2>1. (t = Loop => l \in Appending \cup {"cut"}) /\ (t # Loop => l \in EnqueuerPlaces)
        /\ pc[t] \in Appending
    BY DEF Appending, EnqueuerPlaces
  <2> QED BY <2>1, AppenderFrame
<1>c. l \notin Unlinked /\ l \notin Pointing /\ l \notin Working
  BY DEF Unlinked, Pointing, Working
<1>1. QueueTypes'
  BY <1>a, <1>b DEF Fits, QueueTypes
<1>2. ListFits(pos)'
  <2>1. pos[first] <= pos[last']
    BY Positions
  <2> QED BY <2>1, <1>a, <1>b DEF Fits, ListFits
<1>3. NewFits(pos)'
  <2>1. \A u \in Threads : pc'[u] \in Unlinked => pc[u] \in Unlinked /\ node'[u] = node[u]
    BY <1>b, <1>c
  <2> QED BY <2>1, <1>a, NewKept DEF Fits
<1>4. AppendFits(pos)'
  <2> SUFFICES ASSUME NEW u \in Threads PROVE AppenderFits(pos, u)'
    BY DEF AppendFits
  <2>1. CASE u = t
    BY <2>1, <1>b, <1>c DEF AppenderFits
  <2>2. CASE u # t
    BY <2>2, <1>a, <1>b DEF Fits, AppendFits, AppenderFits, Follows
  <2> QED BY <2>1, <2>2
<1>5. LoopAppends(pos)'
  <2>1. CASE t = Loop
    BY <2>1, <1>a, <1>b, <1>c DEF Fits, LoopAppends, Appending
  <2>2. CASE t # Loop
    BY <2>2, <1>0, <1>a, <1>b, Positions, LoopAppendsKept DEF Fits, QueueTypes
  <2> QED BY <2>1, <2>2
<1>6. LoopWorks(pos)'
  <2>1. CASE t = Loop
    <3>1. pc[Loop] \notin Working /\ pc'[Loop] \notin Working
          /\ pc'[Loop] \in {"release", "cut"}
      BY <2>1, <1>b, <1>c DEF Working
    <3> QED BY <3>1, <2>1, <1>a DEF Fits, LoopWorks
  <2>2. CASE t # Loop
    BY <2>2, <1>0, <1>a, <1>b, LoopWorksKept DEF Fits
  <2> QED BY <2>1, <2>2
<1>7. IssuedFits(pos)'
  <2>1. \A u \in Enqueuers : pc'[u] \in Appending => pc[u] \in Appending /\ node'[u] = node[u]
    BY <1>0, <1>a, <1>b DEF Appending, Unlinked, Enqueuers
  <2>2. \A o \in Objs : mem[o] # "none" => mem'[o] # "none"
    BY <1>a
  <2> QED BY <1>0, <2>1, <2>2, <1>a, IssuedKept DEF Fits, QueueTypes
<1> QED
  BY <1>b, <1>1, <1>2, <1>3, <1>4, <1>5, <1>6, <1>7 DEF Fits

LEMMA Enqueue_swingFits ==
    ASSUME NEW pos \in [Objs -> Nat], NEW t \in Threads, Fits(pos), Enqueue_swing(t)
    PROVE  Fits(pos)'
<1>1. /\ Goto(t, "release") /\ pc[t] = "swing"
      /\ UNCHANGED Shared /\ last' = IF last = ptr[t] THEN node[t] ELSE last
      /\ nxt' = nxt /\ ep' = ep /\ ptr' = ptr /\ node' = node /\ UNCHANGED soVars
  BY DEF Enqueue_swing, Shared, soVars, objects, lists, local, loopVars, hist
<1>2. /\ node[t] \in Objs /\ ptr[t] \in Objs /\ pos[ptr[t]] > 0
      /\ Follows(pos, node[t], ptr[t])
  BY <1>1 DEF Fits, AppendFits, AppenderFits, Pointing
<1>3. last' \in Objs /\ pos[last] <= pos[last']
  BY <1>1, <1>2, Positions DEF Follows
<1>4. t = Loop => pos[node[t]] <= pos[last']
  <2> SUFFICES ASSUME t = Loop PROVE pos[node[t]] <= pos[last']
    OBVIOUS
  <2>1. pos[first] <= pos[ptr[t]] /\ pos[ptr[t]] <= pos[last]
    BY <1>1 DEF Fits, LoopAppends, Pointing
  <2>2. pos[node[t]] = pos[ptr[t]] + 1
    BY <2>1, <1>2, Positions DEF Follows
  <2>3. last # ptr[t] => pos[last] # pos[ptr[t]]
    BY <1>2, Positions DEF Fits, ListFits
  <2> QED BY <1>1, <1>2, <2>1, <2>2, <2>3, Positions
<1>5. MemTypes' /\ ep' \in [Threads -> Epochs]
  BY <1>1 DEF Fits, MemTypes, QueueTypes, soVars, objects, lists
<1> QED
  BY <1>1, <1>3, <1>4, <1>5, Positions, LinkedFrame

LEMMA Enqueue_releaseFits ==
    ASSUME NEW pos \in [Objs -> Nat], NEW t \in Threads, Fits(pos), Enqueue_release(t)
    PROVE  Fits(pos)'
<1> DEFINE l == IF t = Loop THEN "cut" ELSE "flag"
<1>1. /\ Goto(t, l) /\ pc[t] = "release"
      /\ UNCHANGED Shared /\ last' = last
      /\ node' = [node EXCEPT ![t] = IF t = Loop THEN @ ELSE NULL]
      /\ ep' = [ep EXCEPT ![t] = 0] /\ ptr' = [ptr EXCEPT ![t] = NULL]
      /\ nxt' = [nxt EXCEPT ![t] = NULL]
      /\ res' = [res EXCEPT ![t] = (epoch - 1) % EpochMod]
      /\ UNCHANGED <<epoch, ncreated, objects, lists>>
  BY DEF Enqueue_release, SOM_release, Shared, objects, lists, cq, loopVars, hist
<1>2. /\ ep' \in [Threads -> Epochs] /\ node' \in [Threads -> ObjOrNull]
      /\ ptr' \in [Threads -> ObjOrNull] /\ nxt' \in [Threads -> ObjOrNull]
      /\ (t = Loop => node'[t] = node[t])
      /\ \A u \in Threads \ {t} : ptr'[u] = ptr[u] /\ nxt'[u] = nxt[u] /\ node'[u] = node[u]
  BY <1>1, Positions, SharedObjAssumption DEF ObjOrNull, Epochs
<1>3. MemTypes'
  <2>1. (epoch - 1) % EpochMod \in Epochs
    BY SharedObjAssumption DEF Fits, MemTypes, Epochs
  <2> QED BY <1>1, <2>1 DEF Fits, MemTypes, objects, lists
<1>4. t = Loop => pos[node[t]] <= pos[last']
  BY <1>1 DEF Fits, LoopAppends
<1>5. (t = Loop => l \in {"release", "cut"}) /\ (t # Loop => l = "flag")
  OBVIOUS
<1> QED
  <2> HIDE DEF l
  <2> QED BY <1>1, <1>2, <1>3, <1>4, <1>5, Positions, LinkedFrame

-----------------------------------------------------------------------------
(* A new node. *)

LEMMA CreateFits ==
    ASSUME NEW pos \in [Objs -> Nat], NEW t \in Threads, NEW o \in Objs, Fits(pos),
           SharedObj_create(t, o), Goto(t, "epoch"), node' = [node EXCEPT ![t] = o],
           UNCHANGED <<first, last, ep, ptr, nxt, torun, victim, executed>>,
           t = Loop => pc[t] = "create" /\ o \in Dummies /\ issued' = issued,
           t # Loop => /\ pc[t] = "idle" /\ o \in Cmds /\ Owner[o] = t
                       /\ issued' = [issued EXCEPT ![t] = Append(@, o)]
    PROVE  Fits(pos)'
<1>0. Loop \in Threads /\ Enqueuers = Threads \ {Loop} /\ Cmds \subseteq Objs
      /\ Dummies \subseteq Objs /\ NULL \notin Objs /\ Cmds \cap Dummies = {}
  BY CommandQueueAssumption, SharedObjAssumption DEF Enqueuers
<1>a. /\ mem[o] = "none" /\ mem' = [mem EXCEPT ![o] = "live"]
      /\ next' = [next EXCEPT ![o] = NULL] /\ retired' = retired /\ scan' = scan
      /\ res' = res /\ nretired' = nretired
      /\ created' = [created EXCEPT ![o] = epoch]
      /\ retiredAt' = [retiredAt EXCEPT ![o] = (epoch - 1) % EpochMod]
  BY DEF SharedObj_create, lists
<1>b. Isolated(pos, o)
  BY <1>a DEF Fits, NewFits
<1>c. next' = next
  BY <1>a, <1>b DEF Fits, MemTypes, Isolated
<1>d. mem'[o] = "live" /\ \A x \in Objs \ {o} : mem'[x] = mem[x]
  BY <1>a DEF Fits, MemTypes
<1>e. node'[t] = o /\ \A u \in Threads \ {t} : node'[u] = node[u]
  BY DEF Fits, QueueTypes
<1>g. /\ pc' \in [Threads -> LoopPlaces \cup EnqueuerPlaces]
      /\ pc'[Loop] \in LoopPlaces
      /\ \A u \in Enqueuers : pc'[u] \in EnqueuerPlaces
      /\ pc'[t] = "epoch" /\ \A u \in Threads \ {t} : pc'[u] = pc[u]
  <2>1. "epoch" \in LoopPlaces /\ "epoch" \in EnqueuerPlaces
    BY DEF LoopPlaces, EnqueuerPlaces, Appending, Unlinked
  <2> QED BY <2>1, Moved DEF Fits
<1>h. t = Loop => pc[Loop] \notin Working /\ pc'[Loop] \notin Working
  BY <1>g DEF Working
<1>i. t # Loop => pc'[Loop] = pc[Loop]
  BY <1>0, <1>g
<1>j. Low' = Low
  <2>1. CASE t = Loop
    BY <2>1, <1>h DEF Low, Working
  <2>2. CASE t # Loop
    BY <2>2, <1>i DEF Low
  <2> QED BY <2>1, <2>2
<1>1. MemTypes'
  <2>1. epoch' \in Epochs /\ ncreated' \in [Threads -> Int]
    BY SharedObjAssumption DEF Fits, MemTypes, SharedObj_create, Epochs
  <2>2. created' \in [Objs -> Int] /\ retiredAt' \in [Objs -> Int]
    BY <1>a, SharedObjAssumption DEF Fits, MemTypes, Epochs
  <2>3. mem' \in [Objs -> {"none", "live", "freed"}]
    BY <1>a DEF Fits, MemTypes
  <2> QED BY <1>a, <1>c, <2>1, <2>2, <2>3 DEF Fits, MemTypes
<1>2. QueueTypes'
  <2>1. issued' \in [Threads -> Seq(Cmds)]
    <3>1. t # Loop => Append(issued[t], o) \in Seq(Cmds)
      BY AppendProperties DEF Fits, QueueTypes
    <3> QED BY <3>1 DEF Fits, QueueTypes
  <2>2. node' \in [Threads -> ObjOrNull]
    BY DEF Fits, QueueTypes, ObjOrNull
  <2> QED BY <1>g, <2>1, <2>2 DEF Fits, QueueTypes
<1>3. ListFits(pos)'
  <2>1. pos[o] = 0 /\ pos[Low] > 0
    BY <1>b DEF Isolated, Fits, ListFits
  <2> QED BY <2>1, <1>c, <1>d, <1>j DEF Fits, ListFits
<1>4. NewFits(pos)'
  <2>1. \A x \in Objs : Isolated(pos, x)' <=> Isolated(pos, x)
    BY <1>a, <1>c DEF Isolated
  <2>2. \A u \in Threads : u # t /\ pc'[u] \in Unlinked =>
            pc[u] \in Unlinked /\ node'[u] = node[u] /\ node[u] # o
    BY <1>a, <1>e, <1>g DEF Fits, NewFits
  <2> QED BY <2>1, <2>2, <1>b, <1>d, <1>e, <1>g DEF Fits, NewFits
<1>5. AppendFits(pos)'
  <2> SUFFICES ASSUME NEW u \in Threads PROVE AppenderFits(pos, u)'
    BY DEF AppendFits
  <2>1. CASE u = t
    BY <2>1, <1>g DEF AppenderFits, Pointing
  <2>2. CASE u # t
    BY <2>2, <1>e, <1>g DEF Fits, AppendFits, AppenderFits, Follows
  <2> QED BY <2>1, <2>2
<1>6. LoopAppends(pos)'
  <2>1. CASE t = Loop
    BY <2>1, <1>e, <1>g DEF Fits, LoopAppends, Pointing
  <2>2. CASE t # Loop
    BY <2>2, <1>0, <1>e, <1>i DEF Fits, LoopAppends
  <2> QED BY <2>1, <2>2
<1>7. LoopWorks(pos)'
  <2>1. CASE t = Loop
    <3>1. pc[Loop] \notin {"swing", "release", "cut"} /\ pc'[Loop] \notin {"stamp", "push", "after"}
      BY <2>1, <1>g
    <3> QED BY <2>1, <3>1, <1>h DEF Fits, LoopWorks
  <2>2. CASE t # Loop
    BY <2>2, <1>0, <1>e, <1>i, LoopWorksKept DEF Fits
  <2> QED BY <2>1, <2>2
<1>8. RetiredFits(pos)'
  <2>1. pc[Loop] = "scan" => pc'[Loop] = "scan"
    BY <1>h, <1>i DEF Working
  <2>2. \A x \in Objs : next[x] # NULL => x # o
    BY <1>b DEF Isolated
  <2>3. /\ retired[Loop] # NULL => retired[Loop] \in Objs /\ retired[Loop] # o
        /\ scan[Loop].i # NULL => scan[Loop].i \in Objs /\ scan[Loop].i # o
        /\ scan[Loop].p # NULL => scan[Loop].p \in Objs /\ scan[Loop].p # o
        /\ scan[Loop].n # NULL => scan[Loop].n \in Objs /\ scan[Loop].n # o
        /\ \A x \in Objs : next[x] # NULL => next[x] \in Objs /\ next[x] # o
    BY <1>0, <1>b DEF Fits, MemTypes, ObjOrNull, Isolated
  <2>4. \A x \in Objs : pos[x] < pos[Low] /\ next[x] # NULL =>
            /\ pos[next[x]] < pos[x]
            /\ mem'[x] = "live" => mem'[next[x]] = "live" /\ next[x] # retired[Loop]
    BY <2>2, <2>3, <1>d DEF Fits, RetiredFits
  <2>5. ASSUME NEW x \in Objs, NEW y \in Objs,
               pos[x] < pos[Low], mem'[x] = "live", next[x] # NULL,
               pos[y] < pos[Low], mem'[y] = "live", next[x] = next[y]
        PROVE  x = y
    BY <2>2, <2>5, <1>d DEF Fits, RetiredFits
  <2> QED BY <2>1, <2>3, <2>4, <2>5, <1>a, <1>c, <1>d, <1>j DEF Fits, RetiredFits
<1>9. OrderFits(pos)'
  <2>1. CASE t = Loop
    BY <2>1, <1>h DEF Fits, OrderFits
  <2>2. CASE t # Loop
    BY <2>2, <1>i, OrderKept DEF Fits
  <2> QED BY <2>1, <2>2
<1>10. IssuedFits(pos)'
  <2>0. \A x \in Objs : mem[x] # "none" => mem'[x] # "none"
    BY <1>d
  <2>1. CASE t = Loop
    <3>1. \A u \in Enqueuers : pc'[u] \in Appending => pc[u] \in Appending /\ node'[u] = node[u]
      BY <2>1, <1>0, <1>e, <1>g
    <3> QED BY <2>0, <2>1, <3>1, <1>0, IssuedKept DEF Fits, QueueTypes
  <2>2. CASE t # Loop
    <3>1. t \in Enqueuers /\ issued[t] \in Seq(Cmds) /\ \A u \in Threads : issued[u] \in Seq(Cmds)
      BY <2>2, <1>0 DEF Fits, QueueTypes
    <3>2. /\ issued'[t] = Append(issued[t], o)
          /\ \A u \in Threads \ {t} : issued'[u] = issued[u]
      BY <2>2 DEF Fits, QueueTypes
    <3>3. /\ Len(issued'[t]) = Len(issued[t]) + 1 /\ Len(issued[t]) \in Nat
          /\ DOMAIN issued'[t] = 1 .. Len(issued[t]) + 1
          /\ DOMAIN issued[t] = 1 .. Len(issued[t])
          /\ issued'[t][Len(issued[t]) + 1] = o
          /\ \A i \in 1 .. Len(issued[t]) : issued'[t][i] = issued[t][i]
          /\ \A i \in 1 .. Len(issued[t]) : issued[t][i] \in Cmds
          /\ issued'[t] # <<>>
      BY <2>2, <3>1, <3>2, AppendProperties
    <3>4. \A i \in 1 .. Len(issued[t]) : issued[t][i] # o
      BY <3>1, <3>3, <1>a DEF Fits, IssuedFits
    <3>5. ASSUME NEW u \in Enqueuers, pc'[u] \in Appending
          PROVE  issued'[u] # <<>> /\ node'[u] = issued'[u][Len(issued'[u])]
      <4>1. CASE u = t
        BY <4>1, <3>3, <1>e
      <4>2. CASE u # t
        BY <4>2, <3>2, <3>5, <1>0, <1>e, <1>g DEF Fits, IssuedFits
      <4> QED BY <4>1, <4>2
    <3>6. ASSUME NEW u \in Enqueuers, NEW i \in DOMAIN issued'[u]
          PROVE  Owner[issued'[u][i]] = u /\ mem'[issued'[u][i]] # "none"
      <4>1. CASE u = t
        <5>1. CASE i = Len(issued[t]) + 1
          BY <2>2, <4>1, <5>1, <3>3, <1>d
        <5>2. CASE i \in 1 .. Len(issued[t])
          <6>1. Owner[issued[t][i]] = t /\ mem[issued[t][i]] # "none"
            BY <5>2, <3>1, <3>3 DEF Fits, IssuedFits
          <6> QED BY <4>1, <5>2, <6>1, <3>3, <2>0, <1>0
        <5> QED BY <4>1, <5>1, <5>2, <3>3
      <4>2. CASE u # t
        <5>1. issued'[u] = issued[u] /\ issued[u][i] \in Cmds
          BY <4>2, <3>1, <3>2, <1>0
        <5> QED BY <5>1, <2>0, <1>0 DEF Fits, IssuedFits
      <4> QED BY <4>1, <4>2
    <3>7. ASSUME NEW u \in Enqueuers, NEW i \in DOMAIN issued'[u], NEW j \in DOMAIN issued'[u], i < j
          PROVE  /\ issued'[u][i] # issued'[u][j]
                 /\ pos[issued'[u][j]] > 0 => pos[issued'[u][i]] < pos[issued'[u][j]]
      <4>1. CASE u = t
        <5>1. i \in 1 .. Len(issued[t])
          BY <4>1, <3>3, <3>7
        <5>2. CASE j = Len(issued[t]) + 1
          BY <4>1, <5>1, <5>2, <3>3, <3>4, <1>b DEF Isolated
        <5>3. CASE j \in 1 .. Len(issued[t])
          BY <4>1, <5>1, <5>3, <3>1, <3>3, <3>7 DEF Fits, IssuedFits
        <5> QED BY <4>1, <5>2, <5>3, <3>3
      <4>2. CASE u # t
        BY <4>2, <3>2, <3>7, <1>0 DEF Fits, IssuedFits
      <4> QED BY <4>1, <4>2
    <3>8. ASSUME NEW c \in Cmds, pos[c] > 0
          PROVE  \E i \in DOMAIN issued'[Owner[c]] : issued'[Owner[c]][i] = c
      <4>1. PICK i \in DOMAIN issued[Owner[c]] : issued[Owner[c]][i] = c
        BY <3>8 DEF Fits, IssuedFits
      <4>2. CASE Owner[c] = t
        <5>1. i \in DOMAIN issued'[t] /\ issued'[t][i] = c
          BY <4>1, <4>2, <3>3
        <5> QED BY <4>2, <5>1
      <4>3. CASE Owner[c] # t
        <5>1. Owner[c] \in Threads
          BY CommandQueueAssumption
        <5> QED BY <4>1, <4>3, <5>1, <3>2
      <4> QED BY <4>2, <4>3
    <3> QED BY <3>5, <3>6, <3>7, <3>8 DEF IssuedFits
  <2> QED BY <2>1, <2>2
<1> QED
  BY <1>1, <1>2, <1>3, <1>4, <1>5, <1>6, <1>7, <1>8, <1>9, <1>10 DEF Fits

LEMMA enqueueCommandFits ==
    ASSUME NEW pos \in [Objs -> Nat], NEW t \in Enqueuers, Fits(pos), enqueueCommand(t)
    PROVE  Fits(pos)'
<1>1. PICK c : /\ c \in Unused(CmdsOf(t)) /\ SharedObj_create(t, c)
               /\ node' = [node EXCEPT ![t] = c]
               /\ issued' = [issued EXCEPT ![t] = Append(@, c)]
  <2> DEFINE d == CHOOSE c \in Unused(CmdsOf(t)) : TRUE
  <2>1. d \in Unused(CmdsOf(t))
    BY DEF enqueueCommand
  <2>2. /\ SharedObj_create(t, d) /\ node' = [node EXCEPT ![t] = d]
        /\ issued' = [issued EXCEPT ![t] = Append(@, d)]
    BY DEF enqueueCommand
  <2> QED BY <2>1, <2>2
<1>2. c \in Cmds /\ Owner[c] = t /\ c \in Objs /\ t \in Threads /\ t # Loop
  BY <1>1, Positions DEF Unused, CmdsOf, Enqueuers
<1>3. /\ Goto(t, "epoch") /\ pc[t] = "idle"
      /\ UNCHANGED <<first, last, ep, ptr, nxt, torun, victim, executed>>
  BY DEF enqueueCommand, cq, loopVars
<1> QED
  BY <1>1, <1>2, <1>3, CreateFits

LEMMA runCommands_createFits ==
    ASSUME NEW pos \in [Objs -> Nat], Fits(pos), runCommands_create
    PROVE  Fits(pos)'
<1>1. PICK d : /\ d \in Unused(Dummies) /\ SharedObj_create(Loop, d)
               /\ node' = [node EXCEPT ![Loop] = d]
  <2> DEFINE e == CHOOSE d \in Unused(Dummies) : TRUE
  <2>1. e \in Unused(Dummies)
    BY DEF runCommands_create
  <2>2. SharedObj_create(Loop, e) /\ node' = [node EXCEPT ![Loop] = e]
    BY DEF runCommands_create
  <2> QED BY <2>1, <2>2
<1>2. d \in Dummies /\ d \in Objs /\ Loop \in Threads
  BY <1>1, Positions DEF Unused
<1>3. /\ Goto(Loop, "epoch") /\ pc[Loop] = "create"
      /\ UNCHANGED <<first, last, ep, ptr, nxt, torun, victim, executed, issued>>
  BY DEF runCommands_create, cq, loopVars, hist
<1> QED
  BY <1>1, <1>2, <1>3, CreateFits

-----------------------------------------------------------------------------
(* The other steps of the enqueuers, and those of the loop. *)

LEMMA WakingFits ==
    ASSUME NEW pos \in [Objs -> Nat], NEW t \in Enqueuers, NEW l, Fits(pos),
           Goto(t, l), pc[t] \in {"flag", "wake"}, l \in {"wake", "idle"},
           UNCHANGED <<soVars, first, last, local, torun, victim, hist>>
    PROVE  Fits(pos)'
<1>0. Loop \in Threads /\ t \in Threads /\ t # Loop /\ Cmds \subseteq Objs
  BY Positions DEF Enqueuers
<1>a. /\ pc' \in [Threads -> LoopPlaces \cup EnqueuerPlaces]
      /\ pc'[Loop] \in LoopPlaces
      /\ \A u \in Enqueuers : pc'[u] \in EnqueuerPlaces
      /\ pc'[t] = l /\ \A u \in Threads \ {t} : pc'[u] = pc[u]
  BY <1>0, Moved DEF Fits, EnqueuerPlaces
<1>b. /\ UNCHANGED <<epoch, res, ncreated, created, retiredAt, next, mem, retired, nretired, scan>>
      /\ UNCHANGED <<first, last, node, ep, ptr, nxt, torun, victim, issued, executed>>
  BY DEF soVars, objects, lists, local, hist
<1>c. pc'[Loop] = pc[Loop] /\ Low' = Low /\ l \notin Appending /\ l \notin Unlinked /\ l \notin Pointing
      /\ l # "swing" /\ l # "help"
  BY <1>0, <1>a, <1>b DEF Low, Appending, Unlinked, Pointing
<1>1. MemTypes'
  BY <1>b DEF Fits, MemTypes
<1>2. QueueTypes'
  BY <1>a, <1>b DEF Fits, QueueTypes
<1>3. ListFits(pos)'
  BY <1>b, <1>c, ListKept DEF Fits
<1>4. NewFits(pos)'
  BY <1>a, <1>b, <1>c, NewKept DEF Fits
<1>5. AppendFits(pos)'
  BY <1>a, <1>b, <1>c DEF Fits, AppendFits, AppenderFits, Follows
<1>6. LoopAppends(pos)' /\ LoopWorks(pos)' /\ OrderFits(pos)'
  BY <1>b, <1>c DEF Fits, LoopAppends, LoopWorks, OrderFits
<1>7. RetiredFits(pos)'
  BY <1>b, <1>c, RetiredKept DEF Fits
<1>8. IssuedFits(pos)'
  BY <1>0, <1>a, <1>b, <1>c, IssuedKept DEF Fits, QueueTypes, Enqueuers
<1> QED
  BY <1>1, <1>2, <1>3, <1>4, <1>5, <1>6, <1>7, <1>8 DEF Fits

LEMMA EnqueuerWakesFits ==
    ASSUME NEW pos \in [Objs -> Nat], NEW t \in Enqueuers, Fits(pos),
           enqueueCommand_flag(t) \/ enqueueCommand_wake(t)
    PROVE  Fits(pos)'
<1>1. CASE enqueueCommand_flag(t)
  <2>1. PICK l \in {"wake", "idle"} : Goto(t, l)
    BY <1>1 DEF enqueueCommand_flag
  <2>2. /\ pc[t] \in {"flag", "wake"}
        /\ UNCHANGED <<soVars, first, last, local, torun, victim, hist>>
    BY <1>1 DEF enqueueCommand_flag, loopVars
  <2> QED BY <2>1, <2>2, WakingFits
<1>2. CASE enqueueCommand_wake(t)
  <2>1. /\ Goto(t, "idle") /\ pc[t] \in {"flag", "wake"}
        /\ UNCHANGED <<soVars, first, last, local, torun, victim, hist>>
    BY <1>2 DEF enqueueCommand_wake, loopVars
  <2> QED BY <2>1, WakingFits
<1> QED
  BY <1>1, <1>2

\* A step of the loop that does not append: what is left to show.
LEMMA LoopFrame ==
    ASSUME NEW pos \in [Objs -> Nat], NEW l, Fits(pos), Goto(Loop, l),
           pc[Loop] \notin Appending, l \in LoopPlaces, l \notin Appending,
           MemTypes', mem' = mem, next' = next, retired' = retired, scan' = scan,
           first' \in Dummies, torun' \in ObjOrNull, victim' \in ObjOrNull,
           node' \in [Threads -> ObjOrNull], executed' \in Seq(Objs),
           \A u \in Threads \ {Loop} : node'[u] = node[u],
           UNCHANGED <<last, ep, ptr, nxt, issued>>,
           Low' = Low, pos[first] <= pos[first'], pos[first'] <= pos[last],
           scan[Loop].i # NULL => l = "scan",
           pc'[Loop] = l => LoopAppends(pos)' /\ LoopWorks(pos)' /\ OrderFits(pos)'
    PROVE  Fits(pos)'
<1>0. Loop \in Threads /\ Enqueuers = Threads \ {Loop} /\ Cmds \subseteq Objs
      /\ Dummies \subseteq Objs /\ NULL \notin Objs
  BY Positions DEF Enqueuers
<1>a. /\ pc' \in [Threads -> LoopPlaces \cup EnqueuerPlaces]
      /\ pc'[Loop] \in LoopPlaces
      /\ \A u \in Enqueuers : pc'[u] \in EnqueuerPlaces
      /\ pc'[Loop] = l /\ \A u \in Threads \ {Loop} : pc'[u] = pc[u]
  BY <1>0, Moved DEF Fits
<1>c. /\ l \notin Unlinked /\ l # "swing" /\ l # "help" /\ l \notin Pointing
  BY DEF Appending, Unlinked, Pointing
<1>d. /\ pos[Low] \in Nat /\ pos[first] \in Nat /\ pos[first'] \in Nat
      /\ pos[Low] <= pos[first']
  BY <1>0, Positions
<1>2. QueueTypes'
  BY <1>a DEF Fits, QueueTypes
<1>3. ListFits(pos)'
  BY <1>d DEF Fits, ListFits
<1>4. NewFits(pos)'
  BY <1>a, <1>c, NewKept DEF Fits
<1>5. AppendFits(pos)'
  <2> SUFFICES ASSUME NEW u \in Threads PROVE AppenderFits(pos, u)'
    BY DEF AppendFits
  <2>1. CASE u = Loop
    BY <2>1, <1>a, <1>c DEF AppenderFits
  <2>2. CASE u # Loop
    <3>1. AppenderFits(pos, u) /\ (pc[u] \in Pointing => pos[ptr[u]] \in Nat)
      BY Positions DEF Fits, AppendFits
    <3> QED BY <2>2, <3>1, <1>a, <1>d DEF AppenderFits, Follows, Pointing
  <2> QED BY <2>1, <2>2
<1>6. LoopAppends(pos)' /\ LoopWorks(pos)' /\ OrderFits(pos)'
  BY <1>a
<1>7. RetiredFits(pos)'
  BY <1>a DEF Fits, RetiredFits
<1>8. IssuedFits(pos)'
  BY <1>0, <1>a, IssuedKept DEF Fits, QueueTypes, Enqueuers
<1> QED
  BY <1>2, <1>3, <1>4, <1>5, <1>6, <1>7, <1>8 DEF Fits

LEMMA NodeTypes ==
    ASSUME NEW pos \in [Objs -> Nat], Fits(pos)
    PROVE  node \in [Threads -> ObjOrNull]
BY DEF Fits, QueueTypes

LEMMA SleepFits ==
    ASSUME NEW pos \in [Objs -> Nat], Fits(pos),
           processEvents_efd \/ processEvents_other \/ clearMustWake \/ readCommandPipe
    PROVE  Fits(pos)'
<1>1. PICK l \in {"clear", "handle", "first"} : Goto(Loop, l)
  BY DEF processEvents_efd, processEvents_other, clearMustWake, readCommandPipe
<1>2. /\ pc[Loop] \in {"wait", "clear", "handle"}
      /\ UNCHANGED <<soVars, first, last, local, torun, victim, hist>>
  BY DEF processEvents_efd, processEvents_other, clearMustWake, readCommandPipe, cq, loopVars
<1>3. /\ UNCHANGED <<epoch, res, ncreated, created, retiredAt, next, mem, retired, nretired, scan>>
      /\ UNCHANGED <<first, last, node, ep, ptr, nxt, torun, victim, issued, executed>>
  BY <1>2 DEF soVars, objects, lists, local, hist
<1>4. /\ pc[Loop] \notin Appending /\ l \notin Appending /\ l \in LoopPlaces
      /\ pc[Loop] \notin Working /\ l \notin Working /\ pc[Loop] # "scan" /\ l \notin Pointing
  BY <1>2 DEF Appending, Unlinked, Working, LoopPlaces, Pointing
<1>5. pc'[Loop] = l
  BY <1>1, <1>4, Positions, Moved DEF Fits
<1>6. Low' = Low
  BY <1>3, <1>4, <1>5 DEF Low, Working
<1>7. MemTypes'
  BY <1>3 DEF Fits, MemTypes
<1>8. LoopAppends(pos)'
  BY <1>4, <1>5 DEF LoopAppends
<1>9. LoopWorks(pos)'
  BY <1>2, <1>3, <1>4, <1>5 DEF Fits, LoopWorks, Working
<1>10. OrderFits(pos)'
  BY <1>3, <1>4, <1>5 DEF Fits, OrderFits
<1>11. scan[Loop].i = NULL
  BY <1>4 DEF Fits, RetiredFits
<1>12. first \in Dummies /\ torun \in ObjOrNull /\ victim \in ObjOrNull /\ executed \in Seq(Objs)
  BY DEF Fits, QueueTypes
<1>14. /\ pos[first] <= pos[first'] /\ pos[first'] <= pos[last]
       /\ \A u \in Threads \ {Loop} : node'[u] = node[u]
  BY <1>1, <1>3, Positions
<1> QED
  BY <1>1, <1>3, <1>4, <1>6, <1>7, <1>8, <1>9, <1>10, <1>11, <1>12, <1>14, NodeTypes, LoopFrame

LEMMA runCommands_firstFits ==
    ASSUME NEW pos \in [Objs -> Nat], Fits(pos), runCommands_first
    PROVE  Fits(pos)'
<1>1. /\ pc[Loop] = "first" /\ Goto(Loop, "setwake") /\ torun' = next[first]
      /\ UNCHANGED <<epoch, res, ncreated, created, retiredAt, next, mem, retired, nretired, scan>>
      /\ UNCHANGED <<first, last, node, ep, ptr, nxt, victim, issued, executed>>
  BY DEF runCommands_first, soVars, objects, lists, cq, local, hist
<1>4. /\ pc[Loop] \notin Appending /\ "setwake" \notin Appending /\ "setwake" \in LoopPlaces
      /\ pc[Loop] \notin Working /\ "setwake" \notin Working /\ "setwake" \notin Pointing
  BY <1>1 DEF Appending, Unlinked, Working, LoopPlaces, Pointing
<1>5. pc'[Loop] = "setwake"
  BY <1>1, <1>4, Positions, Moved DEF Fits
<1>6. Low' = Low /\ Low = first
  BY <1>1, <1>4, <1>5 DEF Low, Working
<1>7. MemTypes'
  BY <1>1 DEF Fits, MemTypes
<1>8. LoopAppends(pos)'
  <2>1. next[first] # NULL => pos[next[first]] = pos[first] + 1
    BY <1>6, Positions DEF Fits, ListFits
  <2> QED BY <2>1, <1>1, <1>4, <1>5 DEF LoopAppends
<1>9. LoopWorks(pos)'
  BY <1>1, <1>4, <1>5 DEF Fits, LoopWorks, Working
<1>10. OrderFits(pos)'
  BY <1>1, <1>4, <1>5 DEF Fits, OrderFits
<1>11. scan[Loop].i = NULL
  BY <1>1 DEF Fits, RetiredFits
<1>12. first \in Dummies /\ torun' \in ObjOrNull /\ victim \in ObjOrNull /\ executed \in Seq(Objs)
  BY <1>1, Positions DEF Fits, QueueTypes, MemTypes
<1>14. /\ pos[first] <= pos[first'] /\ pos[first'] <= pos[last]
       /\ \A u \in Threads \ {Loop} : node'[u] = node[u]
  BY <1>1, Positions
<1> QED
  BY <1>1, <1>4, <1>6, <1>7, <1>8, <1>9, <1>10, <1>11, <1>12, <1>14, NodeTypes, LoopFrame

LEMMA runCommands_setwakeFits ==
    ASSUME NEW pos \in [Objs -> Nat], Fits(pos), runCommands_setwake
    PROVE  Fits(pos)'
<1> DEFINE l == IF torun = NULL THEN "wait" ELSE "create"
<1>1. /\ pc[Loop] = "setwake" /\ Goto(Loop, l)
      /\ UNCHANGED <<epoch, res, ncreated, created, retiredAt, next, mem, retired, nretired, scan>>
      /\ UNCHANGED <<first, last, node, ep, ptr, nxt, torun, victim, issued, executed>>
  BY DEF runCommands_setwake, soVars, objects, lists, local, loopVars, hist
<1>4. /\ pc[Loop] \notin Appending /\ l \notin Appending /\ l \in LoopPlaces
      /\ pc[Loop] \notin Working /\ l \notin Working /\ l \notin Pointing /\ l \notin {"cut", "swing", "release"}
  BY <1>1 DEF Appending, Unlinked, Working, LoopPlaces, Pointing
<1>5. pc'[Loop] = l
  BY <1>1, <1>4, Positions, Moved DEF Fits
<1>6. Low' = Low /\ Low = first
  BY <1>1, <1>4, <1>5 DEF Low, Working
<1>7. MemTypes'
  BY <1>1 DEF Fits, MemTypes
<1>8. LoopAppends(pos)'
  BY <1>1, <1>4, <1>5 DEF Fits, LoopAppends
<1>9. LoopWorks(pos)'
  BY <1>1, <1>4, <1>5 DEF Fits, LoopWorks, Working
<1>10. OrderFits(pos)'
  BY <1>1, <1>4, <1>5 DEF Fits, OrderFits
<1>11. scan[Loop].i = NULL
  BY <1>1 DEF Fits, RetiredFits
<1>12. first \in Dummies /\ torun \in ObjOrNull /\ victim \in ObjOrNull /\ executed \in Seq(Objs)
  BY DEF Fits, QueueTypes
<1>14. /\ pos[first] <= pos[first'] /\ pos[first'] <= pos[last]
       /\ \A u \in Threads \ {Loop} : node'[u] = node[u]
  BY <1>1, Positions
<1> HIDE DEF l
<1> QED
  BY <1>1, <1>4, <1>6, <1>7, <1>8, <1>9, <1>10, <1>11, <1>12, <1>14, NodeTypes, LoopFrame

LEMMA runCommands_cutFits ==
    ASSUME NEW pos \in [Objs -> Nat], Fits(pos), runCommands_cut
    PROVE  Fits(pos)'
<1>1. /\ pc[Loop] = "cut" /\ Goto(Loop, "stamp") /\ victim' = first /\ first' = node[Loop]
      /\ UNCHANGED <<epoch, res, ncreated, created, retiredAt, next, mem, retired, nretired, scan>>
      /\ UNCHANGED <<last, node, ep, ptr, nxt, torun, issued, executed>>
  BY DEF runCommands_cut, soVars, objects, lists, local, hist
<1>2. /\ node[Loop] \in Dummies /\ torun # NULL /\ pos[torun] = pos[first] + 1
      /\ pos[first] < pos[node[Loop]] /\ pos[node[Loop]] <= pos[last]
      /\ \A d \in Dummies : pos[d] <= pos[first] \/ d = node[Loop]
  BY <1>1 DEF Fits, LoopAppends, LoopWorks, Working
<1>3. /\ pos[first] \in Nat /\ pos[node[Loop]] \in Nat /\ torun \in Objs
      /\ \A d \in Dummies : pos[d] \in Nat
  BY <1>2, Positions DEF Fits, QueueTypes, ObjOrNull
<1>4. /\ pc[Loop] \notin Appending /\ "stamp" \notin Appending /\ "stamp" \in LoopPlaces
      /\ pc[Loop] \notin Working /\ "stamp" \in Working /\ "stamp" \notin Pointing
  BY <1>1 DEF Appending, Unlinked, Working, LoopPlaces, Pointing
<1>5. pc'[Loop] = "stamp"
  BY <1>1, <1>4, Positions, Moved DEF Fits
<1>6. Low' = Low /\ Low = first
  BY <1>1, <1>4, <1>5 DEF Low, Working
<1>7. MemTypes'
  BY <1>1 DEF Fits, MemTypes
<1>8. LoopAppends(pos)'
  BY <1>4, <1>5 DEF LoopAppends
<1>9. LoopWorks(pos)'
  BY <1>1, <1>2, <1>3, <1>4, <1>5, Positions DEF LoopWorks
<1>10. OrderFits(pos)'
  <2>1. \A i \in DOMAIN executed : pos[executed[i]] \in Nat /\ pos[executed[i]] < pos[first]
    BY <1>4, Positions DEF Fits, OrderFits
  <2> QED BY <2>1, <1>1, <1>2, <1>3, <1>4, <1>5 DEF Fits, OrderFits
<1>11. scan[Loop].i = NULL
  BY <1>1 DEF Fits, RetiredFits
<1>12. victim' \in ObjOrNull /\ torun \in ObjOrNull /\ executed \in Seq(Objs)
  BY <1>1, Positions DEF Fits, QueueTypes, ObjOrNull
<1>14. /\ pos[first] <= pos[first'] /\ pos[first'] <= pos[last]
       /\ \A u \in Threads \ {Loop} : node'[u] = node[u]
  BY <1>1, <1>2, <1>3, Positions
<1> QED
  BY <1>1, <1>2, <1>3, <1>4, <1>6, <1>7, <1>8, <1>9, <1>10, <1>11, <1>12, <1>14, NodeTypes, LoopFrame

LEMMA WorkFacts ==
    ASSUME NEW pos \in [Objs -> Nat], Fits(pos), pc[Loop] \in Working
    PROVE  /\ torun \in Objs /\ first = node[Loop] /\ pos[torun] <= pos[first]
           /\ pos[torun] \in Nat /\ pos[torun] > 0 /\ pos[Low] <= pos[torun]
           /\ \A d \in Dummies : pos[torun] <= pos[d] => d = first
           /\ pc[Loop] \in {"stamp", "push"} => /\ Low = victim /\ victim \in Objs
                                                /\ pos[torun] = pos[victim] + 1
           /\ pc[Loop] \in {"scan", "exec", "after"} => Low = torun
<1>1. /\ torun \in Objs /\ first = node[Loop] /\ pos[torun] <= pos[first]
      /\ \A d \in Dummies : pos[torun] <= pos[d] => d = first
      /\ pc[Loop] \in {"stamp", "push"} => victim \in Objs /\ pos[torun] = pos[victim] + 1
  BY DEF Fits, LoopWorks, QueueTypes, ObjOrNull
<1>2. /\ pc[Loop] \in {"stamp", "push"} => Low = victim
      /\ pc[Loop] \in {"scan", "exec", "after"} => Low = torun
  BY DEF Low
<1>3. pc[Loop] \in {"stamp", "push"} \/ pc[Loop] \in {"scan", "exec", "after"}
  BY DEF Working
<1> QED
  BY <1>1, <1>2, <1>3, Positions

LEMMA runCommands_execFits ==
    ASSUME NEW pos \in [Objs -> Nat], Fits(pos), runCommands_exec
    PROVE  Fits(pos)'
<1>1. /\ pc[Loop] = "exec" /\ Goto(Loop, "after") /\ torun # node[Loop]
      /\ executed' = Append(executed, torun)
      /\ UNCHANGED <<epoch, res, ncreated, created, retiredAt, next, mem, retired, nretired, scan>>
      /\ UNCHANGED <<first, last, node, ep, ptr, nxt, torun, victim, issued>>
  BY DEF runCommands_exec, soVars, objects, lists, cq, local, loopVars
<1>4. /\ pc[Loop] \notin Appending /\ "after" \notin Appending /\ "after" \in LoopPlaces
      /\ pc[Loop] \in Working /\ "after" \in Working /\ "after" \notin Pointing
  BY <1>1 DEF Appending, Unlinked, Working, LoopPlaces, Pointing
<1>2. /\ torun \in Objs /\ first = node[Loop] /\ pos[torun] <= pos[first]
      /\ pos[torun] \in Nat /\ pos[torun] > 0
      /\ \A d \in Dummies : pos[torun] <= pos[d] => d = first
      /\ Low = torun
  BY <1>1, <1>4, WorkFacts
<1>3. torun \in Cmds
  BY <1>1, <1>2, CommandQueueAssumption
<1>5. pc'[Loop] = "after"
  BY <1>1, <1>4, Positions, Moved DEF Fits
<1>6. Low' = Low
  BY <1>1, <1>2, <1>5 DEF Low
<1>7. MemTypes'
  BY <1>1 DEF Fits, MemTypes
<1>8. LoopAppends(pos)'
  BY <1>4, <1>5 DEF LoopAppends
<1>9. LoopWorks(pos)'
  BY <1>1, <1>2, <1>4, <1>5, SharedObjAssumption DEF LoopWorks
<1>12. first \in Dummies /\ torun \in ObjOrNull /\ victim \in ObjOrNull /\ executed \in Seq(Objs)
  BY DEF Fits, QueueTypes
<1>13. /\ executed' \in Seq(Objs) /\ DOMAIN executed' = 1 .. Len(executed) + 1
       /\ DOMAIN executed = 1 .. Len(executed) /\ Len(executed) \in Nat
       /\ executed'[Len(executed) + 1] = torun
       /\ \A i \in 1 .. Len(executed) : executed'[i] = executed[i]
  BY <1>1, <1>2, <1>12, AppendProperties
<1>10. OrderFits(pos)'
  <2>1. \A i \in 1 .. Len(executed) : /\ executed[i] \in Cmds /\ pos[executed[i]] > 0
                                      /\ pos[executed[i]] < pos[torun]
    BY <1>1, <1>4, <1>13 DEF Fits, OrderFits
  <2>2. \A i \in 1 .. Len(executed) : pos[executed[i]] \in Nat
    BY <2>1, Positions
  <2>3. \A i \in DOMAIN executed' : /\ executed'[i] \in Cmds /\ pos[executed'[i]] > 0
                                    /\ pos[executed'[i]] <= pos[torun]
    BY <2>1, <2>2, <1>2, <1>3, <1>13
  <2>4. ASSUME NEW i \in DOMAIN executed', NEW j \in DOMAIN executed', i < j
        PROVE  pos[executed'[i]] < pos[executed'[j]]
    <3>1. i \in 1 .. Len(executed)
      BY <2>4, <1>13
    <3>2. CASE j = Len(executed) + 1
      BY <3>1, <3>2, <2>1, <1>13
    <3>3. CASE j \in 1 .. Len(executed)
      BY <2>4, <3>1, <3>3, <1>13 DEF Fits, OrderFits
    <3> QED BY <3>2, <3>3, <1>13
  <2> QED BY <2>3, <2>4, <1>1, <1>4, <1>5 DEF OrderFits
<1>11. scan[Loop].i = NULL
  BY <1>1 DEF Fits, RetiredFits
<1>14. /\ pos[first] <= pos[first'] /\ pos[first'] <= pos[last]
       /\ \A u \in Threads \ {Loop} : node'[u] = node[u]
  BY <1>1, Positions
<1> QED
  BY <1>1, <1>4, <1>6, <1>7, <1>8, <1>9, <1>10, <1>11, <1>12, <1>13, <1>14, NodeTypes, LoopFrame

LEMMA runCommands_afterFits ==
    ASSUME NEW pos \in [Objs -> Nat], Fits(pos), runCommands_after
    PROVE  Fits(pos)'
<1>1. /\ pc[Loop] = "after" /\ Goto(Loop, "stamp") /\ victim' = torun /\ torun' = next[torun]
      /\ UNCHANGED <<epoch, res, ncreated, created, retiredAt, next, mem, retired, nretired, scan>>
      /\ UNCHANGED <<first, last, node, ep, ptr, nxt, issued, executed>>
  BY DEF runCommands_after, soVars, objects, lists, cq, local, hist
<1>4. /\ pc[Loop] \notin Appending /\ "stamp" \notin Appending /\ "stamp" \in LoopPlaces
      /\ pc[Loop] \in Working /\ "stamp" \in Working /\ "stamp" \notin Pointing
  BY <1>1 DEF Appending, Unlinked, Working, LoopPlaces, Pointing
<1>2. /\ torun \in Objs /\ first = node[Loop] /\ pos[torun] <= pos[first]
      /\ pos[torun] \in Nat /\ pos[torun] > 0
      /\ \A d \in Dummies : pos[torun] <= pos[d] => d = first
      /\ Low = torun /\ torun # first
  BY <1>1, <1>4, WorkFacts DEF Fits, LoopWorks
<1>3. next[torun] \in Objs /\ pos[next[torun]] = pos[torun] + 1 /\ pos[torun] < pos[first]
  <2>1. pos[torun] < pos[first]
    BY <1>2, Positions DEF Fits, ListFits
  <2>2. next[torun] # NULL
    BY <2>1, <1>2, Positions DEF Fits, ListFits
  <2>3. next[torun] \in Objs
    BY <2>2, <1>2 DEF Fits, MemTypes, ObjOrNull
  <2> QED BY <2>1, <2>2, <2>3, <1>2 DEF Fits, ListFits
<1>5. pc'[Loop] = "stamp"
  BY <1>1, <1>4, Positions, Moved DEF Fits
<1>6. Low' = Low
  BY <1>1, <1>2, <1>5 DEF Low
<1>7. MemTypes'
  BY <1>1 DEF Fits, MemTypes
<1>8. LoopAppends(pos)'
  BY <1>4, <1>5 DEF LoopAppends
<1>9. LoopWorks(pos)'
  <2>1. \A d \in Dummies : pos[next[torun]] <= pos[d] => d = first
    BY <1>2, <1>3, Positions
  <2>2. NULL \notin Objs /\ pos[first] \in Nat
    BY Positions
  <2> QED BY <2>1, <2>2, <1>1, <1>2, <1>3, <1>4, <1>5 DEF LoopWorks
<1>10. OrderFits(pos)'
  <2>1. \A i \in DOMAIN executed : pos[executed[i]] \in Nat /\ pos[executed[i]] <= pos[torun]
    BY <1>1, <1>4, Positions DEF Fits, OrderFits
  <2> QED BY <2>1, <1>1, <1>2, <1>3, <1>4, <1>5 DEF Fits, OrderFits
<1>11. scan[Loop].i = NULL
  BY <1>1 DEF Fits, RetiredFits
<1>12. first \in Dummies /\ torun' \in ObjOrNull /\ victim' \in ObjOrNull /\ executed \in Seq(Objs)
  BY <1>1, <1>2, <1>3 DEF Fits, QueueTypes, ObjOrNull
<1>14. /\ pos[first] <= pos[first'] /\ pos[first'] <= pos[last]
       /\ \A u \in Threads \ {Loop} : node'[u] = node[u]
  BY <1>1, Positions
<1> QED
  BY <1>1, <1>4, <1>6, <1>7, <1>8, <1>9, <1>10, <1>11, <1>12, <1>14, NodeTypes, LoopFrame

LEMMA runCommands_doneFits ==
    ASSUME NEW pos \in [Objs -> Nat], Fits(pos), runCommands_done
    PROVE  Fits(pos)'
<1>1. /\ pc[Loop] = "exec" /\ torun = node[Loop] /\ Goto(Loop, "wait") /\ torun' = NULL
      /\ node' = [node EXCEPT ![Loop] = NULL]
      /\ UNCHANGED <<epoch, res, ncreated, created, retiredAt, next, mem, retired, nretired, scan>>
      /\ UNCHANGED <<first, last, ep, ptr, nxt, victim, issued, executed>>
  BY DEF runCommands_done, soVars, objects, lists, cq, hist
<1>4. /\ pc[Loop] \notin Appending /\ "wait" \notin Appending /\ "wait" \in LoopPlaces
      /\ pc[Loop] \in Working /\ "wait" \notin Working /\ "wait" \notin Pointing
  BY <1>1 DEF Appending, Unlinked, Working, LoopPlaces, Pointing
<1>2. /\ torun = first /\ Low = torun /\ \A d \in Dummies : pos[torun] <= pos[d] => d = first
  BY <1>1, <1>4, WorkFacts
<1>5. pc'[Loop] = "wait"
  BY <1>1, <1>4, Positions, Moved DEF Fits
<1>6. Low' = Low
  BY <1>1, <1>2, <1>5 DEF Low
<1>7. MemTypes'
  BY <1>1 DEF Fits, MemTypes
<1>8. LoopAppends(pos)'
  BY <1>4, <1>5 DEF LoopAppends
<1>9. LoopWorks(pos)'
  <2>1. \A d \in Dummies : pos[d] <= pos[first]
    BY <1>2, Positions
  <2> QED BY <2>1, <1>1, <1>4, <1>5 DEF LoopWorks, Working
<1>10. OrderFits(pos)'
  BY <1>1, <1>2, <1>4, <1>5 DEF Fits, OrderFits
<1>11. scan[Loop].i = NULL
  BY <1>1 DEF Fits, RetiredFits
<1>12. /\ first \in Dummies /\ torun' \in ObjOrNull /\ victim \in ObjOrNull /\ executed \in Seq(Objs)
       /\ node' \in [Threads -> ObjOrNull] /\ \A u \in Threads \ {Loop} : node'[u] = node[u]
  BY <1>1 DEF Fits, QueueTypes, ObjOrNull
<1>14. /\ pos[first] <= pos[first'] /\ pos[first'] <= pos[last]
       /\ \A u \in Threads \ {Loop} : node'[u] = node[u]
  BY <1>1, <1>12, Positions
<1> QED
  BY <1>1, <1>4, <1>6, <1>7, <1>8, <1>9, <1>10, <1>11, <1>12, <1>14, LoopFrame

-----------------------------------------------------------------------------
(* SharedObj_retire *)

LEMMA retire_stampFits ==
    ASSUME NEW pos \in [Objs -> Nat], Fits(pos), retire_stamp
    PROVE  Fits(pos)'
<1>1. /\ pc[Loop] = "stamp" /\ Goto(Loop, "push")
      /\ retiredAt' = [retiredAt EXCEPT ![victim] = epoch]
      /\ UNCHANGED <<epoch, res, ncreated, created, next, mem, retired, nretired, scan>>
      /\ UNCHANGED <<first, last, node, ep, ptr, nxt, torun, victim, issued, executed>>
  BY DEF retire_stamp, Retire_stamp, lists, cq, local, loopVars, hist
<1>2. /\ pc[Loop] \notin Appending /\ "push" \notin Appending /\ "push" \in LoopPlaces
      /\ pc[Loop] \in Working /\ "push" \in Working /\ "push" \notin Pointing
  BY <1>1 DEF Appending, Unlinked, Working, LoopPlaces, Pointing
<1>3. pc'[Loop] = "push"
  BY <1>1, <1>2, Positions, Moved DEF Fits
<1>4. Low' = Low
  BY <1>1, <1>3 DEF Low
<1>5. MemTypes'
  <2>1. epoch \in Int
    BY SharedObjAssumption DEF Fits, MemTypes, Epochs
  <2> QED BY <1>1, <2>1 DEF Fits, MemTypes
<1>6. LoopAppends(pos)'
  BY <1>2, <1>3 DEF LoopAppends
<1>7. LoopWorks(pos)' /\ OrderFits(pos)'
  BY <1>1, <1>2, <1>3 DEF Fits, LoopWorks, OrderFits
<1>8. scan[Loop].i = NULL
  BY <1>1 DEF Fits, RetiredFits
<1>9. /\ first \in Dummies /\ torun \in ObjOrNull /\ victim \in ObjOrNull /\ executed \in Seq(Objs)
  BY DEF Fits, QueueTypes
<1>10. pos[first] <= pos[first'] /\ pos[first'] <= pos[last]
  BY <1>1, Positions
<1> QED
  BY <1>1, <1>2, <1>4, <1>5, <1>6, <1>7, <1>8, <1>9, <1>10, NodeTypes, LoopFrame

LEMMA retire_doneFits ==
    ASSUME NEW pos \in [Objs -> Nat], Fits(pos), retire_done
    PROVE  Fits(pos)'
<1>1. /\ pc[Loop] = "scan" /\ Goto(Loop, "exec") /\ scan[Loop].i = NULL
      /\ UNCHANGED <<epoch, res, ncreated, created, retiredAt, next, mem, retired, nretired, scan>>
      /\ UNCHANGED <<first, last, node, ep, ptr, nxt, torun, victim, issued, executed>>
  BY DEF retire_done, Scanning, soVars, objects, lists, cq, local, loopVars, hist
<1>2. /\ pc[Loop] \notin Appending /\ "exec" \notin Appending /\ "exec" \in LoopPlaces
      /\ pc[Loop] \in Working /\ "exec" \in Working /\ "exec" \notin Pointing
  BY <1>1 DEF Appending, Unlinked, Working, LoopPlaces, Pointing
<1>3. pc'[Loop] = "exec"
  BY <1>1, <1>2, Positions, Moved DEF Fits
<1>4. Low' = Low
  BY <1>1, <1>3 DEF Low
<1>5. MemTypes'
  BY <1>1 DEF Fits, MemTypes
<1>6. LoopAppends(pos)'
  BY <1>2, <1>3 DEF LoopAppends
<1>7. LoopWorks(pos)' /\ OrderFits(pos)'
  BY <1>1, <1>2, <1>3 DEF Fits, LoopWorks, OrderFits
<1>9. /\ first \in Dummies /\ torun \in ObjOrNull /\ victim \in ObjOrNull /\ executed \in Seq(Objs)
  BY DEF Fits, QueueTypes
<1>10. pos[first] <= pos[first'] /\ pos[first'] <= pos[last]
  BY <1>1, Positions
<1> QED
  BY <1>1, <1>2, <1>4, <1>5, <1>6, <1>7, <1>9, <1>10, NodeTypes, LoopFrame

LEMMA retire_pushFits ==
    ASSUME NEW pos \in [Objs -> Nat], Fits(pos), retire_push
    PROVE  Fits(pos)'
<1> DEFINE h == retired[Loop]
<1>1. /\ pc[Loop] = "push" /\ Goto(Loop, "scan") /\ victim' = NULL
      /\ next' = [next EXCEPT ![victim] = h] /\ retired' = [retired EXCEPT ![Loop] = victim]
      /\ \/ /\ nretired' = [nretired EXCEPT ![Loop] = 0]
            /\ scan' = [scan EXCEPT ![Loop] = [Idle EXCEPT !.i = victim]]
         \/ /\ nretired' = [nretired EXCEPT ![Loop] = @ + 1]
            /\ scan' = scan
      /\ UNCHANGED <<epoch, res, ncreated, created, retiredAt, mem>>
      /\ UNCHANGED <<first, last, node, ep, ptr, nxt, torun, issued, executed>>
  BY DEF retire_push, Retire_push, cq, local, hist
<1>2. /\ pc[Loop] \notin Appending /\ "scan" \notin Appending /\ "scan" \in LoopPlaces
      /\ pc[Loop] \in Working /\ "scan" \in Working /\ "scan" \notin Pointing
      /\ "scan" \notin Unlinked
  BY <1>1 DEF Appending, Unlinked, Working, LoopPlaces, Pointing
<1>3. /\ pc' \in [Threads -> LoopPlaces \cup EnqueuerPlaces]
      /\ pc'[Loop] \in LoopPlaces
      /\ \A u \in Enqueuers : pc'[u] \in EnqueuerPlaces
      /\ pc'[Loop] = "scan" /\ \A u \in Threads \ {Loop} : pc'[u] = pc[u]
  BY <1>1, <1>2, Positions, Moved DEF Fits
<1>4. /\ torun \in Objs /\ first = node[Loop] /\ pos[torun] <= pos[first]
      /\ pos[torun] \in Nat /\ pos[torun] > 0
      /\ \A d \in Dummies : pos[torun] <= pos[d] => d = first
      /\ Low = victim /\ victim \in Objs /\ pos[torun] = pos[victim] + 1
      /\ pos[victim] \in Nat /\ pos[victim] > 0
  BY <1>1, <1>2, WorkFacts, Positions
<1>5. Low' = torun
  BY <1>1, <1>3 DEF Low
<1>6. /\ Loop \in Threads /\ NULL \notin Objs /\ h \in ObjOrNull
      /\ next \in [Objs -> ObjOrNull] /\ mem \in [Objs -> {"none", "live", "freed"}]
      /\ Idle.i = NULL /\ Idle.p = NULL /\ Idle.n = NULL
      /\ scan[Loop].i = NULL /\ h # victim
      /\ h # NULL => pos[h] < pos[victim] /\ mem[h] = "live"
      /\ mem[victim] = "live"
  <2>1. Loop \in Threads /\ NULL \notin Objs
    BY Positions
  <2>2. scan[Loop].i = NULL /\ h # victim /\ (h # NULL => pos[h] < pos[victim] /\ mem[h] = "live")
    BY <2>1, <1>1, <1>4 DEF Fits, RetiredFits
  <2>3. mem[victim] = "live"
    BY <1>4 DEF Fits, ListFits
  <2> QED BY <2>1, <2>2, <2>3 DEF Fits, MemTypes, Idle
<1>7. /\ next'[victim] = h /\ \A x \in Objs \ {victim} : next'[x] = next[x]
      /\ retired'[Loop] = victim
  BY <1>1, <1>4, <1>6 DEF Fits, MemTypes
<1>8. /\ scan'[Loop].i \in {NULL, victim}
      /\ scan'[Loop].p = NULL \/ (scan'[Loop].i = NULL /\ scan'[Loop].p = scan[Loop].p)
      /\ scan'[Loop].n = NULL \/ (scan'[Loop].i = NULL /\ scan'[Loop].n = scan[Loop].n)
  <2>1. CASE scan' = [scan EXCEPT ![Loop] = [Idle EXCEPT !.i = victim]]
    <3>1. scan'[Loop] = [Idle EXCEPT !.i = victim]
      BY <2>1, <1>6 DEF Fits, MemTypes
    <3>2. /\ [Idle EXCEPT !.i = victim].i = victim /\ [Idle EXCEPT !.i = victim].p = NULL
          /\ [Idle EXCEPT !.i = victim].n = NULL
      BY DEF Idle
    <3>3. scan'[Loop].i = victim
      BY <3>1, <3>2, Zenon
    <3>4. scan'[Loop].p = NULL
      BY <3>1, <3>2, Zenon
    <3>5. scan'[Loop].n = NULL
      BY <3>1, <3>2, Zenon
    <3> QED BY <3>3, <3>4, <3>5, Zenon
  <2>2. CASE scan' = scan
    BY <2>2, <1>6
  <2> QED BY <1>1, <2>1, <2>2
<1> HIDE DEF h
<1>10. MemTypes'
  <2>1. nretired' \in [Threads -> Int]
    BY <1>1 DEF Fits, MemTypes
  <2>2. next' \in [Objs -> ObjOrNull] /\ retired' \in [Threads -> ObjOrNull]
    BY <1>1, <1>4, <1>6 DEF Fits, MemTypes, ObjOrNull
  <2>3. scan' \in [Threads -> [i : ObjOrNull, p : ObjOrNull, n : ObjOrNull,
                               left : SUBSET Threads, begun : BOOLEAN]]
    <3>1. [Idle EXCEPT !.i = victim] \in [i : ObjOrNull, p : ObjOrNull, n : ObjOrNull,
                                          left : SUBSET Threads, begun : BOOLEAN]
      BY <1>4 DEF Idle, ObjOrNull
    <3>2. scan \in [Threads -> [i : ObjOrNull, p : ObjOrNull, n : ObjOrNull,
                               left : SUBSET Threads, begun : BOOLEAN]]
      BY DEF Fits, MemTypes
    <3>3. CASE scan' = [scan EXCEPT ![Loop] = [Idle EXCEPT !.i = victim]]
      BY <3>1, <3>2, <3>3
    <3>4. CASE scan' = scan
      BY <3>2, <3>4
    <3> QED BY <1>1, <3>3, <3>4
  <2> QED BY <1>1, <2>1, <2>2, <2>3 DEF Fits, MemTypes
<1>11. QueueTypes'
  BY <1>1, <1>3 DEF Fits, QueueTypes, ObjOrNull
<1>12. ListFits(pos)'
  BY <1>1, <1>4, <1>5, <1>7 DEF Fits, ListFits
<1>13. NewFits(pos)'
  <2>1. ASSUME NEW x \in Objs, Isolated(pos, x) PROVE Isolated(pos, x)'
    BY <2>1, <1>4, <1>7, <1>8, <1>6 DEF Isolated, h
  <2>2. \A u \in Threads : pc'[u] \in Unlinked => pc[u] \in Unlinked
    BY <1>2, <1>3
  <2> QED BY <2>1, <2>2, <1>1 DEF Fits, NewFits
<1>14. AppendFits(pos)'
  <2> SUFFICES ASSUME NEW u \in Threads PROVE AppenderFits(pos, u)'
    BY DEF AppendFits
  <2>1. CASE u = Loop
    BY <2>1, <1>2, <1>3 DEF AppenderFits
  <2>2. CASE u # Loop
    BY <2>2, <1>1, <1>3 DEF Fits, AppendFits, AppenderFits, Follows
  <2> QED BY <2>1, <2>2
<1>15. LoopAppends(pos)'
  BY <1>2, <1>3 DEF LoopAppends
<1>16. LoopWorks(pos)' /\ OrderFits(pos)'
  BY <1>1, <1>2, <1>3 DEF Fits, LoopWorks, OrderFits
<1>17. RetiredFits(pos)'
  <2>1. \A x \in Objs : pos[x] < pos[torun] => pos[x] < pos[victim] \/ x = victim
    BY <1>4 DEF Fits, ListFits
  <2>2. \A x \in Objs : pos[x] < pos[victim] /\ next[x] # NULL =>
            /\ next[x] \in Objs /\ pos[next[x]] < pos[x] /\ next[x] # victim
            /\ mem[x] = "live" => mem[next[x]] = "live" /\ next[x] # h
    BY <1>4, <1>6 DEF Fits, RetiredFits, ObjOrNull, h
  <2>3. \A x \in Objs : pos[x] < pos[torun] /\ next'[x] # NULL =>
            /\ pos[next'[x]] < pos[x]
            /\ mem[x] = "live" => mem[next'[x]] = "live" /\ next'[x] # victim
    BY <2>1, <2>2, <1>4, <1>6, <1>7
  <2>4. ASSUME NEW x \in Objs, NEW y \in Objs,
               pos[x] < pos[torun], mem[x] = "live", next'[x] # NULL,
               pos[y] < pos[torun], mem[y] = "live", next'[x] = next'[y]
        PROVE  x = y
    <3>1. CASE x # victim /\ y # victim
      <4>1. /\ pos[x] < pos[Low] /\ next[x] # NULL /\ pos[y] < pos[Low] /\ next[x] = next[y]
        BY <3>1, <2>1, <2>4, <1>4, <1>7
      <4> QED BY <4>1, <2>4 DEF Fits, RetiredFits
    <3>2. CASE x = victim \/ y = victim
      BY <3>2, <2>1, <2>2, <2>4, <1>6, <1>7
    <3> QED BY <3>1, <3>2
  <2>5. /\ scan'[Loop].p # NULL => pos[scan'[Loop].p] < pos[torun] /\ mem[scan'[Loop].p] = "live"
        /\ scan'[Loop].n # NULL => pos[scan'[Loop].n] < pos[torun] /\ mem[scan'[Loop].n] = "live"
    <3>1. scan[Loop].p \in ObjOrNull /\ scan[Loop].n \in ObjOrNull
      BY <1>6 DEF Fits, MemTypes
    <3>2. /\ scan[Loop].p # NULL => pos[scan[Loop].p] < pos[victim] /\ mem[scan[Loop].p] = "live"
          /\ scan[Loop].n # NULL => pos[scan[Loop].n] < pos[victim] /\ mem[scan[Loop].n] = "live"
      BY <1>4 DEF Fits, RetiredFits
    <3> QED BY <3>1, <3>2, <1>4, <1>8 DEF ObjOrNull
  <2> QED BY <2>3, <2>4, <2>5, <1>1, <1>3, <1>4, <1>5, <1>6, <1>7, <1>8 DEF RetiredFits
<1>18. IssuedFits(pos)'
  <2>1. \A u \in Enqueuers : pc'[u] \in Appending => pc[u] \in Appending
    BY <1>3 DEF Enqueuers
  <2> QED BY <2>1, <1>1 DEF Fits, IssuedFits
<1> QED
  BY <1>10, <1>11, <1>12, <1>13, <1>14, <1>15, <1>16, <1>17, <1>18 DEF Fits

\* A step of the scan: what is left to show.
LEMMA ScanFrame ==
    ASSUME NEW pos \in [Objs -> Nat], Fits(pos), MemTypes',
           UNCHANGED <<cq, pc, local, loopVars, hist>>,
           \A o \in Objs : mem[o] # "none" <=> mem'[o] # "none",
           \A o \in Objs : mem[o] = "live" /\ mem'[o] # "live" => o = scan[Loop].i,
           \A o \in Objs : pos[o] >= pos[Low] => next'[o] = next[o],
           \A o \in Objs : Isolated(pos, o) => Isolated(pos, o)',
           RetiredFits(pos)'
    PROVE  Fits(pos)'
<1>1. UNCHANGED <<pc, first, last, node, ep, ptr, nxt, torun, victim, issued, executed>>
  BY DEF cq, local, loopVars, hist
<1>2. Low' = Low
  BY <1>1 DEF Low
<1>3. QueueTypes'
  BY <1>1 DEF Fits, QueueTypes
<1>4. ListFits(pos)'
  <2>1. \A o \in Objs : pos[o] >= pos[Low] => o # scan[Loop].i
    BY Positions, SharedObjAssumption DEF Fits, RetiredFits
  <2> QED BY <1>1, <1>2, <2>1 DEF Fits, ListFits
<1>5. NewFits(pos)'
  <2>1. ASSUME NEW t \in Threads, pc[t] \in Unlinked
        PROVE  node[t] \in Objs /\ mem'[node[t]] = "live" /\ Isolated(pos, node[t])'
    <3>1. node[t] \in Objs /\ mem[node[t]] = "live" /\ Isolated(pos, node[t])
      BY <2>1 DEF Fits, NewFits
    <3>2. PICK o \in Objs : o = node[t]
      BY <3>1
    <3>3. o # scan[Loop].i
      BY <3>1, <3>2 DEF Isolated
    <3>4. Isolated(pos, o)'
      BY <3>1, <3>2
    <3>5. node' = node
      BY <1>1
    <3> QED BY <3>1, <3>2, <3>3, <3>4, <3>5 DEF Isolated
  <2> QED BY <1>1, <2>1 DEF Fits, NewFits
<1>6. AppendFits(pos)' /\ LoopAppends(pos)' /\ LoopWorks(pos)' /\ OrderFits(pos)'
  BY <1>1 DEF Fits, AppendFits, AppenderFits, Follows, LoopAppends, LoopWorks, OrderFits
<1>7. IssuedFits(pos)'
  BY <1>1, Positions, IssuedKept DEF Fits, QueueTypes
<1> QED
  BY <1>2, <1>3, <1>4, <1>5, <1>6, <1>7 DEF Fits

ScanRecords == [i : ObjOrNull, p : ObjOrNull, n : ObjOrNull,
                left : SUBSET Threads, begun : BOOLEAN]

LEMMA ScanTypes ==
    ASSUME NEW pos \in [Objs -> Nat], Fits(pos)
    PROVE  /\ scan \in [Threads -> ScanRecords] /\ scan[Loop] \in ScanRecords
           /\ next \in [Objs -> ObjOrNull] /\ retired \in [Threads -> ObjOrNull]
           /\ scan[Loop].i # NULL => scan[Loop].i \in Objs
           /\ scan[Loop].p # NULL => scan[Loop].p \in Objs
           /\ scan[Loop].n # NULL => scan[Loop].n \in Objs
BY Positions DEF Fits, MemTypes, ScanRecords, ObjOrNull

LEMMA Scan_beginFits ==
    ASSUME NEW pos \in [Objs -> Nat], Fits(pos), retire_scan, Scan_begin(Loop)
    PROVE  Fits(pos)'
<1> DEFINE s == scan[Loop]
<1>1. /\ scan' = [scan EXCEPT ![Loop].n = next[s.i], ![Loop].left = Threads, ![Loop].begun = TRUE]
      /\ UNCHANGED <<epoch, res, ncreated, objects, retired, nretired>>
      /\ UNCHANGED <<cq, pc, local, loopVars, hist>> /\ pc[Loop] = "scan" /\ s.i # NULL
  BY DEF Scan_begin, retire_scan, Scanning
<1>2. /\ s.i \in Objs /\ next[s.i] \in ObjOrNull /\ Loop \in Threads /\ NULL \notin Objs
      /\ pos[Low] \in Nat
  BY <1>1, ScanTypes, Positions
<1>3. scan' \in [Threads -> ScanRecords] /\ scan'[Loop].i = s.i /\ scan'[Loop].p = s.p
      /\ scan'[Loop].n = next[s.i]
  <2>1. scan'[Loop] = [s EXCEPT !.n = next[s.i], !.left = Threads, !.begun = TRUE]
    BY <1>1, <1>2, ScanTypes
  <2>2. scan'[Loop] \in ScanRecords /\ scan'[Loop].i = s.i /\ scan'[Loop].p = s.p
        /\ scan'[Loop].n = next[s.i]
    BY <2>1, <1>2, ScanTypes DEF ScanRecords
  <2>3. scan' = [scan EXCEPT ![Loop] = scan'[Loop]]
    BY <1>1, <2>1, <1>2, ScanTypes
  <2> QED BY <2>2, <2>3, ScanTypes
<1>4. UNCHANGED <<created, retiredAt, next, mem, first, torun, victim>> /\ Low' = Low
  BY <1>1 DEF objects, cq, loopVars, Low
<1>5. MemTypes'
  BY <1>1, <1>3, <1>4 DEF Fits, MemTypes, ScanRecords
<1>6. \A o \in Objs : Isolated(pos, o) => Isolated(pos, o)'
  BY <1>1, <1>2, <1>3, <1>4 DEF Isolated
<1>7. RetiredFits(pos)'
  <2>1. next[s.i] # NULL => pos[next[s.i]] < pos[Low] /\ mem[next[s.i]] = "live"
    <3>1. pos[s.i] < pos[Low] /\ mem[s.i] = "live"
      BY <1>1 DEF Fits, RetiredFits
    <3>2. next[s.i] # NULL => pos[next[s.i]] < pos[s.i] /\ mem[next[s.i]] = "live"
                              /\ next[s.i] \in Objs
      BY <3>1, <1>2 DEF Fits, RetiredFits, ObjOrNull
    <3> QED BY <3>1, <3>2, <1>2
  <2> QED BY <2>1, <1>1, <1>3, <1>4 DEF Fits, RetiredFits
<1> QED
  BY <1>1, <1>4, <1>5, <1>6, <1>7, ScanFrame

\* On to the next object, with prev before it.
LEMMA AdvanceIs ==
    ASSUME NEW s \in ScanRecords, NEW prev \in ObjOrNull
    PROVE  /\ Advance(s, prev) \in ScanRecords /\ Advance(s, prev).i = s.n
           /\ Advance(s, prev).p = prev /\ Advance(s, prev).n = NULL
           /\ Advance(s, prev).begun = FALSE
BY DEF Advance, Idle, ScanRecords, ObjOrNull

LEMMA Scan_compareFits ==
    ASSUME NEW pos \in [Objs -> Nat], Fits(pos), retire_scan, Scan_compare(Loop)
    PROVE  Fits(pos)'
<1> DEFINE s == scan[Loop]
           u == CHOOSE u \in s.left : TRUE
           r == IF Conflicts(res[u], s.i) THEN Advance(s, s.i) ELSE [s EXCEPT !.left = @ \ {u}]
<1>1. /\ scan' = [scan EXCEPT ![Loop] = r]
      /\ UNCHANGED <<epoch, res, ncreated, objects, retired, nretired>>
      /\ UNCHANGED <<cq, pc, local, loopVars, hist>> /\ pc[Loop] = "scan" /\ s.i # NULL
  BY DEF Scan_compare, retire_scan, Scanning
<1>2. /\ s.i \in Objs /\ s.i \in ObjOrNull /\ s \in ScanRecords /\ Loop \in Threads /\ NULL \notin Objs
  BY <1>1, ScanTypes, Positions DEF ObjOrNull
<1>3. /\ r \in ScanRecords
      /\ \/ r.i = s.n /\ r.p = s.i /\ r.n = NULL
         \/ r.i = s.i /\ r.p = s.p /\ r.n = s.n
  <2>1. Advance(s, s.i) \in ScanRecords /\ Advance(s, s.i).i = s.n /\ Advance(s, s.i).p = s.i
        /\ Advance(s, s.i).n = NULL
    BY <1>2, AdvanceIs
  <2>2. [s EXCEPT !.left = @ \ {u}] \in ScanRecords
        /\ [s EXCEPT !.left = @ \ {u}].i = s.i /\ [s EXCEPT !.left = @ \ {u}].p = s.p
        /\ [s EXCEPT !.left = @ \ {u}].n = s.n
    BY <1>2 DEF ScanRecords
  <2> QED BY <2>1, <2>2
<1> HIDE DEF r
<1>4. scan' \in [Threads -> ScanRecords] /\ scan'[Loop] = r
  BY <1>1, <1>2, <1>3, ScanTypes
<1>5. UNCHANGED <<created, retiredAt, next, mem, first, torun, victim>> /\ Low' = Low
  BY <1>1 DEF objects, cq, loopVars, Low
<1>6. MemTypes'
  BY <1>1, <1>4, <1>5 DEF Fits, MemTypes, ScanRecords
<1>7. \A o \in Objs : Isolated(pos, o) => Isolated(pos, o)'
  BY <1>1, <1>2, <1>3, <1>4, <1>5 DEF Isolated
<1>8. RetiredFits(pos)'
  <2>1. /\ r.i # NULL => pos[r.i] < pos[Low] /\ mem[r.i] = "live"
        /\ r.p # NULL => pos[r.p] < pos[Low] /\ mem[r.p] = "live"
        /\ r.n # NULL => pos[r.n] < pos[Low] /\ mem[r.n] = "live"
        /\ r.i # NULL /\ r.p = NULL => retired[Loop] = r.i
        /\ r.i # NULL /\ r.p # NULL => next[r.p] = r.i
        /\ r.i # NULL /\ r.n # NULL => r.n = next[r.i]
    BY <1>1, <1>3 DEF Fits, RetiredFits
  <2> QED BY <2>1, <1>1, <1>4, <1>5 DEF Fits, RetiredFits
<1> QED
  BY <1>1, <1>5, <1>6, <1>7, <1>8, ScanFrame

LEMMA Scan_freeFits ==
    ASSUME NEW pos \in [Objs -> Nat], Fits(pos), retire_scan, Scan_free(Loop)
    PROVE  Fits(pos)'
<1> DEFINE s == scan[Loop]
<1>1. /\ \/ /\ s.p # NULL /\ next' = [next EXCEPT ![s.p] = s.n] /\ retired' = retired
         \/ /\ s.p = NULL /\ retired' = [retired EXCEPT ![Loop] = s.n] /\ next' = next
      /\ mem' = [mem EXCEPT ![s.i] = "freed"]
      /\ scan' = [scan EXCEPT ![Loop] = Advance(s, s.p)]
      /\ UNCHANGED <<epoch, res, ncreated, created, retiredAt, nretired>>
      /\ UNCHANGED <<cq, pc, local, loopVars, hist>> /\ pc[Loop] = "scan" /\ s.i # NULL
  BY DEF Scan_free, retire_scan, Scanning
<1>2. /\ s \in ScanRecords /\ Loop \in Threads /\ NULL \notin Objs /\ s.i \in Objs
      /\ s.p \in ObjOrNull /\ s.n \in ObjOrNull
      /\ s.p # NULL => s.p \in Objs
      /\ s.n # NULL => s.n \in Objs
      /\ next \in [Objs -> ObjOrNull] /\ retired \in [Threads -> ObjOrNull]
      /\ pos[Low] \in Nat /\ Low \in Objs
  BY <1>1, ScanTypes, Positions DEF ScanRecords
<1>3. /\ scan' \in [Threads -> ScanRecords] /\ scan'[Loop].i = s.n
      /\ scan'[Loop].p = s.p /\ scan'[Loop].n = NULL
  <2>1. scan'[Loop] = Advance(s, s.p)
    BY <1>1, <1>2, ScanTypes
  <2> QED BY <2>1, <1>1, <1>2, AdvanceIs, ScanTypes
<1>4. UNCHANGED <<first, torun, victim>> /\ Low' = Low
  BY <1>1 DEF cq, loopVars, Low
<1>5. mem'[s.i] = "freed" /\ mem[s.i] = "live" /\ \A o \in Objs \ {s.i} : mem'[o] = mem[o]
  BY <1>1, <1>2 DEF Fits, MemTypes, RetiredFits
\* The place of s.i in the list.
<1>6. /\ pos[s.i] < pos[Low] /\ next[s.i] # s.i
      /\ s.p # NULL => /\ pos[s.p] < pos[Low] /\ mem[s.p] = "live" /\ next[s.p] = s.i
                       /\ pos[s.i] < pos[s.p] /\ s.p # s.i
      /\ s.p = NULL => retired[Loop] = s.i
      /\ s.n # NULL => /\ s.n = next[s.i] /\ pos[s.n] < pos[s.i] /\ s.n # s.i
                       /\ mem[s.n] = "live" /\ pos[s.n] < pos[Low]
  <2>1. /\ pos[s.i] < pos[Low]
        /\ s.p # NULL => pos[s.p] < pos[Low] /\ mem[s.p] = "live" /\ next[s.p] = s.i
        /\ s.p = NULL => retired[Loop] = s.i
        /\ s.n # NULL => s.n = next[s.i] /\ mem[s.n] = "live"
    BY <1>1 DEF Fits, RetiredFits
  <2>2. \A x \in Objs : pos[x] < pos[Low] /\ next[x] # NULL => pos[next[x]] < pos[x]
    BY DEF Fits, RetiredFits
  <2> QED BY <2>1, <2>2, <1>1, <1>2
<1>7. /\ \A x \in Objs : x # s.p => next'[x] = next[x]
      /\ s.p # NULL => next'[s.p] = s.n /\ retired'[Loop] = retired[Loop]
      /\ s.p = NULL => retired'[Loop] = s.n
  BY <1>1, <1>2
<1> HIDE DEF s
<1>8. MemTypes'
  <2>1. next' \in [Objs -> ObjOrNull] /\ retired' \in [Threads -> ObjOrNull]
    BY <1>1, <1>2
  <2>2. mem' \in [Objs -> {"none", "live", "freed"}]
    BY <1>1 DEF Fits, MemTypes
  <2> QED BY <2>1, <2>2, <1>1, <1>3 DEF Fits, MemTypes, ScanRecords
<1>9. \A o \in Objs : Isolated(pos, o) => Isolated(pos, o)'
  <2> SUFFICES ASSUME NEW o \in Objs, Isolated(pos, o) PROVE Isolated(pos, o)'
    OBVIOUS
  <2>1. /\ pos[o] = 0 /\ next[o] = NULL /\ (\A x \in Objs : next[x] # o) /\ retired[Loop] # o
        /\ s.i # o /\ s.p # o /\ s.n # o
    BY DEF Isolated, s
  <2>2. next'[o] = NULL
    BY <2>1, <1>7
  <2>3. retired'[Loop] # o
    <3>1. CASE s.p = NULL
      BY <3>1, <2>1, <1>7
    <3>2. CASE s.p # NULL
      BY <3>2, <2>1, <1>7
    <3> QED BY <3>1, <3>2
  <2>4. \A x \in Objs : next'[x] # o
    <3> SUFFICES ASSUME NEW x \in Objs PROVE next'[x] # o
      OBVIOUS
    <3>1. CASE x = s.p
      <4>1. s.p # NULL
        BY <3>1, <1>2
      <4>2. next'[x] = s.n
        BY <3>1, <4>1, <1>7
      <4> QED BY <4>2, <2>1
    <3>2. CASE x # s.p
      BY <3>2, <2>1, <1>7
    <3> QED BY <3>1, <3>2
  <2> QED BY <2>1, <2>2, <2>3, <2>4, <1>2, <1>3 DEF Isolated
\* No live object of the list refers to s.i any more.
<1>10. \A x \in Objs : pos[x] < pos[Low] /\ mem'[x] = "live" /\ next'[x] # NULL =>
           /\ next'[x] # s.i /\ mem'[next'[x]] = "live" /\ next'[x] # retired'[Loop]
  <2> SUFFICES ASSUME NEW x \in Objs, pos[x] < pos[Low], mem'[x] = "live", next'[x] # NULL
               PROVE  next'[x] # s.i /\ mem'[next'[x]] = "live" /\ next'[x] # retired'[Loop]
    OBVIOUS
  <2>0. x # s.i /\ mem[x] = "live"
    BY <1>5
  <2>1. CASE x = s.p
    <3>1. next'[x] = s.n /\ s.n # NULL /\ s.p # NULL /\ retired'[Loop] = retired[Loop]
      BY <2>1, <1>2, <1>7
    <3>2. s.n # retired[Loop]
      BY <3>1, <1>2, <1>5, <1>6 DEF Fits, RetiredFits
    <3> QED BY <3>1, <3>2, <1>2, <1>5, <1>6
  <2>2. CASE x # s.p
    <3>1. next'[x] = next[x] /\ next[x] \in Objs
      BY <2>2, <1>2, <1>7 DEF ObjOrNull
    <3>2. mem[next[x]] = "live" /\ next[x] # retired[Loop]
      BY <2>0, <3>1 DEF Fits, RetiredFits
    <3>3. next[x] # s.i
      <4>1. CASE s.p = NULL
        BY <4>1, <3>2, <1>6
      <4>2. CASE s.p # NULL
        <5> SUFFICES ASSUME next[x] = s.i PROVE FALSE
          OBVIOUS
        <5>1. s.p \in Objs /\ next[s.p] = next[x] /\ pos[s.p] < pos[Low] /\ mem[s.p] = "live"
              /\ next[x] # NULL
          BY <4>2, <1>1, <1>2, <1>6, <3>1
        <5>2. x = s.p
          BY <5>1, <2>0 DEF Fits, RetiredFits
        <5> QED BY <5>2, <2>2
      <4> QED BY <4>1, <4>2
    <3>4. next[x] # retired'[Loop]
      <4>1. CASE s.p # NULL
        BY <4>1, <3>2, <1>7
      <4>2. CASE s.p = NULL
        <5> SUFFICES ASSUME next[x] = s.n, s.n # NULL PROVE FALSE
          BY <4>2, <1>7, <3>1, <1>2
        <5>1. next[x] = next[s.i] /\ next[x] # NULL
          BY <1>6
        <5>2. x = s.i
          BY <5>1, <2>0, <1>2, <1>5, <1>6 DEF Fits, RetiredFits
        <5> QED BY <5>2, <2>0
      <4> QED BY <4>1, <4>2
    <3> QED BY <3>1, <3>2, <3>3, <3>4, <1>5
  <2> QED BY <2>1, <2>2
<1>11. \A x \in Objs : pos[x] < pos[Low] /\ next'[x] # NULL => pos[next'[x]] < pos[x]
  <2>1. \A x \in Objs : pos[x] < pos[Low] /\ next[x] # NULL => pos[next[x]] < pos[x]
    BY DEF Fits, RetiredFits
  <2>2. s.p # NULL /\ s.n # NULL => pos[s.n] < pos[s.p]
    BY <1>2, <1>6
  <2> QED BY <2>1, <2>2, <1>2, <1>7
<1>12. ASSUME NEW x \in Objs, NEW y \in Objs,
              pos[x] < pos[Low], mem'[x] = "live", next'[x] # NULL,
              pos[y] < pos[Low], mem'[y] = "live", next'[x] = next'[y]
       PROVE  x = y
  <2>1. x # s.i /\ y # s.i /\ mem[x] = "live" /\ mem[y] = "live"
    BY <1>5, <1>12
  <2>2. \A v, w \in Objs : /\ pos[v] < pos[Low] /\ mem[v] = "live" /\ next[v] # NULL
                           /\ pos[w] < pos[Low] /\ mem[w] = "live" /\ next[v] = next[w]
                           => v = w
    BY DEF Fits, RetiredFits
  <2>3. CASE x # s.p /\ y # s.p
    <3>1. next'[x] = next[x] /\ next'[y] = next[y]
      BY <2>3, <1>7
    <3> QED BY <3>1, <2>1, <2>2, <1>12
  <2>4. CASE x = s.p /\ y # s.p
    <3>1. next[s.i] = s.n /\ s.n # NULL /\ next[y] = s.n
      BY <2>4, <1>2, <1>6, <1>7, <1>12
    <3>2. y = s.i
      BY <3>1, <2>1, <2>2, <1>2, <1>5, <1>6, <1>12
    <3> QED BY <3>2, <2>1
  <2>5. CASE y = s.p /\ x # s.p
    <3>1. next[s.i] = s.n /\ s.n # NULL /\ next[x] = s.n
      BY <2>5, <1>2, <1>6, <1>7, <1>12
    <3>2. x = s.i
      BY <3>1, <2>1, <2>2, <1>2, <1>5, <1>6, <1>12
    <3> QED BY <3>2, <2>1
  <2> QED BY <2>3, <2>4, <2>5
<1>13. RetiredFits(pos)'
  <2>1. retired'[Loop] # NULL => pos[retired'[Loop]] < pos[Low] /\ mem'[retired'[Loop]] = "live"
    <3>1. CASE s.p = NULL
      BY <3>1, <1>2, <1>5, <1>6, <1>7
    <3>2. CASE s.p # NULL
      <4>1. retired[Loop] # NULL => pos[retired[Loop]] < pos[Low] /\ mem[retired[Loop]] = "live"
                                    /\ retired[Loop] \in Objs
        BY <1>2 DEF Fits, RetiredFits, ObjOrNull
      <4>2. retired[Loop] # s.i
        BY <3>2, <1>1, <1>2, <1>6 DEF Fits, RetiredFits
      <4> QED BY <3>2, <4>1, <4>2, <1>5, <1>7
    <3> QED BY <3>1, <3>2
  <2>2. /\ s.n # NULL => pos[s.n] < pos[Low] /\ mem'[s.n] = "live"
        /\ s.p # NULL => pos[s.p] < pos[Low] /\ mem'[s.p] = "live"
    BY <1>2, <1>5, <1>6
  <2>3. /\ s.n # NULL /\ s.p = NULL => retired'[Loop] = s.n
        /\ s.n # NULL /\ s.p # NULL => next'[s.p] = s.n
    BY <1>7
  <2>4. pc'[Loop] = "scan"
    BY <1>1
  <2> QED BY <2>1, <2>2, <2>3, <2>4, <1>3, <1>4, <1>10, <1>11, <1>12 DEF RetiredFits
<1>14. \A o \in Objs : pos[o] >= pos[Low] => next'[o] = next[o]
  BY <1>2, <1>6, <1>7
<1>15. /\ \A o \in Objs : mem[o] # "none" <=> mem'[o] # "none"
       /\ \A o \in Objs : mem[o] = "live" /\ mem'[o] # "live" => o = scan[Loop].i
  BY <1>5 DEF s
<1> QED
  BY <1>1, <1>8, <1>9, <1>13, <1>14, <1>15, ScanFrame


-----------------------------------------------------------------------------
(* The first theorem: initialization, one step, and the order. *)

LEMMA InitFits ==
    ASSUME Init, NEW pos, pos = [o \in Objs |-> IF o = Dummy0 THEN 1 ELSE 0]
    PROVE  pos \in [Objs -> Nat] /\ Fits(pos)
<1>0. /\ Loop \in Threads /\ Dummies \subseteq Objs /\ Cmds \subseteq Objs /\ NULL \notin Objs
      /\ Dummy0 \in Dummies /\ Enqueuers \subseteq Threads
  BY CommandQueueAssumption, SharedObjAssumption DEF Enqueuers
<1>1. /\ first = Dummy0 /\ last = Dummy0 /\ epoch = 0
      /\ mem = [o \in Objs |-> IF o = Dummy0 THEN "live" ELSE "none"]
      /\ next = [o \in Objs |-> NULL]
      /\ created = [o \in Objs |-> 0] /\ retiredAt = [o \in Objs |-> 0]
      /\ res \in [Threads -> ResGarbage] /\ ncreated = [t \in Threads |-> 0]
      /\ retired = [t \in Threads |-> NULL] /\ nretired = [t \in Threads |-> 0]
      /\ scan = [t \in Threads |-> Idle]
      /\ pc = [t \in Threads |-> IF t = Loop THEN "wait" ELSE "idle"]
      /\ node = [t \in Threads |-> NULL] /\ ep = [t \in Threads |-> 0]
      /\ ptr = [t \in Threads |-> NULL] /\ nxt = [t \in Threads |-> NULL]
      /\ torun = NULL /\ victim = NULL
      /\ issued = [t \in Threads |-> <<>>] /\ executed = <<>>
  BY DEF Init, SOM_init, initCommandQueue
<1>2. pos \in [Objs -> Nat] /\ \A o \in Objs : pos[o] = IF o = Dummy0 THEN 1 ELSE 0
  OBVIOUS
<1>3. /\ pc[Loop] = "wait" /\ \A t \in Enqueuers : pc[t] = "idle"
  BY <1>0, <1>1 DEF Enqueuers
<1>4. /\ "wait" \notin Working /\ "wait" \notin Appending /\ "wait" \notin Pointing
      /\ "idle" \notin Appending /\ "idle" \notin Unlinked /\ "idle" \notin Pointing
      /\ "wait" \notin Unlinked /\ "wait" \in LoopPlaces /\ "idle" \in EnqueuerPlaces
  BY DEF Working, Appending, Pointing, Unlinked, LoopPlaces, EnqueuerPlaces
<1>5. Low = Dummy0
  BY <1>1, <1>3, <1>4, LowIsFirst
<1>6. /\ scan[Loop].i = NULL /\ scan[Loop].p = NULL /\ scan[Loop].n = NULL
      /\ scan \in [Threads -> [i : ObjOrNull, p : ObjOrNull, n : ObjOrNull,
                               left : SUBSET Threads, begun : BOOLEAN]]
  <2>1. Idle \in [i : ObjOrNull, p : ObjOrNull, n : ObjOrNull,
                  left : SUBSET Threads, begun : BOOLEAN]
        /\ Idle.i = NULL /\ Idle.p = NULL /\ Idle.n = NULL
    BY DEF Idle, ObjOrNull
  <2>2. scan[Loop] = Idle
    BY <1>0, <1>1
  <2> QED BY <1>1, <2>1, <2>2
<1>7. MemTypes
  <2>1. 0 \in Epochs /\ ResGarbage \subseteq Epochs
    BY SharedObjAssumption DEF Epochs
  <2> QED BY <1>1, <1>6, <2>1 DEF MemTypes, ObjOrNull
<1>8. QueueTypes
  <2>1. 0 \in Epochs
    BY SharedObjAssumption DEF Epochs
  <2> QED BY <1>0, <1>1, <1>3, <1>4, <2>1 DEF QueueTypes, ObjOrNull
<1>9. ListFits(pos)
  BY <1>0, <1>1, <1>2, <1>5 DEF ListFits
<1>10. NewFits(pos)
  <2>1. \A t \in Threads : pc[t] \notin Unlinked
    BY <1>1, <1>4
  <2>2. \A o \in Objs : mem[o] = "none" => o # Dummy0
    BY <1>1
  <2> QED BY <2>1, <2>2, <1>0, <1>1, <1>2, <1>6 DEF NewFits, Isolated
<1>11. AppendFits(pos)
  BY <1>1, <1>4 DEF AppendFits, AppenderFits
<1>12. LoopAppends(pos) /\ LoopWorks(pos)
  BY <1>0, <1>1, <1>2, <1>3, <1>4 DEF LoopAppends, LoopWorks, Working
<1>13. RetiredFits(pos)
  BY <1>0, <1>1, <1>6 DEF RetiredFits
<1>14. OrderFits(pos)
  BY <1>1 DEF OrderFits
<1>15. IssuedFits(pos)
  <2>1. \A t \in Enqueuers : pc[t] \notin Appending /\ issued[t] = <<>>
    BY <1>0, <1>1, <1>3, <1>4
  <2>2. \A c \in Cmds : c # Dummy0
    BY CommandQueueAssumption
  <2> QED BY <2>1, <2>2, <1>0, <1>2 DEF IssuedFits
<1> QED
  BY <1>2, <1>7, <1>8, <1>9, <1>10, <1>11, <1>12, <1>13, <1>14, <1>15 DEF Fits

\* The place in the queue that a step gives to nodes.
Placed(pos, q) ==
    \/ q = pos
    \/ \E t \in Threads : /\ Enqueue_link(t) /\ next[ptr[t]] = NULL /\ pos[ptr[t]] >= pos[Low]
                          /\ q = [pos EXCEPT ![node[t]] = pos[ptr[t]] + 1]

LEMMA AppendStepFits ==
    ASSUME NEW pos \in [Objs -> Nat], NEW t \in Threads, Fits(pos), EnqueueLockfree(t)
    PROVE  \E q \in [Objs -> Nat] : Placed(pos, q) /\ Fits(q)'
<1>1. CASE Enqueue_link(t)
  <2>0. PICK q : q = IF next[ptr[t]] = NULL /\ pos[ptr[t]] >= pos[Low]
                     THEN [pos EXCEPT ![node[t]] = pos[ptr[t]] + 1] ELSE pos
    OBVIOUS
  <2>1. q \in [Objs -> Nat] /\ Fits(q)'
    BY <1>1, <2>0, Enqueue_linkFits
  <2>2. Placed(pos, q)
    BY <1>1, <2>0 DEF Placed
  <2> QED BY <2>1, <2>2
<1>2. CASE ~Enqueue_link(t)
  <2>1. Fits(pos)'
    BY <1>2, Reserve_epochFits, Reserve_announceFits, Reserve_loadFits, Reserve_confirmFits,
       Enqueue_nextFits, Enqueue_helpFits, Enqueue_swingFits, Enqueue_releaseFits
       DEF EnqueueLockfree
  <2> QED BY <2>1 DEF Placed
<1> QED BY <1>1, <1>2

LEMMA ScanStepFits ==
    ASSUME NEW pos \in [Objs -> Nat], Fits(pos), retire_scan
    PROVE  Fits(pos)'
BY Scan_beginFits, Scan_compareFits, Scan_freeFits DEF retire_scan

LEMMA LoopStepFits ==
    ASSUME NEW pos \in [Objs -> Nat], Fits(pos), LoopStep \/ processEvents_other,
           ~EnqueueLockfree(Loop)
    PROVE  Fits(pos)'
BY SleepFits, runCommands_firstFits, runCommands_setwakeFits, runCommands_createFits,
   runCommands_cutFits, runCommands_execFits, runCommands_afterFits, runCommands_doneFits,
   retire_stampFits, retire_pushFits, ScanStepFits, retire_doneFits
   DEF LoopStep

LEMMA StutterFits ==
    ASSUME NEW pos \in [Objs -> Nat], Fits(pos), UNCHANGED vars
    PROVE  Fits(pos)'
<1>1. UNCHANGED <<epoch, res, ncreated, created, retiredAt, next, mem, retired, nretired, scan>>
  BY DEF vars, soVars, objects, lists
<1>2. UNCHANGED <<first, last, pc, node, ep, ptr, nxt, torun, victim, issued, executed>>
  BY DEF vars, cq, local, loopVars, hist
<1>3. Low' = Low
  BY <1>2 DEF Low
<1>4. MemTypes' /\ QueueTypes'
  BY <1>1, <1>2 DEF Fits, MemTypes, QueueTypes
<1>5. NewFits(pos)'
  BY <1>1, <1>2, NewKept DEF Fits
<1>6. AppendFits(pos)' /\ LoopAppends(pos)' /\ LoopWorks(pos)'
  BY <1>2 DEF Fits, AppendFits, AppenderFits, Follows, LoopAppends, LoopWorks
<1>7. ListFits(pos)' /\ RetiredFits(pos)'
  BY <1>1, <1>2, <1>3, ListKept, RetiredKept DEF Fits
<1>8. OrderFits(pos)' /\ IssuedFits(pos)'
  BY <1>1, <1>2 DEF Fits, OrderFits, IssuedFits
<1> QED
  BY <1>4, <1>5, <1>6, <1>7, <1>8 DEF Fits

LEMMA StepFits ==
    ASSUME NEW pos \in [Objs -> Nat], Fits(pos), [Next]_vars
    PROVE  \E q \in [Objs -> Nat] : Placed(pos, q) /\ Fits(q)'
<1>0. Loop \in Threads /\ Enqueuers \subseteq Threads
  BY CommandQueueAssumption DEF Enqueuers
<1>1. ASSUME NEW t \in Enqueuers, EnqueueLockfree(t)
      PROVE  \E q \in [Objs -> Nat] : Placed(pos, q) /\ Fits(q)'
  BY <1>0, <1>1, AppendStepFits
<1>2. ASSUME EnqueueLockfree(Loop)
      PROVE  \E q \in [Objs -> Nat] : Placed(pos, q) /\ Fits(q)'
  BY <1>0, <1>2, AppendStepFits
<1>3. ASSUME Fits(pos)'
      PROVE  \E q \in [Objs -> Nat] : Placed(pos, q) /\ Fits(q)'
  BY <1>3 DEF Placed
<1>4. ASSUME NEW t \in Enqueuers, enqueueCommand(t)
      PROVE  Fits(pos)'
  BY <1>4, enqueueCommandFits
<1>5. ASSUME NEW t \in Enqueuers, EnqueuerStep(t), ~EnqueueLockfree(t)
      PROVE  Fits(pos)'
  BY <1>5, EnqueuerWakesFits DEF EnqueuerStep
<1>6. ASSUME LoopStep \/ processEvents_other, ~EnqueueLockfree(Loop)
      PROVE  Fits(pos)'
  BY <1>6, LoopStepFits
<1>7. CASE UNCHANGED vars
  BY <1>3, <1>7, StutterFits
<1>8. CASE Next
  BY <1>1, <1>2, <1>3, <1>4, <1>5, <1>6, <1>8 DEF Next
<1> QED BY <1>7, <1>8

Inv == \E pos \in [Objs -> Nat] : Fits(pos)

\* A position in issued[t] determines the command and the other way round.
LEMMA FitsInOrder == Inv => ExecutedInOrder
<1> SUFFICES ASSUME NEW pos \in [Objs -> Nat], Fits(pos) PROVE ExecutedInOrder
  BY DEF Inv
<1>0. Loop \in Threads /\ Cmds \subseteq Objs /\ Owner \in [Cmds -> Enqueuers]
  BY Positions, CommandQueueAssumption DEF Enqueuers
<1>1. \A i \in DOMAIN executed : executed[i] \in Cmds /\ pos[executed[i]] > 0
  BY DEF Fits, OrderFits
<1>2. \A i, j \in DOMAIN executed : i < j => pos[executed[i]] < pos[executed[j]]
  BY DEF Fits, OrderFits
<1>3. Elems(executed) \subseteq Cmds
  BY <1>1 DEF Elems
<1>4. \A i, j \in DOMAIN executed : i < j => executed[i] # executed[j]
  <2> SUFFICES ASSUME NEW i \in DOMAIN executed, NEW j \in DOMAIN executed, i < j,
                      executed[i] = executed[j]
               PROVE  FALSE
    OBVIOUS
  <2>1. pos[executed[i]] \in Nat
    BY <1>0, <1>1
  <2> QED BY <2>1, <1>2
<1>5. ASSUME NEW t \in Enqueuers, NEW c \in Cmds, Owner[c] = t, pos[c] > 0
      PROVE  IndexOf(issued[t], c) \in DOMAIN issued[t] /\ issued[t][IndexOf(issued[t], c)] = c
  <2>1. \E i \in DOMAIN issued[t] : issued[t][i] = c
    BY <1>5 DEF Fits, IssuedFits
  <2> QED BY <2>1 DEF IndexOf
<1>6. ASSUME NEW t \in Enqueuers, NEW c \in Cmds, NEW d \in Cmds, Owner[c] = t, Owner[d] = t,
             pos[c] > 0, pos[d] > 0, pos[c] < pos[d]
      PROVE  IndexOf(issued[t], c) < IndexOf(issued[t], d)
  <2> DEFINE k == IndexOf(issued[t], c)
             m == IndexOf(issued[t], d)
  <2>1. k \in DOMAIN issued[t] /\ issued[t][k] = c /\ m \in DOMAIN issued[t] /\ issued[t][m] = d
    BY <1>5, <1>6
  <2>2. k \in Int /\ m \in Int
    BY <2>1 DEF Fits, QueueTypes, Enqueuers
  <2>3. pos[c] \in Nat /\ pos[d] \in Nat
    BY <1>0
  <2>4. m < k => pos[d] < pos[c]
    <3>1. \A i, j \in DOMAIN issued[t] : i < j =>
             (pos[issued[t][j]] > 0 => pos[issued[t][i]] < pos[issued[t][j]])
      BY DEF Fits, IssuedFits
    <3> HIDE DEF k, m
    <3> QED BY <3>1, <2>1, <1>6
  <2>5. m # k
    BY <2>1, <2>3, <1>6
  <2> HIDE DEF k, m
  <2>6. k < m
    BY <2>2, <2>3, <2>4, <2>5, <1>6
  <2> QED BY <2>6 DEF k, m
<1>7. \A t \in Enqueuers : \A i, j \in DOMAIN executed :
          i < j /\ Owner[executed[i]] = t /\ Owner[executed[j]] = t
             => IndexOf(issued[t], executed[i]) < IndexOf(issued[t], executed[j])
  BY <1>1, <1>2, <1>6
<1> QED
  BY <1>3, <1>4, <1>7 DEF ExecutedInOrder

\* The service thread executes commands only, each at most once and those of a
\* thread in the order in which the thread scheduled them, whatever the number of
\* threads and commands and however often enqueueLockfree loses its races
\* (runCommands and enqueueLockfree in service.c).  No hypothesis on the epoch:
\* a node that is linked behind one already retired is lost, but never run out of
\* turn.
THEOREM CommandsInOrder == Spec => []ExecutedInOrder
<1>1. Init => Inv
  BY InitFits DEF Inv
<1>2. Inv /\ [Next]_vars => Inv'
  BY StepFits DEF Inv
<1> QED
  BY <1>1, <1>2, FitsInOrder, PTL DEF Spec

-----------------------------------------------------------------------------
(* The second theorem: while the epoch does not wrap around, what a thread   *)
(* announces protects the node it loaded from q->last.                       *)

Allocated == {o \in Objs : mem[o] # "none"}

\* The node is on the way to the list of retired nodes, its lifetime is over.
Dropped(pos, o) == pos[o] < pos[Low] \/ (pc[Loop] = "push" /\ o = victim)

\* A thread that is about to use the node it loaded from q->last, or will be
\* unless the epoch advances before it looks again.
Guarded(t) == pc[t] \in {"next", "link"} \/ (pc[t] = "confirm" /\ ep[t] = epoch)

\* The epoch it announces is one of the node's lifetime, and the scan of the
\* node has not passed over this thread.
GuardFits(pos, t) ==
    /\ mem[ptr[t]] = "live" /\ created[ptr[t]] <= ep[t]
    /\ Dropped(pos, ptr[t]) => ep[t] <= retiredAt[ptr[t]]
    /\ scan[Loop].i = ptr[t] /\ scan[Loop].begun => t \in scan[Loop].left

EpochCounts ==
    /\ epoch < Cardinality(Allocated)
    /\ \A o \in Objs : mem[o] # "none" => created[o] <= epoch
    /\ \A t \in Threads : ep[t] <= epoch

Announcing == {"load", "confirm", "next", "link"}
Announced == \A t \in Threads : pc[t] \in Announcing => res[t] = ep[t]

EpochFits(pos) ==
    /\ EpochCounts /\ Announced
    /\ \A t \in Threads : Guarded(t) => GuardFits(pos, t)

\* A step of thread t that leaves the epochs of the nodes alone.
LEMMA EpochFrame ==
    ASSUME NEW pos \in [Objs -> Nat], NEW q \in [Objs -> Nat], NEW t \in Threads,
           Fits(pos), EpochFits(pos),
           UNCHANGED <<epoch, mem, created, retiredAt, scan>>,
           \A u \in Threads \ {t} : /\ pc'[u] = pc[u] /\ ep'[u] = ep[u]
                                    /\ res'[u] = res[u] /\ ptr'[u] = ptr[u],
           \A o \in Objs : pos[o] > 0 /\ Dropped(q, o)' => Dropped(pos, o),
           ep'[t] <= epoch,
           pc'[t] \in Announcing => res'[t] = ep'[t],
           Guarded(t)' => GuardFits(q, t)'
    PROVE  EpochFits(q)'
<1>1. EpochCounts'
  <2>1. Allocated' = Allocated
    BY DEF Allocated
  <2> QED BY <2>1 DEF EpochFits, EpochCounts
<1>2. Announced'
  BY DEF EpochFits, Announced
<1>3. ASSUME NEW u \in Threads, u # t, Guarded(u)' PROVE GuardFits(q, u)'
  <2>1. /\ ptr[u] \in Objs /\ pos[ptr[u]] > 0 /\ Guarded(u)
    BY <1>3, Positions DEF Guarded, Pointing
  <2>2. GuardFits(pos, u)
    BY <2>1 DEF EpochFits
  <2>3. Dropped(q, ptr[u])' => Dropped(pos, ptr[u])
    <3>1. PICK o \in Objs : o = ptr[u]
      BY <2>1
    <3>2. Dropped(q, o)' => Dropped(pos, o)
      BY <2>1, <3>1
    <3>3. ptr'[u] = o
      BY <1>3, <3>1
    <3> QED BY <3>1, <3>2, <3>3 DEF Dropped
  <2> QED BY <1>3, <2>2, <2>3 DEF GuardFits
<1> QED
  BY <1>1, <1>2, <1>3 DEF EpochFits

\* A node that was just loaded from q->last is neither retired nor about to be.
LEMMA LastInUse ==
    ASSUME NEW pos \in [Objs -> Nat], Fits(pos)
    PROVE  mem[last] = "live" /\ ~Dropped(pos, last) /\ scan[Loop].i # last
<1>1. /\ last \in Objs /\ pos[Low] \in Nat /\ pos[last] \in Nat /\ pos[Low] <= pos[last]
      /\ NULL \notin Objs /\ pos[first] \in Nat /\ pos[first] <= pos[last]
  BY Positions
<1>2. mem[last] = "live"
  BY <1>1 DEF Fits, ListFits
<1>3. scan[Loop].i # last
  BY <1>1 DEF Fits, RetiredFits
<1>4. pc[Loop] = "push" => last # victim
  <2> SUFFICES ASSUME pc[Loop] = "push" PROVE last # victim
    OBVIOUS
  <2>1. pc[Loop] \in Working
    BY DEF Working
  <2>2. pos[torun] = pos[victim] + 1 /\ pos[torun] <= pos[first] /\ victim \in Objs
    BY <2>1, WorkFacts
  <2> QED BY <1>1, <2>2
<1> QED
  BY <1>1, <1>2, <1>3, <1>4 DEF Dropped

\* The steps of enqueueLockfree.
LEMMA AppendEpochs ==
    ASSUME NEW pos \in [Objs -> Nat], NEW q \in [Objs -> Nat], NEW t \in Threads,
           Fits(pos), EpochFits(pos), Fits(q)', EnqueueLockfree(t),
           \/ q = pos
           \/ /\ pc[t] = "link" /\ next[ptr[t]] = NULL /\ pos[ptr[t]] >= pos[Low]
              /\ q = [pos EXCEPT ![node[t]] = pos[ptr[t]] + 1]
    PROVE  EpochFits(q)'
<1>0. /\ Loop \in Threads /\ Low \in Objs /\ pos[Low] \in Nat /\ pos[Low] > 0 /\ last \in Objs
      /\ ep \in [Threads -> Epochs] /\ ptr \in [Threads -> ObjOrNull]
      /\ pc \in [Threads -> LoopPlaces \cup EnqueuerPlaces] /\ res \in [Threads -> Epochs]
      /\ epoch \in Int /\ epoch >= 0
  <2>1. epoch \in Epochs
    BY DEF Fits, MemTypes
  <2>2. epoch \in Int /\ epoch >= 0
    BY <2>1, SharedObjAssumption DEF Epochs
  <2>3. /\ pc \in [Threads -> LoopPlaces \cup EnqueuerPlaces] /\ res \in [Threads -> Epochs]
    BY DEF Fits, QueueTypes, MemTypes
  <2> QED BY <2>2, <2>3, Positions
<1>1. UNCHANGED <<epoch, mem, created, retiredAt, scan, first, torun, victim>>
  BY DEF EnqueueLockfree, Reserve_epoch, Reserve_announce, Reserve_load, Reserve_confirm,
         Enqueue_next, Enqueue_link, Enqueue_help, Enqueue_swing, Enqueue_release,
         SOM_announce, SOM_release, soVars, objects, lists, cq, loopVars
<1>2. PICK l : Goto(t, l) /\ pc[t] \in Appending /\ l \notin Working /\ l # "push"
  BY DEF EnqueueLockfree, Reserve_epoch, Reserve_announce, Reserve_load, Reserve_confirm,
         Enqueue_next, Enqueue_link, Enqueue_help, Enqueue_swing, Enqueue_release,
         Appending, Unlinked, Working
<1>3. pc'[t] = l /\ \A u \in Threads \ {t} : pc'[u] = pc[u]
  BY <1>0, <1>2 DEF Goto
<1>4. \A u \in Threads \ {t} : ep'[u] = ep[u] /\ res'[u] = res[u] /\ ptr'[u] = ptr[u]
  BY <1>0 DEF EnqueueLockfree, Reserve_epoch, Reserve_announce, Reserve_load, Reserve_confirm,
         Enqueue_next, Enqueue_link, Enqueue_help, Enqueue_swing, Enqueue_release,
         SOM_announce, SOM_release, soVars, local
<1>5. Low' = Low
  <2>1. CASE t = Loop
    BY <1>1, <1>2, <1>3, <2>1, Apart DEF Low, Working
  <2>2. CASE t # Loop
    BY <1>0, <1>1, <1>3, <2>2 DEF Low
  <2> QED BY <2>1, <2>2
<1>6. \A o \in Objs : pos[o] > 0 => q[o] = pos[o]
  <2> SUFFICES ASSUME NEW o \in Objs, pos[o] > 0, q # pos PROVE q[o] = pos[o]
    OBVIOUS
  <2>1. pos[node[t]] = 0
    BY LinkFacts
  <2> QED BY <2>1
<1>7. \A o \in Objs : pos[o] > 0 /\ Dropped(q, o)' => Dropped(pos, o)
  <2>1. pc'[Loop] = "push" => pc[Loop] = "push"
    BY <1>0, <1>2, <1>3
  <2> QED BY <2>1, <1>0, <1>1, <1>5, <1>6 DEF Dropped
<1>8. ep'[t] <= epoch
  <2>1. ep[t] <= epoch
    BY DEF EpochFits, EpochCounts
  <2> QED BY <2>1, <1>0 DEF EnqueueLockfree, Reserve_epoch, Reserve_announce, Reserve_load,
         Reserve_confirm, Enqueue_next, Enqueue_link, Enqueue_help, Enqueue_swing,
         Enqueue_release, local
<1>9. pc'[t] \in Announcing => res'[t] = ep'[t]
  <2> SUFFICES ASSUME pc'[t] \in Announcing PROVE res'[t] = ep'[t]
    OBVIOUS
  <2>1. CASE Reserve_announce(t)
    BY <2>1, <1>0 DEF Reserve_announce, SOM_announce, local
  <2>2. CASE Reserve_load(t) \/ Reserve_confirm(t) \/ Enqueue_next(t)
    <3>1. pc[t] \in Announcing /\ ep' = ep /\ res' = res
      BY <2>2 DEF Reserve_load, Reserve_confirm, Enqueue_next, soVars, local, Announcing
    <3> QED BY <3>1 DEF EpochFits, Announced
  <2>3. CASE \/ Reserve_epoch(t) \/ Enqueue_link(t) \/ Enqueue_help(t)
             \/ Enqueue_swing(t) \/ Enqueue_release(t)
    <3>1. \E m \in {"announce", "swing", "epoch", "release", "cut", "flag"} : Goto(t, m)
      BY <2>3 DEF Reserve_epoch, Enqueue_link, Enqueue_help, Enqueue_swing, Enqueue_release
    <3> QED BY <3>1, <1>0 DEF Goto, Announcing
  <2> QED BY <2>1, <2>2, <2>3 DEF EnqueueLockfree
<1>10. Guarded(t)' => GuardFits(q, t)'
  <2> SUFFICES ASSUME Guarded(t)' PROVE GuardFits(q, t)'
    OBVIOUS
  <2>1. CASE Reserve_load(t)
    <3>1. /\ ptr'[t] = last /\ ep' = ep /\ pc'[t] = "confirm" /\ ep[t] = epoch
      BY <2>1, <1>0, <1>1 DEF Reserve_load, Goto, Guarded
    <3>2. q = pos
      BY <2>1 DEF Reserve_load
    <3>3. mem[last] = "live" /\ ~Dropped(pos, last) /\ scan[Loop].i # last
      BY LastInUse
    <3>4. created[last] <= epoch
      BY <3>3, <1>0 DEF EpochFits, EpochCounts
    <3>5. PICK o \in Objs : o = last
      BY <1>0
    <3>6. pos[o] > 0
      BY <3>5, Positions
    <3>7. ~Dropped(q, o)'
      BY <3>3, <3>5, <3>6, <1>7
    <3>8. ptr'[t] = o
      BY <3>1, <3>5
    <3> QED BY <3>1, <3>3, <3>4, <3>5, <3>7, <3>8, <1>1 DEF GuardFits, Dropped
  <2>2. CASE Reserve_confirm(t) \/ Enqueue_next(t)
    <3>1. /\ ptr' = ptr /\ ep' = ep /\ Guarded(t) /\ pc[t] \in Pointing /\ pc[t] # "link"
      BY <2>2, <1>0, <1>1
         DEF Reserve_confirm, Enqueue_next, Goto, Guarded, local, SOM_confirmed, Pointing
    <3>2. q = pos /\ ptr[t] \in Objs /\ pos[ptr[t]] > 0
      BY <3>1, Positions
    <3>3. GuardFits(pos, t)
      BY <3>1 DEF EpochFits
    <3>4. Dropped(q, ptr[t])' => Dropped(pos, ptr[t])
      <4>1. PICK o \in Objs : o = ptr[t]
        BY <3>2
      <4>2. Dropped(q, o)' => Dropped(pos, o)
        BY <3>2, <4>1, <1>7
      <4> QED BY <3>1, <4>1, <4>2 DEF Dropped
    <3> QED BY <3>1, <3>3, <3>4, <1>1 DEF GuardFits
  <2>3. CASE \/ Reserve_epoch(t) \/ Enqueue_link(t) \/ Enqueue_help(t)
             \/ Enqueue_swing(t) \/ Enqueue_release(t) \/ Reserve_announce(t)
    <3>1. \E m \in {"announce", "load", "swing", "epoch", "release", "cut", "flag"} : Goto(t, m)
      BY <2>3 DEF Reserve_epoch, Enqueue_link, Enqueue_help, Enqueue_swing, Enqueue_release,
                  Reserve_announce
    <3> QED BY <3>1, <1>0 DEF Goto, Guarded
  <2> QED BY <2>1, <2>2, <2>3 DEF EnqueueLockfree
<1> QED
  BY <1>1, <1>3, <1>4, <1>7, <1>8, <1>9, <1>10, EpochFrame

\* A step of the service thread, outside enqueueLockfree, or of an enqueuer that
\* leaves the memory and the list of nodes in use alone.
LEMMA QuietEpochs ==
    ASSUME NEW pos \in [Objs -> Nat], NEW t \in Threads, NEW l, Fits(pos), EpochFits(pos),
           Goto(t, l), l \notin Announcing, l # "push", Low' = Low,
           UNCHANGED <<epoch, mem, created, retiredAt, scan, res, ep, ptr>>,
           t # Loop => victim' = victim
    PROVE  EpochFits(pos)'
<1>0. Loop \in Threads /\ pc \in [Threads -> LoopPlaces \cup EnqueuerPlaces]
  BY Positions DEF Fits, QueueTypes
<1>1. pc'[t] = l /\ \A u \in Threads \ {t} : pc'[u] = pc[u]
  BY <1>0 DEF Goto
<1>3. ~Guarded(t)'
  BY <1>1 DEF Guarded, Announcing
<1>4. ep'[t] <= epoch
  BY DEF EpochFits, EpochCounts
<1>5. CASE t = Loop
  <2>1. \A o \in Objs : pos[o] > 0 /\ Dropped(pos, o)' => Dropped(pos, o)
    BY <1>1, <1>5 DEF Dropped
  <2> QED BY <2>1, <1>1, <1>3, <1>4, EpochFrame
<1>6. CASE t # Loop
  <2>1. \A o \in Objs : pos[o] > 0 /\ Dropped(pos, o)' => Dropped(pos, o)
    BY <1>0, <1>1, <1>6 DEF Dropped
  <2> QED BY <2>1, <1>1, <1>3, <1>4, EpochFrame
<1> QED
  BY <1>5, <1>6

LEMMA EnqueuerWakesEpochs ==
    ASSUME NEW pos \in [Objs -> Nat], NEW t \in Enqueuers, Fits(pos), EpochFits(pos),
           enqueueCommand_flag(t) \/ enqueueCommand_wake(t)
    PROVE  EpochFits(pos)'
<1>0. t \in Threads /\ t # Loop /\ Loop \in Threads
      /\ pc \in [Threads -> LoopPlaces \cup EnqueuerPlaces]
  BY Positions DEF Enqueuers, Fits, QueueTypes
<1>1. PICK l : Goto(t, l) /\ l \notin Announcing /\ l # "push"
  BY DEF enqueueCommand_flag, enqueueCommand_wake, Announcing
<1>2. UNCHANGED <<epoch, mem, created, retiredAt, scan, res, ep, ptr, first, torun, victim>>
  BY DEF enqueueCommand_flag, enqueueCommand_wake, soVars, objects, lists, local, loopVars
<1>3. Low' = Low
  BY <1>0, <1>1, <1>2 DEF Goto, Low
<1> QED
  BY <1>0, <1>1, <1>2, <1>3, QuietEpochs

LEMMA QuietLoopEpochs ==
    ASSUME NEW pos \in [Objs -> Nat], Fits(pos), EpochFits(pos),
           \/ processEvents_efd \/ processEvents_other \/ clearMustWake \/ readCommandPipe
           \/ runCommands_first \/ runCommands_setwake \/ runCommands_cut
           \/ runCommands_exec \/ runCommands_after \/ runCommands_done \/ retire_done
    PROVE  EpochFits(pos)'
<1>0. Loop \in Threads /\ pc \in [Threads -> LoopPlaces \cup EnqueuerPlaces]
  BY Positions DEF Fits, QueueTypes
<1>1. PICK l : Goto(Loop, l) /\ l \notin Announcing /\ l # "push"
  BY DEF processEvents_efd, processEvents_other, clearMustWake, readCommandPipe,
         runCommands_first, runCommands_setwake, runCommands_cut, runCommands_exec,
         runCommands_after, runCommands_done, retire_done, Announcing
<1>2. UNCHANGED <<epoch, mem, created, retiredAt, scan, res, ep, ptr>>
  BY DEF processEvents_efd, processEvents_other, clearMustWake, readCommandPipe,
         runCommands_first, runCommands_setwake, runCommands_cut, runCommands_exec,
         runCommands_after, runCommands_done, retire_done, soVars, objects, lists, local
<1>3. Low' = Low
  <2>1. CASE \/ processEvents_efd \/ processEvents_other \/ clearMustWake \/ readCommandPipe
             \/ runCommands_first \/ runCommands_setwake
    BY <2>1, <1>0 DEF processEvents_efd, processEvents_other, clearMustWake, readCommandPipe,
         runCommands_first, runCommands_setwake, Goto, cq, Low
  <2>2. CASE runCommands_cut
    BY <2>2, <1>0 DEF runCommands_cut, Goto, Low
  <2>3. CASE runCommands_exec \/ retire_done
    BY <2>3, <1>0 DEF runCommands_exec, retire_done, loopVars, Goto, Low
  <2>4. CASE runCommands_after
    BY <2>4, <1>0 DEF runCommands_after, Goto, Low
  <2>5. CASE runCommands_done
    <3>1. pc[Loop] \in Working /\ pc[Loop] = "exec" /\ pc'[Loop] = "wait" /\ torun = node[Loop]
          /\ first' = first
      BY <2>5, <1>0 DEF runCommands_done, Working, Goto, cq
    <3>2. first = node[Loop] /\ Low = torun
      BY <3>1, WorkFacts
    <3>3. Low' = first'
      BY <3>1 DEF Low
    <3> QED BY <3>1, <3>2, <3>3
  <2> QED BY <2>1, <2>2, <2>3, <2>4, <2>5
<1> QED
  BY <1>0, <1>1, <1>2, <1>3, QuietEpochs

\* The lifetime of the victim ends in the current epoch: nobody announces a later one.
LEMMA StampEpochs ==
    ASSUME NEW pos \in [Objs -> Nat], Fits(pos), EpochFits(pos), retire_stamp
    PROVE  EpochFits(pos)'
<1>0. Loop \in Threads /\ pc \in [Threads -> LoopPlaces \cup EnqueuerPlaces]
      /\ retiredAt \in [Objs -> Int]
  BY Positions DEF Fits, QueueTypes, MemTypes
<1>1. /\ pc[Loop] = "stamp" /\ retiredAt' = [retiredAt EXCEPT ![victim] = epoch]
      /\ Goto(Loop, "push")
      /\ UNCHANGED <<epoch, mem, created, scan, res, ep, ptr, victim>>
  BY DEF retire_stamp, Retire_stamp, lists, local, loopVars
<1>2. /\ pc'[Loop] = "push" /\ \A u \in Threads \ {Loop} : pc'[u] = pc[u]
  BY <1>0, <1>1 DEF Goto
<1>3. Low' = victim /\ Low = victim
  BY <1>1, <1>2 DEF Low
<1>4. EpochCounts'
  <2>1. Allocated' = Allocated
    BY <1>1 DEF Allocated
  <2> QED BY <1>1, <2>1 DEF EpochFits, EpochCounts
<1>5. Announced'
  BY <1>1, <1>2 DEF EpochFits, Announced, Announcing
<1>6. ASSUME NEW u \in Threads, Guarded(u)' PROVE GuardFits(pos, u)'
  <2>1. /\ Guarded(u) /\ ptr[u] \in Objs
    BY <1>6, <1>1, <1>2, Positions DEF Guarded, Pointing
  <2>2. GuardFits(pos, u) /\ ep[u] <= epoch
    BY <2>1 DEF EpochFits, EpochCounts
  <2>3. CASE ptr[u] = victim
    <3>1. retiredAt'[ptr[u]] = epoch
      BY <2>1, <2>3, <1>0, <1>1
    <3> QED BY <3>1, <2>2, <1>1 DEF GuardFits
  <2>4. CASE ptr[u] # victim
    <3>1. retiredAt'[ptr[u]] = retiredAt[ptr[u]]
      BY <2>1, <2>4, <1>0, <1>1
    <3>2. Dropped(pos, ptr[u])' => Dropped(pos, ptr[u])
      BY <1>1, <1>3, <2>4 DEF Dropped
    <3> QED BY <3>1, <3>2, <2>2, <1>1 DEF GuardFits
  <2> QED BY <2>3, <2>4
<1> QED
  BY <1>4, <1>5, <1>6 DEF EpochFits

\* A step of the service thread's own SharedObj_retire behind the stamp.
LEMMA RetireFrame ==
    ASSUME NEW pos \in [Objs -> Nat], Fits(pos), EpochFits(pos),
           UNCHANGED <<epoch, created, retiredAt, res, ep, ptr>>, Allocated' = Allocated,
           pc[Loop] \in {"push", "scan"}, pc'[Loop] = "scan",
           \A u \in Threads \ {Loop} : pc'[u] = pc[u],
           \A o \in Objs : Dropped(pos, o)' => Dropped(pos, o),
           \A u \in Threads : Guarded(u) /\ GuardFits(pos, u) => mem'[ptr[u]] = "live",
           \A u \in Threads : Guarded(u) /\ GuardFits(pos, u) =>
               (scan'[Loop].i = ptr[u] /\ scan'[Loop].begun => u \in scan'[Loop].left)
    PROVE  EpochFits(pos)'
<1>1. EpochCounts'
  <2>1. \A o \in Objs : mem'[o] # "none" => mem[o] # "none"
    BY DEF Allocated
  <2> QED BY <2>1 DEF EpochFits, EpochCounts
<1>2. Announced'
  BY DEF EpochFits, Announced, Announcing
<1>3. ASSUME NEW u \in Threads, Guarded(u)' PROVE GuardFits(pos, u)'
  <2>1. /\ Guarded(u) /\ ptr[u] \in Objs
    BY <1>3, Positions DEF Guarded, Pointing
  <2>2. GuardFits(pos, u)
    BY <2>1 DEF EpochFits
  <2>3. Dropped(pos, ptr[u])' => Dropped(pos, ptr[u])
    <3>1. PICK o \in Objs : o = ptr[u]
      BY <2>1
    <3> QED BY <3>1 DEF Dropped
  <2> QED BY <2>1, <2>2, <2>3 DEF GuardFits
<1> QED
  BY <1>1, <1>2, <1>3 DEF EpochFits

LEMMA PushEpochs ==
    ASSUME NEW pos \in [Objs -> Nat], Fits(pos), EpochFits(pos), retire_push
    PROVE  EpochFits(pos)'
<1>0. Loop \in Threads /\ pc \in [Threads -> LoopPlaces \cup EnqueuerPlaces]
      /\ scan \in [Threads -> ScanRecords]
  BY Positions, ScanTypes DEF Fits, QueueTypes
<1>1. /\ pc[Loop] = "push" /\ Goto(Loop, "scan")
      /\ UNCHANGED <<epoch, created, retiredAt, res, ep, ptr, mem, torun>>
      /\ scan' = [scan EXCEPT ![Loop] = [Idle EXCEPT !.i = victim]] \/ scan' = scan
  BY DEF retire_push, Retire_push, local, loopVars
<1>2. pc'[Loop] = "scan" /\ \A u \in Threads \ {Loop} : pc'[u] = pc[u]
  BY <1>0, <1>1 DEF Goto
<1>3. Allocated' = Allocated
  BY <1>1 DEF Allocated
<1>4. Low' = torun
  BY <1>1, <1>2 DEF Low
<1>5. \A o \in Objs : Dropped(pos, o)' => Dropped(pos, o)
  <2>1. pc[Loop] \in Working /\ pc[Loop] \in {"stamp", "push"}
    BY <1>1 DEF Working
  <2>2. Low = victim /\ victim \in Objs /\ pos[torun] = pos[victim] + 1
    BY <2>1, WorkFacts
  <2>3. \A o \in Objs : pos[o] < pos[torun] => pos[o] < pos[victim] \/ o = victim
    <3>1. \A x, y \in Objs : pos[x] > 0 /\ pos[x] = pos[y] => x = y
      BY DEF Fits, ListFits
    <3>2. pos[victim] > 0
      BY <2>2 DEF Fits, ListFits
    <3> QED BY <2>2, <3>1, <3>2
  <2> QED BY <1>1, <1>2, <1>4, <2>2, <2>3 DEF Dropped
<1>6. \A u \in Threads : Guarded(u) /\ GuardFits(pos, u) =>
          (scan'[Loop].i = ptr[u] /\ scan'[Loop].begun => u \in scan'[Loop].left)
  <2>1. CASE scan' = scan
    BY <2>1 DEF GuardFits
  <2>2. CASE scan' = [scan EXCEPT ![Loop] = [Idle EXCEPT !.i = victim]]
    <3>1. scan'[Loop] = [Idle EXCEPT !.i = victim]
      BY <2>2, <1>0
    <3>2. ~[Idle EXCEPT !.i = victim].begun
      BY DEF Idle
    <3>3. ~scan'[Loop].begun
      BY <3>1, <3>2, Zenon
    <3> QED BY <3>3
  <2> QED BY <1>1, <2>1, <2>2
<1>7. \A u \in Threads : Guarded(u) /\ GuardFits(pos, u) => mem'[ptr[u]] = "live"
  BY <1>1 DEF GuardFits
<1> QED
  BY <1>1, <1>2, <1>3, <1>5, <1>6, <1>7, RetireFrame

\* The object of the scan is a retired one: a thread that guards it announces an
\* epoch of its lifetime.
LEMMA GuardConflicts ==
    ASSUME NEW pos \in [Objs -> Nat], Fits(pos), EpochFits(pos), NEW u \in Threads,
           Guarded(u), ptr[u] = scan[Loop].i
    PROVE  Conflicts(res[u], scan[Loop].i)
<1>1. scan[Loop].i \in Objs /\ pos[scan[Loop].i] < pos[Low]
  <2>1. ptr[u] \in Objs /\ NULL \notin Objs
    BY Positions DEF Guarded, Pointing
  <2> QED BY <2>1 DEF Fits, RetiredFits
<1>2. GuardFits(pos, u) /\ res[u] = ep[u]
  BY DEF EpochFits, Announced, Announcing, Guarded
<1>3. created[scan[Loop].i] <= ep[u] /\ ep[u] <= retiredAt[scan[Loop].i]
  BY <1>1, <1>2 DEF GuardFits, Dropped
<1>4. ep[u] \in Int /\ created[scan[Loop].i] \in Int /\ retiredAt[scan[Loop].i] \in Int
  <2>1. ep[u] \in Epochs
    BY Positions
  <2>2. ep[u] \in Int
    BY <2>1, SharedObjAssumption DEF Epochs
  <2> QED BY <1>1, <2>2 DEF Fits, MemTypes
<1> QED
  BY <1>2, <1>3, <1>4 DEF Conflicts

LEMMA ScanEpochs ==
    ASSUME NEW pos \in [Objs -> Nat], Fits(pos), EpochFits(pos), retire_scan
    PROVE  EpochFits(pos)'
<1> DEFINE s == scan[Loop]
<1>0. /\ Loop \in Threads /\ scan \in [Threads -> ScanRecords] /\ s \in ScanRecords
      /\ mem \in [Objs -> {"none", "live", "freed"}]
  BY Positions, ScanTypes DEF Fits, MemTypes
<1>1. /\ pc[Loop] = "scan" /\ s.i # NULL
      /\ UNCHANGED <<epoch, created, retiredAt, res, pc, ep, ptr, first, torun, victim>>
  BY DEF retire_scan, Scanning, Scan_begin, Scan_compare, Scan_free, objects, local, cq, loopVars
<1>2. s.i \in Objs
  BY <1>1, ScanTypes
<1>3. \A o \in Objs : Dropped(pos, o)' => Dropped(pos, o)
  BY <1>1 DEF Dropped, Low
<1>4. CASE Scan_begin(Loop)
  <2>1. mem' = mem /\ Allocated' = Allocated
    BY <1>4 DEF Scan_begin, objects, Allocated
  <2>2. scan'[Loop] = [s EXCEPT !.n = next[s.i], !.left = Threads, !.begun = TRUE]
    BY <1>0, <1>4 DEF Scan_begin
  <2>3. scan'[Loop].left = Threads
    BY <1>0, <2>2 DEF ScanRecords
  <2>4. \A u \in Threads : Guarded(u) /\ GuardFits(pos, u) => mem'[ptr[u]] = "live"
    BY <2>1 DEF GuardFits
  <2> QED BY <1>1, <1>3, <2>1, <2>3, <2>4, RetireFrame
<1>5. CASE Scan_compare(Loop)
  <2> DEFINE v == CHOOSE v \in s.left : TRUE
             r == [s EXCEPT !.left = @ \ {v}]
  <2>1. mem' = mem /\ Allocated' = Allocated
    BY <1>5 DEF Scan_compare, objects, Allocated
  <2>2. /\ s.begun
        /\ \/ Conflicts(res[v], s.i) /\ scan'[Loop] = Advance(s, s.i)
           \/ ~Conflicts(res[v], s.i) /\ scan'[Loop] = r
    BY <1>0, <1>5 DEF Scan_compare
  <2>3. \A u \in Threads : Guarded(u) /\ GuardFits(pos, u) =>
            (scan'[Loop].i = ptr[u] /\ scan'[Loop].begun => u \in scan'[Loop].left)
    <3>1. CASE scan'[Loop] = Advance(s, s.i)
      <4>1. ~Advance(s, s.i).begun
        BY <1>0, <1>2, AdvanceIs DEF ObjOrNull
      <4>2. ~scan'[Loop].begun
        BY <3>1, <4>1, Zenon
      <4> QED BY <4>2
    <3>2. CASE ~Conflicts(res[v], s.i) /\ scan'[Loop] = r
      <4>1. r.i = s.i /\ r.left = s.left \ {v}
        BY <1>0 DEF ScanRecords
      <4> HIDE DEF r
      <4>2. scan'[Loop].i = s.i /\ scan'[Loop].left = s.left \ {v}
        BY <3>2, <4>1, Zenon
      <4> SUFFICES ASSUME NEW u \in Threads, Guarded(u), GuardFits(pos, u), s.i = ptr[u]
                   PROVE  u \in s.left \ {v}
        BY <4>2
      <4>3. u \in s.left
        BY <2>2 DEF GuardFits
      <4>4. Conflicts(res[u], s.i)
        BY GuardConflicts
      <4> QED BY <3>2, <4>3, <4>4
    <3> QED BY <2>2, <3>1, <3>2
  <2>4. \A u \in Threads : Guarded(u) /\ GuardFits(pos, u) => mem'[ptr[u]] = "live"
    BY <2>1 DEF GuardFits
  <2> QED BY <1>1, <1>3, <2>1, <2>3, <2>4, RetireFrame
<1>6. CASE Scan_free(Loop)
  <2>1. /\ s.begun /\ s.left = {} /\ mem' = [mem EXCEPT ![s.i] = "freed"]
        /\ scan'[Loop] = Advance(s, s.p)
    BY <1>0, <1>6 DEF Scan_free
  <2>2. mem[s.i] = "live"
    BY <1>1 DEF Fits, RetiredFits
  <2>3. Allocated' = Allocated
    BY <1>0, <1>2, <2>1, <2>2 DEF Allocated
  <2>4. ~scan'[Loop].begun
    <3>1. s.p \in ObjOrNull
      BY <1>0 DEF ScanRecords
    <3>2. ~Advance(s, s.p).begun
      BY <1>0, <3>1, AdvanceIs
    <3> QED BY <2>1, <3>2, Zenon
  <2>5. ASSUME NEW u \in Threads, Guarded(u), GuardFits(pos, u) PROVE mem'[ptr[u]] = "live"
    <3>1. ptr[u] # s.i
      BY <2>1, <2>5 DEF GuardFits
    <3>2. ptr[u] \in Objs /\ mem[ptr[u]] = "live"
      BY <2>5, Positions DEF GuardFits, Guarded, Pointing
    <3> QED BY <1>0, <2>1, <3>1, <3>2
  <2> QED BY <1>1, <1>3, <2>3, <2>4, <2>5, RetireFrame
<1> QED
  BY <1>4, <1>5, <1>6 DEF retire_scan

\* As many nodes were allocated as the epoch has advanced, and one more: it does
\* not wrap around.
LEMMA CreateEpochs ==
    ASSUME EpochNeverWraps,
           NEW pos \in [Objs -> Nat], NEW t \in Threads, NEW o \in Objs,
           Fits(pos), EpochFits(pos), SharedObj_create(t, o), Goto(t, "epoch"),
           UNCHANGED <<first, torun, victim, ep, ptr>>, pc[t] \in {"idle", "create"}
    PROVE  EpochFits(pos)'
<1>0. /\ Loop \in Threads /\ pc \in [Threads -> LoopPlaces \cup EnqueuerPlaces]
      /\ mem \in [Objs -> {"none", "live", "freed"}] /\ created \in [Objs -> Int]
      /\ retiredAt \in [Objs -> Int] /\ ep \in [Threads -> Epochs] /\ epoch \in Epochs
  BY Positions DEF Fits, QueueTypes, MemTypes
<1>1. /\ mem[o] = "none" /\ mem' = [mem EXCEPT ![o] = "live"]
      /\ created' = [created EXCEPT ![o] = epoch]
      /\ retiredAt' = [retiredAt EXCEPT ![o] = (epoch - 1) % EpochMod]
      /\ epoch' = epoch \/ epoch' = (epoch + 1) % EpochMod
      /\ UNCHANGED <<res, scan>>
  BY DEF SharedObj_create, lists
<1>2. pc'[t] = "epoch" /\ \A u \in Threads \ {t} : pc'[u] = pc[u]
  BY <1>0 DEF Goto
<1>3. Low' = Low
  BY <1>0, <1>2 DEF Low
<1>4. epoch \in Nat /\ EpochMod \in Nat /\ \A u \in Threads : ep[u] \in Nat
  <2>1. \A u \in Threads : ep[u] \in Epochs
    BY <1>0
  <2> QED BY <1>0, <2>1, SharedObjAssumption DEF Epochs
<1>5. Allocated' = Allocated \cup {o} /\ o \notin Allocated
  BY <1>0, <1>1 DEF Allocated
<1>6. /\ IsFiniteSet(Allocated) /\ Cardinality(Allocated) \in Nat
      /\ Cardinality(Allocated') = Cardinality(Allocated) + 1
      /\ Cardinality(Allocated') <= EpochMod
  <2>1. Allocated \subseteq Objs /\ Allocated' \subseteq Objs
    BY DEF Allocated
  <2>2. IsFiniteSet(Allocated) /\ Cardinality(Allocated) \in Nat
    BY <2>1, FS_Subset, FS_CardinalityType DEF EpochNeverWraps
  <2>3. Cardinality(Allocated \cup {o}) = Cardinality(Allocated) + 1
    BY <1>5, <2>2, FS_AddElement
  <2>4. Cardinality(Allocated') <= Cardinality(Objs) /\ Cardinality(Objs) \in Nat
    BY <2>1, FS_Subset, FS_CardinalityType DEF EpochNeverWraps
  <2> QED BY <1>4, <1>5, <2>2, <2>3, <2>4 DEF EpochNeverWraps
<1>7. epoch' = epoch \/ epoch' = epoch + 1
  <2>1. epoch < Cardinality(Allocated)
    BY DEF EpochFits, EpochCounts
  <2>2. epoch + 1 \in 0 .. EpochMod - 1
    BY <1>4, <1>6, <2>1
  <2>3. (epoch + 1) % EpochMod = epoch + 1
    BY <1>4, <2>2
  <2> QED BY <1>1, <2>3
<1>8. EpochCounts'
  <2>1. epoch' < Cardinality(Allocated)'
    <3>1. epoch < Cardinality(Allocated) /\ Cardinality(Allocated') = Cardinality(Allocated)'
      BY DEF EpochFits, EpochCounts
    <3> QED BY <1>4, <1>6, <1>7, <3>1
  <2>2. \A x \in Objs : mem'[x] # "none" => created'[x] <= epoch'
    <3> SUFFICES ASSUME NEW x \in Objs, mem'[x] # "none" PROVE created'[x] <= epoch'
      OBVIOUS
    <3>1. CASE x = o
      BY <3>1, <1>0, <1>1, <1>4, <1>7
    <3>2. CASE x # o
      <4>1. created'[x] = created[x] /\ mem[x] # "none" /\ created[x] \in Int
        BY <3>2, <1>0, <1>1
      <4>2. created[x] <= epoch
        BY <4>1 DEF EpochFits, EpochCounts
      <4> QED BY <4>1, <4>2, <1>4, <1>7
    <3> QED BY <3>1, <3>2
  <2>3. \A u \in Threads : ep'[u] <= epoch'
    <3>1. \A u \in Threads : ep[u] <= epoch
      BY DEF EpochFits, EpochCounts
    <3> QED BY <3>1, <1>4, <1>7
  <2> QED BY <2>1, <2>2, <2>3 DEF EpochCounts
<1>9. Announced'
  BY <1>1, <1>2 DEF EpochFits, Announced, Announcing
<1>10. ASSUME NEW u \in Threads, Guarded(u)' PROVE GuardFits(pos, u)'
  <2>1. u # t
    BY <1>2, <1>10 DEF Guarded
  <2>2. Guarded(u)
    <3>1. CASE pc[u] = "confirm"
      <4>1. ep[u] = epoch' /\ ep[u] <= epoch
        BY <1>2, <1>10, <2>1, <3>1 DEF Guarded, EpochFits, EpochCounts
      <4>2. ep[u] = epoch
        BY <4>1, <1>4, <1>7
      <4> QED BY <3>1, <4>2 DEF Guarded
    <3>2. CASE pc[u] # "confirm"
      BY <1>2, <1>10, <2>1, <3>2 DEF Guarded
    <3> QED BY <3>1, <3>2
  <2>3. ptr[u] \in Objs /\ GuardFits(pos, u)
    BY <2>2, Positions DEF Guarded, Pointing, EpochFits
  <2>4. ptr[u] # o
    BY <2>3, <1>1 DEF GuardFits
  <2>5. /\ mem'[ptr[u]] = mem[ptr[u]] /\ created'[ptr[u]] = created[ptr[u]]
        /\ retiredAt'[ptr[u]] = retiredAt[ptr[u]]
    BY <2>3, <2>4, <1>0, <1>1
  <2>6. pc'[Loop] = "push" => pc[Loop] = "push"
    BY <1>0, <1>2
  <2> QED BY <2>3, <2>5, <2>6, <1>1, <1>3 DEF GuardFits, Dropped
<1> QED
  BY <1>8, <1>9, <1>10 DEF EpochFits

LEMMA CreateStepEpochs ==
    ASSUME EpochNeverWraps, NEW pos \in [Objs -> Nat], Fits(pos), EpochFits(pos),
           runCommands_create \/ \E t \in Enqueuers : enqueueCommand(t)
    PROVE  EpochFits(pos)'
<1>1. CASE runCommands_create
  <2>1. PICK d : d \in Unused(Dummies) /\ SharedObj_create(Loop, d)
    <3> DEFINE e == CHOOSE d \in Unused(Dummies) : TRUE
    <3>1. e \in Unused(Dummies)
      BY <1>1 DEF runCommands_create
    <3>2. SharedObj_create(Loop, e)
      BY <1>1 DEF runCommands_create
    <3> QED BY <3>1, <3>2
  <2>2. d \in Objs /\ Loop \in Threads
    BY <2>1, Positions DEF Unused
  <2>3. Goto(Loop, "epoch") /\ UNCHANGED <<first, torun, victim, ep, ptr>>
        /\ pc[Loop] \in {"idle", "create"}
    BY <1>1 DEF runCommands_create, cq, loopVars
  <2> QED BY <2>1, <2>2, <2>3, CreateEpochs
<1>2. ASSUME NEW t \in Enqueuers, enqueueCommand(t) PROVE EpochFits(pos)'
  <2>1. PICK c : c \in Unused(CmdsOf(t)) /\ SharedObj_create(t, c)
    <3> DEFINE d == CHOOSE c \in Unused(CmdsOf(t)) : TRUE
    <3>1. d \in Unused(CmdsOf(t))
      BY <1>2 DEF enqueueCommand
    <3>2. SharedObj_create(t, d)
      BY <1>2 DEF enqueueCommand
    <3> QED BY <3>1, <3>2
  <2>2. c \in Objs /\ t \in Threads
    BY <2>1, Positions DEF Unused, CmdsOf, Enqueuers
  <2>3. Goto(t, "epoch") /\ UNCHANGED <<first, torun, victim, ep, ptr>>
        /\ pc[t] \in {"idle", "create"}
    BY <1>2 DEF enqueueCommand, cq, loopVars
  <2> QED BY <2>1, <2>2, <2>3, CreateEpochs
<1> QED
  BY <1>1, <1>2

LEMMA InitEpochs ==
    ASSUME Init, NEW pos \in [Objs -> Nat], Fits(pos)
    PROVE  EpochFits(pos)
<1>0. Dummy0 \in Objs
  BY CommandQueueAssumption
<1>1. /\ epoch = 0 /\ mem = [o \in Objs |-> IF o = Dummy0 THEN "live" ELSE "none"]
      /\ created = [o \in Objs |-> 0] /\ ep = [t \in Threads |-> 0]
      /\ pc = [t \in Threads |-> IF t = Loop THEN "wait" ELSE "idle"]
  BY DEF Init, SOM_init, initCommandQueue
<1>2. Allocated = {Dummy0}
  BY <1>0, <1>1 DEF Allocated
<1>3. Cardinality(Allocated) = 1
  BY <1>2, FS_Singleton
<1>4. \A t \in Threads : ~Guarded(t) /\ pc[t] \notin Announcing
  BY <1>1 DEF Guarded, Announcing
<1> QED
  BY <1>1, <1>3, <1>4 DEF EpochFits, EpochCounts, Announced

LEMMA StutterEpochs ==
    ASSUME NEW pos \in [Objs -> Nat], EpochFits(pos), UNCHANGED vars
    PROVE  EpochFits(pos)'
<1>1. UNCHANGED <<epoch, res, created, retiredAt, mem, scan>>
  BY DEF vars, soVars, objects, lists
<1>2. UNCHANGED <<first, pc, ep, ptr, torun, victim>>
  BY DEF vars, cq, local, loopVars
<1> QED
  BY <1>1, <1>2 DEF EpochFits, EpochCounts, Allocated, Announced, Guarded, GuardFits, Dropped, Low

LEMMA StepEpochs ==
    ASSUME EpochNeverWraps, NEW pos \in [Objs -> Nat], NEW q \in [Objs -> Nat],
           Fits(pos), EpochFits(pos), [Next]_vars, Placed(pos, q), Fits(q)'
    PROVE  EpochFits(q)'
<1>0. Loop \in Threads /\ Enqueuers \subseteq Threads
      /\ pc \in [Threads -> LoopPlaces \cup EnqueuerPlaces]
  BY CommandQueueAssumption DEF Enqueuers, Fits, QueueTypes
\* Only a link places a node.
<1>1. CASE q # pos
  <2>1. PICK t \in Threads : /\ Enqueue_link(t) /\ next[ptr[t]] = NULL /\ pos[ptr[t]] >= pos[Low]
                             /\ q = [pos EXCEPT ![node[t]] = pos[ptr[t]] + 1]
    BY <1>1 DEF Placed
  <2>2. EnqueueLockfree(t) /\ pc[t] = "link"
    BY <2>1 DEF EnqueueLockfree, Enqueue_link
  <2> QED BY <2>1, <2>2, AppendEpochs
<1>2. CASE q = pos
  <2>1. ASSUME NEW t \in Threads, EnqueueLockfree(t) PROVE EpochFits(pos)'
    BY <1>2, <2>1, AppendEpochs
  <2>2. ASSUME NEW t \in Enqueuers, EnqueuerStep(t) PROVE EpochFits(pos)'
    BY <1>0, <2>1, <2>2, EnqueuerWakesEpochs DEF EnqueuerStep
  <2>3. ASSUME LoopStep \/ processEvents_other PROVE EpochFits(pos)'
    BY <1>0, <2>1, <2>3, QuietLoopEpochs, StampEpochs, PushEpochs, ScanEpochs,
       CreateStepEpochs DEF LoopStep
  <2>4. CASE UNCHANGED vars
    BY <1>2, <2>4, StutterEpochs
  <2>5. CASE Next
    BY <1>2, <2>2, <2>3, <2>5, CreateStepEpochs DEF Next
  <2> QED BY <2>4, <2>5
<1> QED BY <1>1, <1>2

EpochInv == \E pos \in [Objs -> Nat] : Fits(pos) /\ EpochFits(pos)

LEMMA EpochsProtect == EpochInv => NoUseAfterFree
<1> SUFFICES ASSUME NEW pos \in [Objs -> Nat], Fits(pos), EpochFits(pos),
                    NEW t \in Threads, NEW o \in Objs, o \in Touches(t)
             PROVE  mem[o] = "live"
  BY DEF EpochInv, NoUseAfterFree
<1>0. /\ \A x \in Objs : pos[x] >= pos[Low] => mem[x] = "live"
      /\ Low \in Objs /\ pos[Low] \in Nat /\ pos[Low] <= pos[first] /\ first \in Objs
      /\ pos[first] \in Nat
  BY Positions DEF Fits, ListFits
<1>1. t # Loop => pc[t] \in EnqueuerPlaces
  BY DEF Fits, QueueTypes, Enqueuers
<1>2. CASE pc[t] \in {"next", "link"}
  <2>1. o = ptr[t] /\ Guarded(t)
    BY <1>2 DEF Touches, Guarded
  <2> QED BY <2>1 DEF EpochFits, GuardFits
<1>3. CASE pc[t] = "first"
  BY <1>0, <1>3 DEF Touches
<1>4. CASE pc[t] \in {"exec", "after"}
  <2>1. t = Loop /\ o = torun
    BY <1>1, <1>4 DEF Touches, EnqueuerPlaces, Appending, Unlinked
  <2>2. Low = torun
    BY <1>4, <2>1 DEF Low
  <2> QED BY <1>0, <2>1, <2>2
<1>5. CASE pc[t] \in {"stamp", "push"}
  <2>1. t = Loop /\ o = victim
    BY <1>1, <1>5 DEF Touches, EnqueuerPlaces, Appending, Unlinked
  <2>2. Low = victim
    BY <1>5, <2>1 DEF Low
  <2> QED BY <1>0, <2>1, <2>2
<1>6. CASE pc[t] = "scan"
  <2>1. t = Loop
    BY <1>1, <1>6 DEF EnqueuerPlaces, Appending, Unlinked
  <2>2. o \in {scan[Loop].i, scan[Loop].p} \ {NULL}
    BY <1>6, <2>1 DEF Touches
  <2> QED BY <2>2 DEF Fits, RetiredFits
<1> QED
  BY <1>2, <1>3, <1>4, <1>5, <1>6 DEF Touches

\* No thread dereferences a node of the command queue that was freed, whatever the
\* number of threads and commands: the epoch SOM_reserve announces and confirms
\* keeps SharedObj_retire's scan from freeing the node loaded from q->last, and the
\* service thread keeps what it still needs (sharedobj.c; enqueueLockfree and
\* runCommands in service.c).  The hypothesis: fewer objects are created than the
\* 32 bit epoch has values, so that it does not wrap around.
THEOREM CommandMemorySafe ==
    ASSUME EpochNeverWraps
    PROVE  Spec => []NoUseAfterFree
<1>1. Init => EpochInv
  BY InitFits, InitEpochs DEF EpochInv
<1>2. EpochInv /\ [Next]_vars => EpochInv'
  <2> SUFFICES ASSUME NEW pos \in [Objs -> Nat], Fits(pos), EpochFits(pos), [Next]_vars
               PROVE  EpochInv'
    BY DEF EpochInv
  <2>1. PICK q \in [Objs -> Nat] : Placed(pos, q) /\ Fits(q)'
    BY StepFits
  <2>2. EpochFits(q)'
    BY <2>1, StepEpochs
  <2> QED BY <2>1, <2>2 DEF EpochInv
<1> QED
  BY <1>1, <1>2, EpochsProtect, PTL DEF Spec
=============================================================================
