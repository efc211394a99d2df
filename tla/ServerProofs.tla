---------------------------- MODULE ServerProofs ----------------------------
(***************************************************************************)
(* Proofs about PSC_Server, for any number of workers and any finite set   *)
(* of connections: its counters and its semaphore are exact, and once the  *)
(* server is freed no connection of it is left.  And about PSC_Dictionary, *)
(* for any hash and any number of threads: it is a map, and deletes its    *)
(* objects once.                                                           *)
(***************************************************************************)
EXTENDS Server, Dictionary, Induction, FiniteSetTheorems, SequenceTheorems, TLAPS

\* There are finitely many connections and workers, so all of them can be counted.
LEMMA SetsFinite ==
  ASSUME ServerAssumption
  PROVE  /\ IsFiniteSet(Counted) /\ Cardinality(Counted) \in Nat
         /\ \A t : IsFiniteSet(Active(t)) /\ Cardinality(Active(t)) \in Nat
         /\ IsFiniteSet(Waiting) /\ Cardinality(Waiting) \in Nat
         /\ IsFiniteSet(Posting) /\ Cardinality(Posting) \in Nat
<1>1. IsFiniteSet(Conns) /\ NThr - 1 \in Int
  BY DEF ServerAssumption
<1>2. IsFiniteSet(Thr)
  BY <1>1, FS_Interval DEF Thr
<1>3. Counted \subseteq Conns /\ Waiting \subseteq Thr /\ Posting \subseteq Thr
  BY DEF Counted, Waiting, Posting
<1>4. \A t : Active(t) \subseteq Conns
  BY DEF Active
<1>5. IsFiniteSet(Counted) /\ IsFiniteSet(Waiting) /\ IsFiniteSet(Posting)
  BY <1>1, <1>2, <1>3, FS_Subset
<1>6. \A t : IsFiniteSet(Active(t))
  BY <1>1, <1>4, FS_Subset
<1> QED
  BY <1>5, <1>6, FS_CardinalityType

\* A worker that is not idle works on a connection.
LEMMA WorkerPlaces ==
  ASSUME TypeOK, NEW t \in Thr
  PROVE  /\ tpc[t] = Idle <=> tpc[t].at = "idle"
         /\ tpc[t] # Idle => /\ tpc[t].at \in {"semwait", "register", "post"}
                            /\ tpc[t].conn \in Conns
<1>1. tpc[t] = Idle \/ tpc[t] \in [at : {"semwait", "register", "post"}, conn : Conns]
  BY DEF TypeOK
<1>2. Idle.at = "idle"
  BY DEF Idle
<1> QED
  BY <1>1, <1>2

\* A command is one or the other.
LEMMA CommandKinds ==
  /\ DestroyPool.run = "destroyPool"
  /\ \A c : DoAccept(c).run = "doaccept" /\ DoAccept(c).conn = c
  /\ \A c : DoAccept(c) # DestroyPool
<1>1. DestroyPool.run = "destroyPool"
  BY DEF DestroyPool
<1>2. ASSUME NEW c PROVE DoAccept(c).run = "doaccept" /\ DoAccept(c).conn = c
  BY DEF DoAccept
<1> QED
  BY <1>1, <1>2

\* The first command of a queue and the ones that are left without it.
LEMMA FirstCommand ==
  ASSUME IInv, NEW t \in Thr, tq[t] # <<>>
  PROVE  /\ tq[t] \in Seq(Commands) /\ Tail(tq[t]) \in Seq(Commands)
         /\ Len(tq[t]) \in Nat \ {0} /\ DOMAIN tq[t] = 1 .. Len(tq[t])
         /\ Head(tq[t]) = tq[t][1] /\ Head(tq[t]) \in Commands
         /\ DOMAIN Tail(tq[t]) = 1 .. Len(tq[t]) - 1
         /\ \A i \in 1 .. Len(tq[t]) - 1 : Tail(tq[t])[i] = tq[t][i + 1]
<1>1. tq[t] \in Seq(Commands)
  BY DEF IInv, TypeOK
<1>2. /\ Tail(tq[t]) \in Seq(Commands) /\ Head(tq[t]) \in Commands
      /\ Len(Tail(tq[t])) = Len(tq[t]) - 1
      /\ \A i \in 1 .. Len(tq[t]) - 1 : Tail(tq[t])[i] = tq[t][i + 1]
      /\ Head(tq[t]) = tq[t][1]
  BY <1>1, HeadTailProperties
<1>3. Len(tq[t]) \in Nat \ {0} /\ DOMAIN tq[t] = 1 .. Len(tq[t])
  BY <1>1, LenProperties, EmptySeq
<1>4. DOMAIN Tail(tq[t]) = 1 .. Len(tq[t]) - 1
  BY <1>2, LenProperties
<1> QED
  BY <1>1, <1>2, <1>3, <1>4

\* A command to accept that comes first: its connection waits for this worker,
\* and no other command is for it.
LEMMA FirstAccept ==
  ASSUME IInv, NEW t \in Thr, tq[t] # <<>>, Head(tq[t]).run = "doaccept"
  PROVE  LET c == Head(tq[t]).conn
         IN  /\ c \in Conns /\ Head(tq[t]) = DoAccept(c) /\ conn[c] = "pending" /\ thr[c] = t
             /\ \A u \in Thr : \A k \in DOMAIN tq[u] :
                   tq[u][k] = DoAccept(c) => u = t /\ k = 1
<1> DEFINE c == Head(tq[t]).conn
<1>1. /\ Head(tq[t]) = tq[t][1] /\ 1 \in DOMAIN tq[t] /\ Head(tq[t]) \in Commands
  BY FirstCommand
<1>2. c \in Conns /\ Head(tq[t]) = DoAccept(c)
  BY <1>1, CommandKinds DEF Commands
<1>3. /\ conn[c] = "pending" /\ thr[c] = t
      /\ \A k \in DOMAIN tq[t] : tq[t][k] = DoAccept(c) => k = 1
  BY <1>1 DEF IInv, CommandsAgree
<1>4. ASSUME NEW u \in Thr, NEW k \in DOMAIN tq[u], tq[u][k] = DoAccept(c)
      PROVE  u = t
  <2>1. tq[u][k].run = "doaccept" /\ tq[u][k].conn = c
    BY <1>4, CommandKinds
  <2> QED
    BY <1>3, <2>1 DEF IInv, CommandsAgree
<1> QED
  BY <1>2, <1>3, <1>4

\* PSC_Server_create establishes the invariant.
LEMMA InitIInv == ServerAssumption /\ Init => IInv
<1> SUFFICES ASSUME ServerAssumption, Init PROVE IInv
  OBVIOUS
<1> USE DEF Init, PSC_Server_create
<1>1. 0 \in Thr
  BY DEF Thr, ServerAssumption
<1>2. TypeOK
  <2>1. <<>> \in Seq(Commands)
    OBVIOUS
  <2> QED
    BY <1>1, <2>1 DEF TypeOK
<1>3. Counted = {} /\ (\A t : Active(t) = {}) /\ Waiting = {} /\ Posting = {}
  BY DEF Counted, Active, Waiting, Posting, Idle
<1>4. CountersAgree /\ SemaphoreAgrees
  <2>1. Cardinality({}) = 0
    BY FS_EmptySet
  <2>2. Cardinality(Counted) = 0 /\ Cardinality(Waiting) = 0 /\ Cardinality(Posting) = 0
    BY <1>3, <2>1, Zenon
  <2>3. \A t : Cardinality(Active(t)) = 0
    BY <1>3, <2>1, Zenon
  <2> QED
    BY <2>2, <2>3 DEF CountersAgree, SemaphoreAgrees
<1>5. CommandsAgree
  BY DEF CommandsAgree
<1>6. WorkersAgree
  BY DEF WorkersAgree, Idle
<1> QED
  BY <1>2, <1>4, <1>5, <1>6 DEF IInv, AllClosedWhenDestroyed, NothingToCreate

\* acceptConnection preserves it: the connection is counted for the worker that
\* is told to create it.
LEMMA AcceptIInv ==
  ASSUME ServerAssumption, IInv, NEW c \in Conns, acceptConnection(c)
  PROVE  IInv'
<1>1. PICK t \in Thr : /\ nextthr' = t /\ thr' = [thr EXCEPT ![c] = t]
                       /\ nactive' = [nactive EXCEPT ![t] = nactive[t] + 1]
                       /\ tq' = [tq EXCEPT ![t] = Append(tq[t], DoAccept(c))]
  <2>1. NThr - 1 \in Thr
    BY DEF Thr, ServerAssumption
  <2> QED
    BY <2>1 DEF acceptConnection
<1>2. /\ srv = "live" /\ mpc = "loop" /\ conn[c] = "new"
      /\ conn' = [conn EXCEPT ![c] = "pending"]
      /\ UNCHANGED <<srv, disabled, nconn, allclosed, timer, tpc, mpc>>
  BY DEF acceptConnection
<1>3. TypeOK
  BY DEF IInv
<1>4. tq[t] \in Seq(Commands) /\ DoAccept(c) \in Commands
  BY <1>3 DEF TypeOK, Commands
<1>5. /\ tq'[t] \in Seq(Commands) /\ DOMAIN tq[t] = 1 .. Len(tq[t]) /\ Len(tq[t]) \in Nat
      /\ DOMAIN tq'[t] = 1 .. Len(tq[t]) + 1
      /\ \A i \in 1 .. Len(tq[t]) : tq'[t][i] = tq[t][i]
      /\ tq'[t][Len(tq[t]) + 1] = DoAccept(c)
      /\ \A u \in Thr \ {t} : tq'[u] = tq[u]
  <2>1. tq'[t] = Append(tq[t], DoAccept(c)) /\ \A u \in Thr \ {t} : tq'[u] = tq[u]
    BY <1>1, <1>3 DEF TypeOK
  <2> HIDE DEF acceptConnection
  <2> QED
    BY <1>4, <2>1, AppendProperties, LenProperties
<1>6. TypeOK'
  <2>1. tq' \in [Thr -> Seq(Commands)]
    BY <1>1, <1>3, <1>5 DEF TypeOK
  <2> QED
    BY <1>1, <1>2, <1>3, <2>1 DEF TypeOK
<1>7. /\ Counted' = Counted /\ Waiting' = Waiting /\ Posting' = Posting
      /\ \A u \in Thr \ {t} : Active(u)' = Active(u)
      /\ c \notin Active(t) /\ Active(t)' = Active(t) \cup {c}
  BY <1>1, <1>2, <1>3 DEF Counted, Waiting, Posting, Active, TypeOK
<1>8. Cardinality(Active(t)') = Cardinality(Active(t)) + 1
  BY <1>7, SetsFinite, FS_AddElement
<1>9. CountersAgree' /\ SemaphoreAgrees'
  BY <1>1, <1>2, <1>3, <1>7, <1>8 DEF IInv, CountersAgree, SemaphoreAgrees, TypeOK
<1>10. CommandsAgree'
  <2> SUFFICES ASSUME NEW u \in Thr, NEW i \in DOMAIN tq'[u], tq'[u][i].run = "doaccept"
               PROVE  LET d == tq'[u][i].conn
                      IN  /\ conn'[d] = "pending" /\ thr'[d] = u
                          /\ \A k \in DOMAIN tq'[u] : tq'[u][k] = DoAccept(d) => k = i
    BY DEF CommandsAgree
  <2>0. \A v \in Thr : \A k \in DOMAIN tq[v] : tq[v][k].run = "doaccept" => tq[v][k].conn # c
    BY <1>2 DEF IInv, CommandsAgree
  <2>1. CASE u # t
    BY <1>1, <1>2, <1>3, <1>5, <2>0, <2>1 DEF IInv, CommandsAgree, TypeOK
  <2>2. CASE u = t /\ i = Len(tq[t]) + 1
    BY <1>1, <1>2, <1>3, <1>5, <2>0, <2>2, CommandKinds DEF TypeOK
  <2>3. CASE u = t /\ i \in 1 .. Len(tq[t])
    <3>1. tq'[u][i] = tq[t][i]
      BY <1>5, <2>3
    <3> DEFINE d == tq[t][i].conn
    <3>2. /\ d # c /\ conn[d] = "pending" /\ thr[d] = t
          /\ \A k \in DOMAIN tq[t] : tq[t][k] = DoAccept(d) => k = i
      BY <1>5, <2>0, <2>3, <3>1 DEF IInv, CommandsAgree
    <3>3. DoAccept(c) # DoAccept(d)
      BY <3>2, CommandKinds
    <3>4. conn'[d] = "pending" /\ thr'[d] = t
      <4>1. d \in Conns
        BY <1>4, <1>5, <2>3, <3>1, CommandKinds, ElementOfSeq DEF Commands
      <4> QED
        BY <1>1, <1>2, <1>3, <3>2, <4>1 DEF TypeOK
    <3>5. \A k \in DOMAIN tq'[t] : tq'[t][k] = DoAccept(d) => k = i
      BY <1>5, <3>2, <3>3
    <3> QED
      BY <2>3, <3>1, <3>4, <3>5
  <2> QED
    BY <1>5, <2>1, <2>2, <2>3
<1>11. WorkersAgree'
  <2>1. \A u \in Thr : tpc[u].at \in {"semwait", "register"} =>
           tpc[u].conn \in Conns /\ tpc[u].conn # c
    BY <1>2, <1>3 DEF IInv, WorkersAgree, TypeOK, Idle
  <2> QED
    BY <1>1, <1>2, <1>3, <2>1 DEF IInv, WorkersAgree, TypeOK
<1> QED
  BY <1>2, <1>6, <1>9, <1>10, <1>11 DEF IInv, AllClosedWhenDestroyed, NothingToCreate

\* The other operations of the main thread preserve it.
LEMMA MainIInv ==
  ASSUME ServerAssumption, IInv,
         \/ \E c \in Conns : acceptConnection_reject(c)
         \/ PSC_Server_disable \/ PSC_Server_enable
         \/ Destroy \/ forceDestroy \/ destroy_wait
         \/ \E timeout \in Timeouts : PSC_Server_shutdown(timeout)
  PROVE  IInv'
<1>1. TypeOK
  BY DEF IInv
<1>2. ASSUME NEW c \in Conns, acceptConnection_reject(c)
      PROVE  IInv'
  <2> USE <1>2 DEF acceptConnection_reject
  <2>1. TypeOK'
    BY <1>1 DEF TypeOK
  <2>2. /\ Counted' = Counted /\ Waiting' = Waiting /\ Posting' = Posting
        /\ \A u \in Thr : Active(u)' = Active(u)
    BY <1>1 DEF Counted, Waiting, Posting, Active, TypeOK
  <2>3. CountersAgree' /\ (srv' # "freed" => SemaphoreAgrees')
    BY <2>2 DEF IInv, CountersAgree, SemaphoreAgrees
  <2>4. CommandsAgree' /\ WorkersAgree'
    BY <1>1 DEF IInv, CommandsAgree, WorkersAgree, TypeOK
  <2> QED
    BY <1>1, <2>1, <2>3, <2>4 DEF IInv, AllClosedWhenDestroyed, NothingToCreate, TypeOK
<1>3. ASSUME PSC_Server_disable \/ PSC_Server_enable \/ (\E timeout \in Timeouts :
             /\ srv = "live" /\ mpc = "loop" /\ MayDestroy /\ srv' = "shutdown"
             /\ timer' = (timeout # 0)
             /\ UNCHANGED <<disabled, nconn, allclosed, nactive, nextthr, conn, thr, tq, tpc, mpc>>)
      PROVE  IInv'
  <2>1. /\ UNCHANGED <<nconn, allclosed, nactive, nextthr, conn, thr, tq, tpc, mpc>>
        /\ srv = "live" /\ srv' \in {"live", "shutdown"}
        /\ srv' = "shutdown" => MayDestroy
        /\ disabled' \in BOOLEAN /\ timer' \in BOOLEAN /\ mpc = "loop"
    BY <1>1, <1>3 DEF PSC_Server_disable, PSC_Server_enable, TypeOK
  <2>2. TypeOK'
    BY <1>1, <2>1 DEF TypeOK
  <2>3. CountersAgree' /\ SemaphoreAgrees' /\ CommandsAgree' /\ WorkersAgree'
    BY <2>1 DEF IInv, CountersAgree, SemaphoreAgrees, CommandsAgree, WorkersAgree, Counted,
       Active, Waiting, Posting
  <2> QED
    BY <2>1, <2>2, <2>3 DEF IInv, AllClosedWhenDestroyed, NothingToCreate, MayDestroy
<1>4. ASSUME srv # "freed", mpc = "loop", MayDestroy, PSC_Server_destroy
      PROVE  IInv'
  <2>1. /\ UNCHANGED <<disabled, nconn, allclosed, nactive, nextthr, conn, thr, tpc>>
        /\ timer' = FALSE
    BY <1>4 DEF PSC_Server_destroy
  <2>2. CountersAgree' /\ SemaphoreAgrees' /\ WorkersAgree'
    BY <1>4, <2>1 DEF IInv, CountersAgree, SemaphoreAgrees, WorkersAgree, Counted,
       Active, Waiting, Posting
  <2>3. CASE nconn = 0 /\ srv' = "freed" /\ UNCHANGED <<tq, mpc>>
    <3>1. TypeOK' /\ CommandsAgree'
      BY <1>1, <2>1, <2>3 DEF IInv, TypeOK, CommandsAgree
    <3>2. Counted = {}
      BY <2>3, SetsFinite, FS_EmptySet DEF IInv, CountersAgree
    <3>3. Settled => \A c \in Conns : conn[c] \in {"new", "closed"}
      BY <1>1, <1>4, <3>2 DEF MayDestroy, Counted, TypeOK
    <3>4. Settled => \A t \in Thr : tpc'[t].at # "post"
      BY <1>4, <2>1 DEF MayDestroy
    <3> QED
      BY <1>4, <2>1, <2>2, <2>3, <3>1, <3>3, <3>4 DEF IInv, AllClosedWhenDestroyed,
         NothingToCreate
  <2>4. CASE /\ nconn # 0 /\ tq' = [t \in Thr |-> Append(tq[t], DestroyPool)]
             /\ mpc' = "wait" /\ UNCHANGED srv
    <3>1. ASSUME NEW t \in Thr
          PROVE  /\ tq[t] \in Seq(Commands) /\ tq'[t] \in Seq(Commands)
                 /\ DOMAIN tq[t] = 1 .. Len(tq[t]) /\ Len(tq[t]) \in Nat
                 /\ DOMAIN tq'[t] = 1 .. Len(tq[t]) + 1
                 /\ \A i \in 1 .. Len(tq[t]) : tq'[t][i] = tq[t][i]
                 /\ tq'[t][Len(tq[t]) + 1] = DestroyPool
      <4>1. tq[t] \in Seq(Commands) /\ DestroyPool \in Commands
        BY <1>1 DEF TypeOK, Commands
      <4>2. tq'[t] = Append(tq[t], DestroyPool)
        BY <2>4
      <4> QED
        BY <4>1, <4>2, AppendProperties, LenProperties
    <3>2. TypeOK'
      <4>1. tq' \in [Thr -> Seq(Commands)]
        BY <2>4, <3>1
      <4> QED
        BY <1>1, <2>1, <2>4, <4>1 DEF TypeOK
    <3>3. CommandsAgree'
      <4> SUFFICES ASSUME NEW u \in Thr, NEW i \in DOMAIN tq'[u], tq'[u][i].run = "doaccept"
                   PROVE  LET d == tq'[u][i].conn
                          IN  /\ conn'[d] = "pending" /\ thr'[d] = u
                              /\ \A k \in DOMAIN tq'[u] : tq'[u][k] = DoAccept(d) => k = i
        BY DEF CommandsAgree
      <4>1. i \in 1 .. Len(tq[u]) /\ tq'[u][i] = tq[u][i]
        BY <3>1, CommandKinds
      <4> DEFINE d == tq[u][i].conn
      <4>2. /\ conn[d] = "pending" /\ thr[d] = u
            /\ \A k \in DOMAIN tq[u] : tq[u][k] = DoAccept(d) => k = i
        BY <3>1, <4>1 DEF IInv, CommandsAgree
      <4>3. \A k \in DOMAIN tq'[u] : tq'[u][k] = DoAccept(d) => k = i
        <5>1. DestroyPool # DoAccept(d)
          BY CommandKinds
        <5> HIDE DEF d
        <5> SUFFICES ASSUME NEW k \in DOMAIN tq'[u], tq'[u][k] = DoAccept(d) PROVE k = i
          OBVIOUS
        <5>2. k \in 1 .. Len(tq[u]) + 1
          BY <3>1
        <5>3. k # Len(tq[u]) + 1
          BY <3>1, <5>1
        <5>4. k \in 1 .. Len(tq[u]) /\ Len(tq[u]) \in Nat
          BY <3>1, <5>2, <5>3
        <5>5. k \in DOMAIN tq[u] /\ tq[u][k] = DoAccept(d)
          BY <3>1, <5>4
        <5> QED
          BY <4>2, <5>5
      <4> QED
        BY <2>1, <4>1, <4>2, <4>3
    <3> QED
      BY <1>4, <2>1, <2>2, <2>4, <3>2, <3>3 DEF IInv, AllClosedWhenDestroyed, NothingToCreate,
         MayDestroy
  <2> QED
    BY <1>4, <2>3, <2>4 DEF PSC_Server_destroy
<1>5. ASSUME destroy_wait
      PROVE  IInv'
  <2> USE <1>5 DEF destroy_wait
  <2>1. TypeOK'
    BY <1>1 DEF TypeOK
  <2>2. CountersAgree' /\ CommandsAgree' /\ WorkersAgree'
    BY DEF IInv, CountersAgree, CommandsAgree, WorkersAgree, Counted, Active
  <2>3. Settled => /\ \A c \in Conns : conn[c] \in {"new", "closed"}
                   /\ \A t \in Thr : tpc[t].at # "post"
    <3> SUFFICES ASSUME Settled
                 PROVE  /\ \A c \in Conns : conn[c] \in {"new", "closed"}
                        /\ \A t \in Thr : tpc[t].at # "post"
      OBVIOUS
    <3>1. \A c \in Conns : conn[c] \notin {"pending", "opening"}
      BY DEF IInv, NothingToCreate
    <3>2. Waiting = {}
      BY <1>1, <3>1, WorkerPlaces DEF IInv, WorkersAgree, Waiting
    <3>3. Cardinality(Waiting) = 0
      BY <3>2, FS_EmptySet
    <3>4. nconn = 0 /\ Cardinality(Posting) = 0
      BY <1>1, <3>3, SetsFinite DEF IInv, SemaphoreAgrees, TypeOK
    <3>5. Counted = {}
      BY <3>4, SetsFinite, FS_EmptySet DEF IInv, CountersAgree
    <3>6. \A t \in Thr : tpc[t].at # "post"
      BY <3>4, SetsFinite, FS_EmptySet DEF Posting
    <3> QED
      BY <1>1, <3>1, <3>5, <3>6 DEF Counted, TypeOK
  <2> QED
    BY <2>1, <2>2, <2>3 DEF IInv, AllClosedWhenDestroyed, NothingToCreate
<1> QED
  BY <1>1, <1>2, <1>3, <1>4, <1>5 DEF Destroy, forceDestroy, PSC_Server_shutdown, TypeOK

\* doaccept preserves it: the connection is created for the worker it was given
\* to, and the first one has the worker take the semaphore.
LEMMA DoAcceptIInv ==
  ASSUME ServerAssumption, IInv, NEW t \in Thr, doaccept(t) \/ doaccept_fail(t)
  PROVE  IInv'
<1> DEFINE c == Head(tq[t]).conn
           q == tq[t]
<1>1. /\ TypeOK /\ tpc[t] = Idle /\ q # <<>> /\ Head(q).run = "doaccept"
      /\ tq' = [tq EXCEPT ![t] = Tail(q)]
      /\ UNCHANGED <<srv, disabled, allclosed, nextthr, timer, thr, mpc>>
  BY DEF IInv, doaccept, doaccept_fail
<1>2. /\ c \in Conns /\ conn[c] = "pending" /\ thr[c] = t
      /\ \A u \in Thr : \A k \in DOMAIN tq[u] : tq[u][k] = DoAccept(c) => u = t /\ k = 1
  BY <1>1, FirstAccept
<1>3. /\ Tail(q) \in Seq(Commands) /\ Len(q) \in Nat \ {0} /\ DOMAIN q = 1 .. Len(q)
      /\ DOMAIN Tail(q) = 1 .. Len(q) - 1
      /\ \A i \in 1 .. Len(q) - 1 : Tail(q)[i] = q[i + 1]
  BY <1>1, FirstCommand
<1> HIDE DEF c, q
<1>4. PICK v \in {"opening", "closed"} : conn' = [conn EXCEPT ![c] = v]
  BY DEF doaccept, doaccept_fail, c
<1>5. tq' \in [Thr -> Seq(Commands)] /\ tq'[t] = Tail(q) /\ \A u \in Thr \ {t} : tq'[u] = tq[u]
  BY <1>1, <1>3 DEF TypeOK
<1>6. ASSUME NEW d \in Conns, d # c PROVE conn'[d] = conn[d]
  BY <1>1, <1>4, <1>6 DEF TypeOK
<1>7. CommandsAgree'
  <2> SUFFICES ASSUME NEW u \in Thr, NEW i \in DOMAIN tq'[u], tq'[u][i].run = "doaccept"
               PROVE  LET d == tq'[u][i].conn
                      IN  /\ conn'[d] = "pending" /\ thr'[d] = u
                          /\ \A k \in DOMAIN tq'[u] : tq'[u][k] = DoAccept(d) => k = i
    BY DEF CommandsAgree
  <2>1. PICK j \in DOMAIN tq[u] : /\ tq'[u][i] = tq[u][j] /\ (u = t => j = i + 1)
                                  /\ (u # t => j = i)
    <3>1. CASE u = t
      <4>1. i + 1 \in DOMAIN q /\ tq'[u][i] = q[i + 1]
        BY <1>3, <1>5, <3>1
      <4> QED
        BY <3>1, <4>1 DEF q
    <3>2. CASE u # t
      BY <1>5, <3>2
    <3> QED
      BY <3>1, <3>2
  <2> DEFINE d == tq[u][j].conn
  <2>2. /\ conn[d] = "pending" /\ thr[d] = u
        /\ \A k \in DOMAIN tq[u] : tq[u][k] = DoAccept(d) => k = j
    BY <2>1 DEF IInv, CommandsAgree
  <2>3. d \in Conns /\ tq[u][j] = DoAccept(d)
    <3>1. tq[u] \in Seq(Commands) /\ DOMAIN tq[u] = 1 .. Len(tq[u])
      BY <1>1, LenProperties DEF TypeOK
    <3>2. tq[u][j] \in Commands /\ tq[u][j].run = "doaccept"
      BY <2>1, <3>1, ElementOfSeq
    <3> QED
      BY <3>2, CommandKinds DEF Commands
  <2>4. d # c
    <3> SUFFICES ASSUME d = c PROVE FALSE
      OBVIOUS
    <3>1. u = t /\ j = 1
      BY <1>2, <2>3
    <3>2. i \in 1 .. Len(q) - 1
      BY <1>3, <1>5, <3>1
    <3> QED
      BY <1>3, <2>1, <3>1, <3>2
  <2>5. \A k \in DOMAIN tq'[u] : tq'[u][k] = DoAccept(d) => k = i
    <3> SUFFICES ASSUME NEW k \in DOMAIN tq'[u], tq'[u][k] = DoAccept(d) PROVE k = i
      OBVIOUS
    <3>1. CASE u = t
      <4>1. /\ i \in 1 .. Len(q) - 1 /\ k \in 1 .. Len(q) - 1 /\ k + 1 \in DOMAIN tq[u]
            /\ tq[u][k + 1] = DoAccept(d)
        <5> HIDE DEF d
        <5>1. i \in 1 .. Len(q) - 1 /\ k \in 1 .. Len(q) - 1 /\ tq'[u][k] = Tail(q)[k]
          BY <1>3, <1>5, <3>1
        <5>2. k + 1 \in DOMAIN q /\ Tail(q)[k] = q[k + 1]
          BY <1>3, <5>1
        <5> QED
          BY <3>1, <5>1, <5>2 DEF q
      <4>2. k + 1 = j /\ j = i + 1
        BY <2>1, <2>2, <3>1, <4>1
      <4> QED
        BY <1>3, <4>1, <4>2
    <3>2. CASE u # t
      BY <1>5, <2>1, <2>2, <3>2
    <3> QED
      BY <3>1, <3>2
  <2> HIDE DEF d
  <2>6. tq'[u][i].conn = d
    BY <2>1 DEF d
  <2>7. conn'[d] = "pending" /\ thr'[d] = u
    BY <1>1, <1>6, <2>2, <2>3, <2>4
  <2> QED
    BY <2>5, <2>6, <2>7
<1>8. \A u \in Thr : tpc[u].at \in {"semwait", "register"} => tpc[u].conn \in Conns \ {c}
  BY <1>1, <1>2, WorkerPlaces DEF IInv, WorkersAgree
<1>9. CASE doaccept(t)
  <2>1. /\ conn' = [conn EXCEPT ![c] = "opening"] /\ nconn' = nconn + 1
        /\ tpc' = [tpc EXCEPT ![t] = At(IF nconn = 0 THEN "semwait" ELSE "register", c)]
        /\ UNCHANGED nactive
    BY <1>9 DEF doaccept, Goto, c
  <2>2. TypeOK'
    BY <1>1, <1>2, <1>5, <2>1 DEF TypeOK, At
  <2>3. /\ c \notin Counted /\ Counted' = Counted \cup {c}
        /\ \A u \in Thr : Active(u)' = Active(u)
    BY <1>1, <1>2, <2>1 DEF Counted, Active, TypeOK
  <2>4. Cardinality(Counted') = Cardinality(Counted) + 1
    BY <2>3, SetsFinite, FS_AddElement
  <2>5. CountersAgree'
    BY <2>1, <2>3, <2>4 DEF IInv, CountersAgree
  <2>6. /\ tpc'[t].at = (IF nconn = 0 THEN "semwait" ELSE "register") /\ tpc'[t].conn = c
        /\ \A u \in Thr \ {t} : tpc'[u] = tpc[u]
    BY <1>1, <2>1 DEF At, TypeOK
  <2>7. tpc[t].at = "idle"
    BY <1>1, WorkerPlaces
  <2>8. Posting' = Posting
    BY <2>6, <2>7 DEF Posting
  <2>9. Cardinality(Waiting') = Cardinality(Waiting) + (IF nconn = 0 THEN 1 ELSE 0)
    <3>1. CASE nconn = 0
      <4>1. t \notin Waiting /\ Waiting' = Waiting \cup {t}
        BY <2>6, <2>7, <3>1 DEF Waiting
      <4> QED
        BY <3>1, <4>1, SetsFinite, FS_AddElement
    <3>2. CASE nconn # 0
      <4>1. Waiting' = Waiting
        BY <2>6, <2>7, <3>2 DEF Waiting
      <4> QED
        BY <3>2, <4>1, SetsFinite
    <3> QED
      BY <3>1, <3>2
  <2>10. srv' # "freed" => SemaphoreAgrees'
    BY <1>1, <2>1, <2>8, <2>9, SetsFinite DEF IInv, SemaphoreAgrees, TypeOK
  <2>11. WorkersAgree'
    BY <1>1, <1>2, <1>6, <1>8, <2>1, <2>6 DEF IInv, WorkersAgree, TypeOK
  <2> QED
    BY <1>1, <1>2, <1>7, <2>2, <2>5, <2>10, <2>11 DEF IInv, AllClosedWhenDestroyed,
       NothingToCreate
<1>10. CASE doaccept_fail(t)
  <2>1. /\ conn' = [conn EXCEPT ![c] = "closed"] /\ nactive' = [nactive EXCEPT ![t] = nactive[t] - 1]
        /\ UNCHANGED <<nconn, tpc>>
    BY <1>10 DEF doaccept_fail, c
  <2>2. /\ Counted' = Counted /\ Waiting' = Waiting /\ Posting' = Posting
        /\ \A u \in Thr \ {t} : Active(u)' = Active(u)
        /\ c \in Active(t) /\ Active(t)' = Active(t) \ {c}
    BY <1>1, <1>2, <2>1 DEF Counted, Active, Waiting, Posting, TypeOK
  <2>3. /\ Cardinality(Active(t)') = Cardinality(Active(t)) - 1
        /\ Cardinality(Active(t)') \in Nat
    BY <2>2, SetsFinite, FS_RemoveElement, FS_CardinalityType
  <2>4. CountersAgree'
    BY <1>1, <2>1, <2>2, <2>3 DEF IInv, CountersAgree, TypeOK
  <2>5. TypeOK'
    <3>1. nactive[t] - 1 \in Nat
      BY <2>3 DEF IInv, CountersAgree
    <3> QED
      BY <1>1, <1>2, <1>5, <2>1, <3>1 DEF TypeOK
  <2>6. srv' # "freed" => SemaphoreAgrees'
    BY <1>1, <2>1, <2>2 DEF IInv, SemaphoreAgrees
  <2>7. WorkersAgree'
    BY <1>1, <1>6, <1>8, <2>1 DEF IInv, WorkersAgree
  <2> QED
    BY <1>1, <1>2, <1>6, <1>7, <2>1, <2>4, <2>5, <2>6, <2>7 DEF IInv, AllClosedWhenDestroyed,
       NothingToCreate
<1> QED
  BY <1>9, <1>10

\* The rest of doaccept, the post and the end of destroyPool preserve it.
LEMMA WorkerIInv ==
  ASSUME ServerAssumption, IInv, NEW t \in Thr,
         doaccept_semwait(t) \/ doaccept_register(t) \/ removeConnection_post(t)
         \/ destroyPool_done(t)
  PROVE  IInv'
<1>1. TypeOK
  BY DEF IInv
<1>2. CASE doaccept_semwait(t)
  <2> USE <1>2 DEF doaccept_semwait
  <2> DEFINE c == tpc[t].conn
  <2>1. c \in Conns /\ tpc[t].at = "semwait" /\ t \in Waiting /\ t \notin Posting
    BY <1>1, WorkerPlaces DEF Waiting, Posting
  <2>2. /\ tpc' = [tpc EXCEPT ![t] = At("register", c)]
    BY DEF Goto
  <2>3. TypeOK'
    <3>1. At("register", c) \in [at : {"semwait", "register", "post"}, conn : Conns]
      BY <2>1 DEF At
    <3>2. tpc' \in [Thr -> {Idle} \cup [at : {"semwait", "register", "post"}, conn : Conns]]
      BY <1>1, <2>2, <3>1 DEF TypeOK
    <3> QED
      BY <1>1, <3>2 DEF TypeOK
  <2>4. /\ tpc'[t].at = "register" /\ tpc'[t].conn = c
        /\ \A u \in Thr \ {t} : tpc'[u] = tpc[u]
    <3>1. tpc'[t] = At("register", c) /\ \A u \in Thr \ {t} : tpc'[u] = tpc[u]
      BY <1>1, <2>2 DEF TypeOK
    <3>2. At("register", c).at = "register" /\ At("register", c).conn = c
      BY DEF At
    <3> QED
      BY <3>1, <3>2
  <2>5. Waiting' = Waiting \ {t} /\ Posting' = Posting
    BY <2>1, <2>4 DEF Waiting, Posting
  <2>6. Cardinality(Waiting') = Cardinality(Waiting) - 1
    BY <2>1, <2>5, SetsFinite, FS_RemoveElement
  <2>7. CountersAgree'
    BY DEF IInv, CountersAgree, Counted, Active
  <2>8. srv' # "freed" => SemaphoreAgrees'
    <3>1. /\ UNCHANGED <<srv, nconn>> /\ allclosed' = allclosed - 1 /\ allclosed \in Nat
          /\ srv # "freed" => SemaphoreAgrees
      BY <1>1 DEF IInv, TypeOK
    <3> HIDE DEF doaccept_semwait
    <3> QED
      BY <2>5, <2>6, <3>1, SetsFinite DEF SemaphoreAgrees
  <2>9. CommandsAgree' /\ WorkersAgree'
    BY <2>1, <2>4 DEF IInv, CommandsAgree, WorkersAgree
  <2>10. Settled => AllClosedWhenDestroyed'
    <3>1. UNCHANGED <<srv, conn>> /\ (Settled => AllClosedWhenDestroyed)
      BY DEF IInv
    <3> QED
      BY <2>4, <3>1 DEF AllClosedWhenDestroyed
  <2> QED
    BY <2>3, <2>7, <2>8, <2>9, <2>10 DEF IInv, NothingToCreate
<1>3. CASE doaccept_register(t)
  <2> USE <1>3 DEF doaccept_register
  <2> DEFINE c == tpc[t].conn
  <2>1. c \in Conns /\ tpc[t].at = "register" /\ conn[c] = "opening" /\ thr[c] = t
    BY <1>1, WorkerPlaces DEF IInv, WorkersAgree
  <2>2. tpc' = [tpc EXCEPT ![t] = Idle] /\ conn' = [conn EXCEPT ![c] = "open"]
    BY DEF Goto
  <2>3. TypeOK'
    BY <1>1, <2>1, <2>2 DEF TypeOK
  <2>4. /\ tpc'[t].at = "idle" /\ \A u \in Thr \ {t} : tpc'[u] = tpc[u]
    BY <1>1, <2>2 DEF TypeOK, Idle
  <2>5. Waiting' = Waiting /\ Posting' = Posting
    BY <2>1, <2>4 DEF Waiting, Posting
  <2>6. Counted' = Counted /\ \A u \in Thr : Active(u)' = Active(u)
    BY <1>1, <2>1, <2>2 DEF Counted, Active, TypeOK
  <2>7. CountersAgree' /\ (srv' # "freed" => SemaphoreAgrees')
    BY <2>5, <2>6 DEF IInv, CountersAgree, SemaphoreAgrees
  <2>8. CommandsAgree'
    BY <1>1, <2>1, <2>2 DEF IInv, CommandsAgree, TypeOK
  <2>9. WorkersAgree'
    <3> SUFFICES ASSUME NEW u \in Thr, tpc'[u].at \in {"semwait", "register"}
                 PROVE  conn'[tpc'[u].conn] = "opening" /\ thr'[tpc'[u].conn] = u
      BY DEF WorkersAgree
    <3>1. u # t /\ tpc'[u] = tpc[u]
      BY <2>4
    <3>2. conn[tpc[u].conn] = "opening" /\ thr[tpc[u].conn] = u /\ tpc[u].conn \in Conns
      BY <1>1, <3>1, WorkerPlaces DEF IInv, WorkersAgree
    <3> QED
      BY <1>1, <2>1, <2>2, <3>1, <3>2 DEF TypeOK
  <2> QED
    BY <1>1, <2>1, <2>2, <2>3, <2>7, <2>8, <2>9 DEF IInv, AllClosedWhenDestroyed,
       NothingToCreate, TypeOK
<1>4. CASE removeConnection_post(t)
  <2> USE <1>4 DEF removeConnection_post
  <2>1. tpc[t].at = "post" /\ t \in Posting /\ t \notin Waiting
    BY DEF Waiting, Posting
  <2>2. tpc' = [tpc EXCEPT ![t] = Idle]
    BY DEF Goto
  <2>3. TypeOK'
    BY <1>1, <2>2 DEF TypeOK
  <2>4. /\ tpc'[t].at = "idle" /\ \A u \in Thr \ {t} : tpc'[u] = tpc[u]
    BY <1>1, <2>2 DEF TypeOK, Idle
  <2>5. Waiting' = Waiting /\ Posting' = Posting \ {t}
    BY <2>1, <2>4 DEF Waiting, Posting
  <2>6. Cardinality(Posting') = Cardinality(Posting) - 1
    BY <2>1, <2>5, SetsFinite, FS_RemoveElement
  <2>7. CountersAgree'
    BY DEF IInv, CountersAgree, Counted, Active
  <2>8. srv' # "freed" => SemaphoreAgrees'
    BY <1>1, <2>5, <2>6, SetsFinite DEF IInv, SemaphoreAgrees, TypeOK
  <2>9. CommandsAgree' /\ WorkersAgree'
    BY <2>4 DEF IInv, CommandsAgree, WorkersAgree
  <2> QED
    BY <2>3, <2>7, <2>8, <2>9 DEF IInv, AllClosedWhenDestroyed, NothingToCreate
<1>5. CASE destroyPool_done(t)
  <2>1. /\ tq[t] # <<>> /\ tq' = [tq EXCEPT ![t] = Tail(tq[t])]
        /\ Head(tq[t]).run = "destroyPool"
        /\ UNCHANGED <<srv, disabled, nconn, allclosed, nactive, nextthr, timer, conn, thr,
                       tpc, mpc>>
    BY <1>5 DEF destroyPool_done, InDestroyPool
  <2>2. /\ Tail(tq[t]) \in Seq(Commands) /\ Len(tq[t]) \in Nat \ {0}
        /\ DOMAIN tq[t] = 1 .. Len(tq[t]) /\ DOMAIN Tail(tq[t]) = 1 .. Len(tq[t]) - 1
        /\ \A i \in 1 .. Len(tq[t]) - 1 : Tail(tq[t])[i] = tq[t][i + 1]
    BY <2>1, FirstCommand
  <2>3. /\ tq' \in [Thr -> Seq(Commands)] /\ tq'[t] = Tail(tq[t])
        /\ \A u \in Thr \ {t} : tq'[u] = tq[u]
    BY <1>1, <2>1, <2>2 DEF TypeOK
  <2>4. TypeOK'
    BY <1>1, <2>1, <2>3 DEF TypeOK
  <2>5. CountersAgree' /\ (srv' # "freed" => SemaphoreAgrees') /\ WorkersAgree'
    BY <2>1 DEF IInv, CountersAgree, SemaphoreAgrees, WorkersAgree, Counted, Active, Waiting,
       Posting
  <2>6. CommandsAgree'
    <3> SUFFICES ASSUME NEW u \in Thr, NEW i \in DOMAIN tq'[u], tq'[u][i].run = "doaccept"
                 PROVE  LET d == tq'[u][i].conn
                        IN  /\ conn'[d] = "pending" /\ thr'[d] = u
                            /\ \A k \in DOMAIN tq'[u] : tq'[u][k] = DoAccept(d) => k = i
      BY DEF CommandsAgree
    <3>1. CASE u # t
      BY <2>1, <2>3, <3>1 DEF IInv, CommandsAgree
    <3>2. CASE u = t
      <4>1. /\ i \in 1 .. Len(tq[t]) - 1 /\ i + 1 \in DOMAIN tq[t]
            /\ tq'[t][i] = tq[t][i + 1]
        BY <2>2, <2>3, <3>2
      <4> DEFINE d == tq[t][i + 1].conn
      <4>2. /\ conn[d] = "pending" /\ thr[d] = t
            /\ \A k \in DOMAIN tq[t] : tq[t][k] = DoAccept(d) => k = i + 1
        BY <3>2, <4>1 DEF IInv, CommandsAgree
      <4>3. ASSUME NEW k \in DOMAIN tq'[t], tq'[t][k] = DoAccept(d)
            PROVE  k = i
        <5> HIDE DEF d
        <5>1. /\ k \in 1 .. Len(tq[t]) - 1 /\ k + 1 \in DOMAIN tq[t]
              /\ tq[t][k + 1] = DoAccept(d)
          BY <2>2, <2>3, <4>3
        <5> QED
          BY <2>2, <4>1, <4>2, <5>1
      <4> QED
        BY <2>1, <3>2, <4>1, <4>2, <4>3
    <3> QED
      BY <3>1, <3>2
  <2> QED
    BY <2>1, <2>4, <2>5, <2>6 DEF IInv, AllClosedWhenDestroyed, NothingToCreate
<1> QED
  BY <1>2, <1>3, <1>4, <1>5

\* removeConnection preserves it: the last connection has its worker post.
LEMMA RemoveIInv ==
  ASSUME ServerAssumption, IInv, NEW t \in Thr, NEW c \in Conns, removeConnection(t, c)
  PROVE  IInv'
<1> USE DEF removeConnection
<1>1. TypeOK /\ conn[c] = "open" /\ thr[c] = t /\ tpc[t].at = "idle"
  BY WorkerPlaces DEF IInv
<1>2. /\ c \in Counted /\ Counted' = Counted \ {c}
      /\ c \in Active(t) /\ Active(t)' = Active(t) \ {c}
      /\ \A u \in Thr \ {t} : Active(u)' = Active(u)
  BY <1>1 DEF Counted, Active, TypeOK
<1>3. /\ Cardinality(Counted') = Cardinality(Counted) - 1 /\ Cardinality(Counted') \in Nat
      /\ Cardinality(Active(t)') = Cardinality(Active(t)) - 1
      /\ Cardinality(Active(t)') \in Nat
  BY <1>2, SetsFinite, FS_RemoveElement, FS_CardinalityType
<1>4. CountersAgree' /\ nconn - 1 \in Nat /\ nactive[t] - 1 \in Nat
  BY <1>1, <1>2, <1>3 DEF IInv, CountersAgree, TypeOK
<1>5. /\ \A u \in Thr \ {t} : tpc'[u] = tpc[u]
      /\ nconn = 1 => tpc'[t] = At("post", c)
      /\ nconn # 1 => tpc' = tpc
      /\ tpc' \in [Thr -> {Idle} \cup [at : {"semwait", "register", "post"}, conn : Conns]]
  <2>1. At("post", c) \in [at : {"semwait", "register", "post"}, conn : Conns]
    BY DEF At
  <2>2. CASE nconn = 1
    <3>1. tpc' = [tpc EXCEPT ![t] = At("post", c)]
      BY <2>2 DEF Goto
    <3> QED
      BY <1>1, <2>1, <2>2, <3>1 DEF TypeOK
  <2>3. CASE nconn # 1
    BY <1>1, <2>3 DEF TypeOK
  <2> QED
    BY <2>2, <2>3
<1>6. TypeOK'
  BY <1>1, <1>4, <1>5 DEF TypeOK
<1>7. Waiting' = Waiting
  BY <1>1, <1>5 DEF Waiting, At
<1>8. Cardinality(Posting') = Cardinality(Posting) + (IF nconn = 1 THEN 1 ELSE 0)
  <2>1. CASE nconn = 1
    <3>1. t \notin Posting /\ Posting' = Posting \cup {t}
      BY <1>1, <1>5, <2>1 DEF Posting, At
    <3> QED
      BY <2>1, <3>1, SetsFinite, FS_AddElement
  <2>2. CASE nconn # 1
    BY <1>5, <2>2, SetsFinite DEF Posting
  <2> QED
    BY <2>1, <2>2
<1>9. srv' # "freed" => SemaphoreAgrees'
  BY <1>1, <1>4, <1>7, <1>8, SetsFinite DEF IInv, SemaphoreAgrees, TypeOK
<1>10. CommandsAgree'
  BY <1>1 DEF IInv, CommandsAgree, TypeOK
<1>11. WorkersAgree'
  <2> SUFFICES ASSUME NEW u \in Thr, tpc'[u].at \in {"semwait", "register"}
               PROVE  conn'[tpc'[u].conn] = "opening" /\ thr'[tpc'[u].conn] = u
    BY DEF WorkersAgree
  <2>1. tpc'[u] = tpc[u]
    BY <1>5 DEF At
  <2>2. conn[tpc[u].conn] = "opening" /\ thr[tpc[u].conn] = u /\ tpc[u].conn \in Conns
    BY <1>1, <2>1, WorkerPlaces DEF IInv, WorkersAgree
  <2> QED
    BY <1>1, <2>1, <2>2 DEF TypeOK
<1> QED
  BY <1>1, <1>4, <1>6, <1>9, <1>10, <1>11 DEF IInv, AllClosedWhenDestroyed, NothingToCreate,
     TypeOK

\* What happens elsewhere in the program leaves it alone.
LEMMA StutterIInv == IInv /\ UNCHANGED vars => IInv'
BY DEF vars, IInv, TypeOK, CountersAgree, SemaphoreAgrees, AllClosedWhenDestroyed,
   CommandsAgree, WorkersAgree, NothingToCreate, Counted, Active, Waiting, Posting

\* The invariant holds throughout.
LEMMA Invariance == ServerAssumption => (Spec => []IInv)
<1> SUFFICES ASSUME ServerAssumption PROVE Spec => []IInv
  OBVIOUS
<1>1. ASSUME IInv, Next PROVE IInv'
  <2>1. ASSUME NEW t \in Thr, WorkerStep(t) PROVE IInv'
    BY <1>1, <2>1, DoAcceptIInv, WorkerIInv, RemoveIInv DEF WorkerStep
  <2>2. ASSUME NEW c \in Conns, acceptConnection(c) \/ Closes(c) PROVE IInv'
    BY <1>1, <2>2, AcceptIInv, RemoveIInv DEF Closes
  <2> QED
    BY <1>1, <2>1, <2>2, MainIInv DEF Next
<1>2. IInv /\ [Next]_vars => IInv'
  BY <1>1, StutterIInv
<1> QED
  BY <1>2, InitIInv, PTL DEF Spec

\* server.c: whatever workers and main thread do, the numbers of connections and
\* the semaphore are exact until the server is freed, also when it is destroyed
\* while accepted connections still wait for their workers.
THEOREM CountsAlwaysExact == ServerAssumption => (Spec => []CountsExact)
<1> SUFFICES ASSUME ServerAssumption PROVE Spec => []CountsExact
  OBVIOUS
<1>1. IInv => CountsExact
  BY DEF IInv, CountsExact
<1> QED
  BY <1>1, Invariance, PTL

\* server.c, PSC_Server_destroy: and when it is only destroyed while none of them
\* waits, no connection is left, or left to be created, once the server is freed.
THEOREM AllConnectionsCounted ==
  ServerAssumption /\ Settled => (Spec => []ConnectionsCounted)
<1> SUFFICES ASSUME ServerAssumption, Settled PROVE Spec => []ConnectionsCounted
  OBVIOUS
<1>1. IInv => ConnectionsCounted
  BY DEF IInv, CountsExact, ConnectionsCounted
<1> QED
  BY <1>1, Invariance, PTL

-----------------------------------------------------------------------------
(* Dictionary: where the tables lead *)

\* A prefix of n digits has n digits, and prefixes agree digit by digit.
LEMMA PrefixIs ==
  ASSUME DictAssumption, NEW k \in Keys, NEW n \in 1..MaxNest
  PROVE  /\ Prefix(k, n) \in Paths /\ Len(Prefix(k, n)) = n
         /\ Head(Prefix(k, n)) = Top(k) /\ Top(k) \in Tops
         /\ \A i \in 1..n : Prefix(k, n)[i] = Digits[k][i]
         /\ Prefix(k, n) \in Seq(Nat)
<1>1. /\ Digits[k] \in Seq(Nat) /\ Len(Digits[k]) = MaxNest /\ MaxNest \in Nat \ {0}
  BY DEF DictAssumption
<1>2. Len(SubSeq(Digits[k], 1, n)) = n /\ \A i \in 1..n : SubSeq(Digits[k], 1, n)[i] = Digits[k][i]
  BY <1>1
<1>3. SubSeq(Digits[k], 1, n) \in Seq(Nat)
  BY <1>1
<1>4. Head(SubSeq(Digits[k], 1, n)) = Digits[k][1]
  BY <1>1, <1>2
<1> QED
  BY <1>2, <1>3, <1>4 DEF Prefix, Paths, Top, Tops

\* Two keys with a common prefix have all shorter ones in common.
LEMMA PrefixShared ==
  ASSUME DictAssumption, NEW k \in Keys, NEW j \in Keys,
         NEW n \in 1..MaxNest, NEW m \in 1..MaxNest, Prefix(k, n) = Prefix(j, m)
  PROVE  n = m /\ Top(k) = Top(j) /\ \A i \in 1..n : Prefix(k, i) = Prefix(j, i)
<1>1. n = m /\ Top(k) = Top(j)
  BY PrefixIs, Zenon
<1>2. ASSUME NEW i \in 1..n PROVE Prefix(k, i) = Prefix(j, i)
  <2>0. MaxNest \in Nat
    BY DEF DictAssumption
  <2>1. i \in 1..MaxNest
    BY <2>0
  <2>2. /\ Prefix(k, i) \in Seq(Nat) /\ Prefix(j, i) \in Seq(Nat)
        /\ Len(Prefix(k, i)) = i /\ Len(Prefix(j, i)) = i
        /\ \A x \in 1..i : Prefix(k, i)[x] = Digits[k][x] /\ Prefix(j, i)[x] = Digits[j][x]
    BY <2>1, PrefixIs
  <2>3. \A x \in 1..n : Digits[k][x] = Digits[j][x]
    BY <1>1, PrefixIs
  <2>4. \A x \in 1..i : Prefix(k, i)[x] = Prefix(j, i)[x]
    BY <2>0, <2>2, <2>3
  <2> QED
    BY <2>2, <2>4
<1> QED
  BY <1>1, <1>2

\* The tables lead a key down to the first bucket that is none, or a list.
LEMMA HomeIs ==
  ASSUME DictAssumption, NEW tables, Closed(tables), NEW k \in Keys
  PROVE  \E n \in 1..MaxNest :
            /\ Home(tables, k) = Prefix(k, n) /\ Prefix(k, n) \notin tables
            /\ \A m \in 1..n - 1 : Prefix(k, m) \in tables
<1>0. MaxNest \in Nat \ {0}
  BY DEF DictAssumption
<1> DEFINE T == {n \in 1..MaxNest : Prefix(k, n) \notin tables}
<1>1. MaxNest \in T
  BY <1>0 DEF Closed
<1>2. PICK n \in T : \A m \in T : n <= m
  <2>1. T \subseteq Nat /\ T # {}
    BY <1>0, <1>1
  <2> HIDE DEF T
  <2> QED
    BY <2>1, LeastNatural
<1>3. \A m \in 1..n - 1 : Prefix(k, m) \in tables
  BY <1>0, <1>2
<1>4. {m \in 1..MaxNest - 1 : Prefix(k, m) \in tables} = 1..n - 1
  <2>1. ASSUME NEW m \in 1..MaxNest - 1, Prefix(k, m) \in tables PROVE m \in 1..n - 1
    <3>1. n \in 1..MaxNest /\ Prefix(k, n) \notin tables
      BY <1>2
    <3>2. m \in 1..MaxNest
      BY <1>0
    <3>3. ASSUME n \in 1..m PROVE FALSE
      BY <2>1, <3>1, <3>2, <3>3 DEF Closed
    <3> QED
      BY <1>0, <3>1, <3>3
  <2> QED
    BY <1>0, <1>2, <1>3, <2>1
<1>5. Cardinality(1..n - 1) = n - 1
  BY <1>0, <1>2, FS_Interval
<1>6. Home(tables, k) = Prefix(k, n)
  <2>1. 1 + (n - 1) = n
    BY <1>0, <1>2
  <2> QED
    BY <1>4, <1>5, <2>1, Zenon DEF Home
<1> QED
  BY <1>2, <1>3, <1>6

\* An entry of a bucket has the digits that lead to it.
LEMMA EntryPath ==
  ASSUME DictAssumption, NEW d, d.items \in [Paths -> SUBSET EntrySet], WellFormed(d),
         NEW p \in Paths, NEW e \in d.items[p]
  PROVE  /\ e \in EntrySet /\ e.key \in Keys /\ p = Home(d.tables, e.key)
         /\ \E n \in 1..MaxNest : p = Prefix(e.key, n) /\ Len(p) = n /\ Head(p) = Top(e.key)
<1>1. e \in EntrySet /\ e.key \in Keys /\ p = Home(d.tables, e.key)
  BY DEF EntrySet, WellFormed, Placed
<1>2. PICK n \in 1..MaxNest : Home(d.tables, e.key) = Prefix(e.key, n)
  BY <1>1, HomeIs DEF WellFormed
<1> QED
  BY <1>1, <1>2, PrefixIs

\* A key is looked for where it is.
LEMMA LooksEverywhere ==
  ASSUME DictAssumption, NEW d, d.items \in [Paths -> SUBSET EntrySet], WellFormed(d), NEW k \in Keys
  PROVE  /\ Home(d.tables, k) \in Paths
         /\ EntriesOf(d, k) = {e \in AllEntries(d) : e.key = k}
         /\ \A e, f \in EntriesOf(d, k) : e = f
<1>1. Home(d.tables, k) \in Paths
  BY HomeIs, PrefixIs DEF WellFormed
<1>2. ASSUME NEW e \in AllEntries(d), e.key = k PROVE e \in EntriesOf(d, k)
  <2>1. PICK p \in Paths : e \in d.items[p]
    BY DEF AllEntries
  <2> QED
    BY <1>2, <2>1 DEF WellFormed, Placed, EntriesOf
<1>3. EntriesOf(d, k) \subseteq {e \in AllEntries(d) : e.key = k}
  BY <1>1 DEF EntriesOf, AllEntries
<1>4. ASSUME NEW e \in EntriesOf(d, k), NEW f \in EntriesOf(d, k) PROVE e = f
  BY <1>1 DEF EntriesOf, WellFormed, Single
<1> QED
  BY <1>1, <1>2, <1>3, <1>4

\* There is one entry for a key.
LEMMA OneEntry ==
  ASSUME DictAssumption, NEW d, d.items \in [Paths -> SUBSET EntrySet], WellFormed(d),
         NEW e \in AllEntries(d), NEW f \in AllEntries(d), e.key = f.key
  PROVE  e = f
<1>1. e.key \in Keys
  BY DEF AllEntries, EntrySet
<1> QED
  BY <1>1, LooksEverywhere

-----------------------------------------------------------------------------
(* Dictionary: changing the entries *)

\* Taking entries out.
Drops(d, x, gone) ==
  x.tables = d.tables /\ x.items = [p \in Paths |-> d.items[p] \ gone]

LEMMA Filtered ==
  ASSUME DictAssumption, NEW d, d.items \in [Paths -> SUBSET EntrySet], WellFormed(d),
         NEW x, NEW gone, Drops(d, x, gone)
  PROVE  /\ x.items \in [Paths -> SUBSET EntrySet] /\ WellFormed(x)
         /\ AllEntries(x) = AllEntries(d) \ gone
         /\ \A j \in Keys : HasRoom(d, j) => HasRoom(x, j)
<1> USE DEF Drops
<1>1. x.items \in [Paths -> SUBSET EntrySet] /\ \A p \in Paths : x.items[p] \subseteq d.items[p]
  OBVIOUS
<1>2. WellFormed(x)
  BY <1>1 DEF WellFormed, Placed, Single
<1>3. AllEntries(x) = AllEntries(d) \ gone
  BY DEF AllEntries
<1>4. \A j \in Keys : HasRoom(d, j) => HasRoom(x, j)
  BY <1>1, LooksEverywhere DEF HasRoom
<1> QED
  BY <1>1, <1>2, <1>3, <1>4

\* Linking an entry where there is room, under a new key.
LEMMA Linked ==
  ASSUME DictAssumption, NEW d, d.items \in [Paths -> SUBSET EntrySet], WellFormed(d),
         NEW e \in EntrySet, HasRoom(d, e.key), EntriesOf(d, e.key) = {},
         NEW x, x.tables = d.tables,
         x.items = [d.items EXCEPT ![Home(d.tables, e.key)] = @ \cup {e}]
  PROVE  /\ x.items \in [Paths -> SUBSET EntrySet] /\ WellFormed(x)
         /\ AllEntries(x) = AllEntries(d) \cup {e}
         /\ \A j \in Keys : Top(j) # Top(e.key) /\ HasRoom(d, j) => HasRoom(x, j)
<1> DEFINE b == Home(d.tables, e.key)
<1>0. e.key \in Keys
  BY DEF EntrySet
<1>1. b \in Paths /\ \A f \in d.items[b] : f.key # e.key
  BY <1>0, LooksEverywhere DEF EntriesOf
<1>2. /\ x.items \in [Paths -> SUBSET EntrySet]
      /\ \A p \in Paths : x.items[p] = IF p = b THEN d.items[b] \cup {e} ELSE d.items[p]
  BY <1>1
<1>3. Placed(x)
  BY <1>2 DEF Placed, WellFormed
<1>4. Single(x)
  <2> SUFFICES ASSUME NEW p \in Paths, NEW f \in x.items[p], NEW g \in x.items[p],
                      Len(p) < MaxNest \/ f.key = g.key
               PROVE  f = g
    BY DEF Single
  <2>1. CASE p = b /\ Len(b) = MaxNest
    <3>1. f.key = g.key
      BY <2>1
    <3> QED
      BY <1>1, <1>2, <2>1, <3>1 DEF WellFormed, Single
  <2>2. CASE p = b /\ d.items[b] = {}
    BY <1>2, <2>2
  <2>3. CASE p # b
    BY <1>2, <2>3 DEF WellFormed, Single
  <2> QED
    BY <2>1, <2>2, <2>3 DEF HasRoom
<1>5. AllEntries(x) = AllEntries(d) \cup {e}
  BY <1>1, <1>2 DEF AllEntries
<1>6. ASSUME NEW j \in Keys, Top(j) # Top(e.key), HasRoom(d, j) PROVE HasRoom(x, j)
  <2>1. Home(d.tables, j) # b /\ Home(d.tables, j) \in Paths
    BY <1>0, <1>6, HomeIs, PrefixIs DEF WellFormed
  <2> QED
    BY <1>2, <1>6, <2>1 DEF HasRoom
<1> QED
  BY <1>2, <1>3, <1>4, <1>5, <1>6 DEF WellFormed

\* Storing another object under a key that is there.
Swaps(d, x, e, f) ==
  /\ f \in EntriesOf(d, e.key) /\ x.tables = d.tables
  /\ x.items = [d.items EXCEPT ![Home(d.tables, e.key)] = (@ \ {f}) \cup {e}]

LEMMA Swapped ==
  ASSUME DictAssumption, NEW d, d.items \in [Paths -> SUBSET EntrySet], WellFormed(d),
         NEW e \in EntrySet, NEW f, NEW x, Swaps(d, x, e, f)
  PROVE  /\ x.items \in [Paths -> SUBSET EntrySet] /\ WellFormed(x)
         /\ AllEntries(x) = (AllEntries(d) \ {f}) \cup {e}
         /\ \A j \in Keys : Top(j) # Top(e.key) /\ HasRoom(d, j) => HasRoom(x, j)
<1> USE DEF Swaps
<1> DEFINE b == Home(d.tables, e.key)
<1>0. e.key \in Keys
  BY DEF EntrySet
<1>1. b \in Paths /\ f \in d.items[b] /\ f.key = e.key
  BY <1>0, LooksEverywhere DEF EntriesOf
<1>2. /\ x.items \in [Paths -> SUBSET EntrySet]
      /\ \A p \in Paths : x.items[p] = IF p = b THEN (d.items[b] \ {f}) \cup {e} ELSE d.items[p]
  BY <1>1
<1>3. Placed(x)
  BY <1>2 DEF Placed, WellFormed
<1>4. Single(x)
  <2> SUFFICES ASSUME NEW p \in Paths, NEW g \in x.items[p], NEW h \in x.items[p],
                      Len(p) < MaxNest \/ g.key = h.key
               PROVE  g = h
    BY DEF Single
  <2>1. CASE p = b
    <3>1. \A g1, h1 \in d.items[b] : Len(b) < MaxNest \/ g1.key = h1.key => g1 = h1
      BY <1>1 DEF WellFormed, Single
    <3> QED
      BY <1>1, <1>2, <2>1, <3>1
  <2>2. CASE p # b
    BY <1>2, <2>2 DEF WellFormed, Single
  <2> QED
    BY <2>1, <2>2
<1>5. AllEntries(x) = (AllEntries(d) \ {f}) \cup {e}
  <2>1. \A p \in Paths : p # b => f \notin d.items[p]
    BY <1>1 DEF WellFormed, Placed
  <2> QED
    BY <1>1, <1>2, <2>1 DEF AllEntries
<1>6. ASSUME NEW j \in Keys, Top(j) # Top(e.key), HasRoom(d, j) PROVE HasRoom(x, j)
  <2>1. Home(d.tables, j) # b /\ Home(d.tables, j) \in Paths
    BY <1>0, <1>6, HomeIs, PrefixIs DEF WellFormed
  <2> QED
    BY <1>2, <1>6, <2>1 DEF HasRoom
<1> QED
  BY <1>2, <1>3, <1>4, <1>5, <1>6 DEF WellFormed

\* That bucket is the only one.
LEMMA HomeUnique ==
  ASSUME DictAssumption, NEW tables, Closed(tables), NEW k \in Keys, NEW n \in 1..MaxNest,
         Prefix(k, n) \notin tables, \A m \in 1..n - 1 : Prefix(k, m) \in tables
  PROVE  Home(tables, k) = Prefix(k, n)
<1>0. MaxNest \in Nat
  BY DEF DictAssumption
<1>1. PICK h \in 1..MaxNest : /\ Home(tables, k) = Prefix(k, h) /\ Prefix(k, h) \notin tables
                              /\ \A m \in 1..h - 1 : Prefix(k, m) \in tables
  BY HomeIs
<1>2. ~(h < n) /\ ~(n < h)
  BY <1>0, <1>1
<1>3. h = n
  BY <1>0, <1>2
<1> QED
  BY <1>1, <1>3

\* What is below a bucket is below no table: no bucket there has entries.
LEMMA NothingBelow ==
  ASSUME DictAssumption, NEW d, d.items \in [Paths -> SUBSET EntrySet], WellFormed(d),
         NEW k \in Keys, NEW n \in 1..MaxNest, Prefix(k, n) \notin d.tables,
         NEW m \in 1..MaxNest, n < m, NEW f \in d.items[Prefix(k, m)]
  PROVE  FALSE
<1>0. MaxNest \in Nat
  BY DEF DictAssumption
<1>1. Prefix(k, m) \in Paths
  BY PrefixIs
<1>2. f.key \in Keys /\ Prefix(k, m) = Home(d.tables, f.key)
  BY <1>1, EntryPath
<1>3. PICK h \in 1..MaxNest : /\ Home(d.tables, f.key) = Prefix(f.key, h)
                              /\ \A i \in 1..h - 1 : Prefix(f.key, i) \in d.tables
  BY <1>2, HomeIs DEF WellFormed
<1>4. m = h /\ \A i \in 1..m : Prefix(k, i) = Prefix(f.key, i)
  BY <1>2, <1>3, PrefixShared
<1>5. n \in 1..h - 1 /\ n \in 1..m
  BY <1>0, <1>4
<1> QED
  BY <1>3, <1>4, <1>5

\* dictionary.c, createEntry: making room for a key moves an entry that is in the way
\* down, and no entry gets lost.
LEMMA SplitMakesRoom ==
  ASSUME DictAssumption, NEW d, d \in DictSet, d.items \in [Paths -> SUBSET EntrySet],
         WellFormed(d), NEW k \in Keys, EntriesOf(d, k) = {}
  PROVE  LET x == Split(d, k)
         IN  /\ x \in DictSet
             /\ x.deleter = d.deleter /\ x.shared = d.shared /\ x.count = d.count
             /\ x.alive = d.alive
             /\ WellFormed(x) /\ AllEntries(x) = AllEntries(d) /\ HasRoom(x, k)
             /\ \A j \in Keys : Top(j) # Top(k) /\ HasRoom(d, j) => HasRoom(x, j)
<1>0. MaxNest \in Nat
  BY DEF DictAssumption
<1> DEFINE b == Home(d.tables, k)
           e == CHOOSE e \in d.items[b] : TRUE
           Common == {m \in Len(b)..MaxNest - 1 : Prefix(k, m) = Prefix(e.key, m)}
           ts == d.tables \cup {Prefix(k, m) : m \in Common}
           c == Home(ts, e.key)
           x == [d EXCEPT !.tables = ts, !.items[b] = {}, !.items[c] = {e}]
<1>1. CASE d.items[b] = {} \/ Len(b) = MaxNest
  <2>1. Split(d, k) = d
    BY <1>1, Zenon DEF Split
  <2>2. HasRoom(d, k)
    BY <1>1 DEF HasRoom
  <2> QED
    BY <2>1, <2>2
<1>2. CASE ~(d.items[b] = {} \/ Len(b) = MaxNest)
  <2>1. Split(d, k) = x
    BY <1>2, Zenon DEF Split, Rehash
  <2>2. PICK n \in 1..MaxNest :
           /\ b = Prefix(k, n) /\ b \notin d.tables /\ \A m \in 1..n - 1 : Prefix(k, m) \in d.tables
    BY HomeIs DEF WellFormed
  <2>3. b \in Paths /\ Len(b) = n /\ Head(b) = Top(k) /\ n \in 1..MaxNest - 1
    BY <1>0, <1>2, <2>2, PrefixIs
  <2>4. e \in d.items[b]
    BY <1>2, Zenon
  <2>5. e \in EntrySet /\ e.key \in Keys /\ b = Home(d.tables, e.key) /\ Top(e.key) = Top(k)
        /\ \A m \in 1..n : Prefix(k, m) = Prefix(e.key, m)
    <3>1. /\ e \in EntrySet /\ e.key \in Keys /\ b = Home(d.tables, e.key)
          /\ \E h \in 1..MaxNest : b = Prefix(e.key, h)
      BY <2>3, <2>4, EntryPath
    <3>2. PICK h \in 1..MaxNest : b = Prefix(e.key, h)
      BY <3>1
    <3> HIDE DEF e, b
    <3>3. PICK j \in Keys : j = e.key
      BY <3>1
    <3>4. Prefix(k, n) = Prefix(j, h)
      BY <2>2, <3>2, <3>3
    <3>5. Top(k) = Top(j) /\ \A m \in 1..n : Prefix(k, m) = Prefix(j, m)
      BY <3>4, PrefixShared
    <3> QED
      BY <3>1, <3>3, <3>5
  <2>6. \A f \in d.items[b] : f = e
    BY <1>0, <2>3, <2>4 DEF WellFormed, Single
  <2>7. /\ Common = {m \in n..MaxNest - 1 : Prefix(k, m) = Prefix(e.key, m)}
        /\ n \in Common /\ Common \subseteq 1..MaxNest
    BY <1>0, <2>3, <2>5
  <2>8. /\ \A m \in 1..n : Prefix(k, m) \in ts
        /\ \A m \in n..MaxNest - 1 : Prefix(k, m) = Prefix(e.key, m) => Prefix(k, m) \in ts
    <3>1. \A m \in 1..n : m \in 1..n - 1 \/ m = n
      BY <1>0
    <3> QED
      BY <2>2, <2>7, <3>1
  <2> HIDE DEF e, b, Common
  <2>9. Closed(ts)
    <3> SUFFICES ASSUME NEW j \in Keys, NEW h \in 1..MaxNest, NEW m \in 1..h, Prefix(j, h) \in ts
                 PROVE  h < MaxNest /\ Prefix(j, m) \in ts
      BY DEF Closed
    <3>1. CASE Prefix(j, h) \in d.tables
      BY <3>1 DEF WellFormed, Closed
    <3>2. CASE Prefix(j, h) \notin d.tables
      <4>1. PICK i \in Common : Prefix(j, h) = Prefix(k, i)
        BY <3>2
      <4>2. i \in n..MaxNest - 1 /\ i \in 1..MaxNest /\ Prefix(k, i) = Prefix(e.key, i)
        BY <2>7
      <4>3. h = i /\ Prefix(j, m) = Prefix(k, m)
        BY <4>1, <4>2, PrefixShared
      <4>4. Prefix(k, m) = Prefix(e.key, m)
        BY <2>5, <4>2, <4>3, PrefixShared
      <4>5. m \in 1..n \/ m \in n..MaxNest - 1
        BY <1>0, <4>2, <4>3
      <4> QED
        BY <1>0, <2>8, <4>2, <4>3, <4>4, <4>5
    <3> QED
      BY <3>1, <3>2
  <2> HIDE DEF ts
  <2>10. PICK h \in 1..MaxNest : /\ c = Prefix(e.key, h) /\ c \notin ts
                                 /\ \A m \in 1..h - 1 : Prefix(e.key, m) \in ts
    <3>1. e.key \in Keys
      BY <2>5
    <3>2. PICK h \in 1..MaxNest : /\ Home(ts, e.key) = Prefix(e.key, h) /\ Prefix(e.key, h) \notin ts
                                  /\ \A m \in 1..h - 1 : Prefix(e.key, m) \in ts
      BY <2>9, <3>1, HomeIs
    <3> QED
      BY <3>2
  <2> HIDE DEF c
  <2>11. h > n /\ c \in Paths /\ Head(c) = Top(k) /\ c # b /\ Len(c) = h
    <3>1. h \notin 1..n
      BY <2>5, <2>8, <2>10
    <3>2. c # b
      <4>1. b \in ts
        BY <1>0, <2>2, <2>8
      <4> QED
        BY <2>10, <4>1
    <3> QED
      BY <1>0, <2>5, <2>10, <3>1, <3>2, PrefixIs
  <2>12. ASSUME NEW m \in 1..MaxNest, n < m PROVE d.items[Prefix(k, m)] = {}
    BY <2>2, <2>12, NothingBelow, Zenon
  <2>13. d.items[c] = {}
    <3>1. Prefix(e.key, n) \notin d.tables
      <4>1. n \in 1..n
        BY <1>0
      <4> QED
        BY <2>2, <2>5, <4>1
    <3> QED
      BY <1>0, <2>5, <2>10, <2>11, <3>1, NothingBelow
  <2>14. ASSUME NEW j \in Keys, Home(d.tables, j) # b PROVE Home(ts, j) = Home(d.tables, j)
    <3>1. PICK i \in 1..MaxNest : /\ Home(d.tables, j) = Prefix(j, i) /\ Prefix(j, i) \notin d.tables
                                  /\ \A m \in 1..i - 1 : Prefix(j, m) \in d.tables
      BY HomeIs DEF WellFormed
    <3>2. ASSUME Prefix(j, i) \in ts PROVE FALSE
      <4>1. PICK m \in Common : Prefix(j, i) = Prefix(k, m)
        BY <3>1, <3>2 DEF ts
      <4>2. m \in n..MaxNest - 1 /\ m \in 1..MaxNest
        BY <2>7
      <4>3. i = m /\ \A q \in 1..i : Prefix(j, q) = Prefix(k, q)
        BY <4>1, <4>2, PrefixShared
      <4>4. i # n
        BY <2>2, <2>14, <3>1, <4>3
      <4>5. n \in 1..i - 1 /\ n \in 1..i
        BY <1>0, <4>2, <4>3, <4>4
      <4> QED
        BY <2>2, <3>1, <4>3, <4>5
    <3>3. \A m \in 1..i - 1 : Prefix(j, m) \in ts
      BY <3>1 DEF ts
    <3> QED
      BY <2>9, <3>1, <3>2, <3>3, HomeUnique
  <2>15. /\ x.tables = ts /\ x.items = [[d.items EXCEPT ![b] = {}] EXCEPT ![c] = {e}]
         /\ x.deleter = d.deleter /\ x.shared = d.shared /\ x.count = d.count /\ x.alive = d.alive
    BY DEF DictSet
  <2>24. x = [d EXCEPT !.tables = ts, !.items = x.items]
    BY DEF DictSet
  <2> HIDE DEF x
  <2>16. /\ x.items \in [Paths -> SUBSET EntrySet]
         /\ \A p \in Paths : x.items[p] = IF p = c THEN {e} ELSE IF p = b THEN {} ELSE d.items[p]
    BY <2>3, <2>5, <2>11, <2>15
  <2>17. ts \subseteq Paths
    BY <2>7, PrefixIs DEF ts, DictSet
  <2>18. x \in DictSet
    <3>1. PICK I \in [Paths -> SUBSET EntrySet] : x = [d EXCEPT !.tables = ts, !.items = I]
      BY <2>16, <2>24
    <3> QED
      BY <2>17, <3>1 DEF DictSet
  <2>19. Placed(x)
    <3> SUFFICES ASSUME NEW p \in Paths, NEW f \in x.items[p] PROVE p = Home(ts, f.key)
      BY <2>15 DEF Placed
    <3>1. CASE p = c
      BY <2>16, <3>1 DEF c
    <3>2. CASE p # c
      <4>1. f \in d.items[p] /\ p # b
        BY <2>16, <3>2
      <4>2. f.key \in Keys /\ p = Home(d.tables, f.key)
        BY <4>1, EntryPath
      <4> QED
        BY <2>14, <4>1, <4>2
    <3> QED
      BY <3>1, <3>2
  <2>20. Single(x)
    BY <2>16 DEF WellFormed, Single
  <2>21. AllEntries(x) = AllEntries(d)
    <3>1. ASSUME NEW p \in Paths, NEW f \in x.items[p] PROVE f \in AllEntries(d)
      BY <2>3, <2>4, <2>16 DEF AllEntries
    <3>2. ASSUME NEW p \in Paths, NEW f \in d.items[p] PROVE f \in AllEntries(x)
      <4>1. CASE p = b
        <5>1. f = e /\ f \in x.items[c]
          BY <2>6, <2>11, <2>16, <4>1
        <5> QED
          BY <2>11, <5>1 DEF AllEntries
      <4>2. CASE p # b
        <5>1. p # c
          BY <2>13
        <5> QED
          BY <2>16, <4>2, <5>1 DEF AllEntries
      <4> QED
        BY <4>1, <4>2
    <3> QED
      BY <3>1, <3>2 DEF AllEntries
  <2>22. HasRoom(x, k)
    <3>1. PICK i \in 1..MaxNest : /\ Home(ts, k) = Prefix(k, i) /\ Prefix(k, i) \notin ts
      BY <2>9, HomeIs
    <3>2. i > n /\ Prefix(k, i) \in Paths /\ Len(Prefix(k, i)) = i
      BY <1>0, <2>8, <3>1, PrefixIs
    <3>3. CASE i = MaxNest
      BY <2>15, <3>1, <3>2, <3>3 DEF HasRoom
    <3>4. CASE i # MaxNest
      <4>1. Prefix(k, i) # c
        <5>1. i \in n..MaxNest - 1
          BY <1>0, <3>2, <3>4
        <5>2. ASSUME Prefix(k, i) = c PROVE FALSE
          <6>1. i = h
            BY <2>11, <3>2, <5>2
          <6> QED
            BY <2>8, <2>10, <3>1, <5>1, <5>2, <6>1
        <5> QED
          BY <5>2
      <4>2. Prefix(k, i) # b
        BY <2>3, <3>2
      <4>3. x.items[Prefix(k, i)] = {}
        BY <2>12, <2>16, <3>2, <4>1, <4>2
      <4> QED
        BY <2>15, <3>1, <4>3 DEF HasRoom
    <3> QED
      BY <3>3, <3>4
  <2>23. ASSUME NEW j \in Keys, Top(j) # Top(k), HasRoom(d, j) PROVE HasRoom(x, j)
    <3>1. Home(d.tables, j) \in Paths /\ Head(Home(d.tables, j)) = Top(j)
      <4>1. PICK i \in 1..MaxNest : Home(d.tables, j) = Prefix(j, i)
        BY HomeIs DEF WellFormed
      <4> QED
        BY <4>1, PrefixIs
    <3>2. Home(d.tables, j) # b /\ Home(d.tables, j) # c
      BY <2>3, <2>11, <2>23, <3>1
    <3>3. Home(ts, j) = Home(d.tables, j)
      BY <2>14, <3>2
    <3> QED
      BY <2>15, <2>16, <2>23, <3>1, <3>2, <3>3 DEF HasRoom
  <2> QED
    BY <2>1, <2>9, <2>15, <2>18, <2>19, <2>20, <2>21, <2>22, <2>23 DEF WellFormed
<1> QED
  BY <1>1, <1>2

-----------------------------------------------------------------------------
(* Dictionary: counting *)

\* The entries are as many as their keys.
LEMMA EntriesFinite ==
  ASSUME DictAssumption, NEW d, d.items \in [Paths -> SUBSET EntrySet], WellFormed(d)
  PROVE  /\ IsFiniteSet(AllEntries(d)) /\ Cardinality(AllEntries(d)) \in Nat
         /\ Cardinality(AllEntries(d)) = Cardinality({e.key : e \in AllEntries(d)})
<1> DEFINE E == AllEntries(d)
           K == {e.key : e \in E}
           f == [e \in E |-> e.key]
<1>1. K \subseteq Keys
  BY DEF AllEntries, EntrySet
<1>2. \A e, g \in E : e.key = g.key => e = g
  BY OneEntry
<1> HIDE DEF E
<1>3. f \in Bijection(E, K) /\ f \in Injection(E, K)
  BY <1>2 DEF Bijection, Injection, Surjection, IsInjective
<1>4. IsFiniteSet(K)
  BY <1>1, FS_Subset DEF DictAssumption
<1> HIDE DEF f, K
<1>5. IsFiniteSet(E)
  BY <1>3, <1>4, FS_Injection
<1>6. Cardinality(K) = Cardinality(E)
  BY <1>3, <1>5, FS_Bijection DEF ExistsBijection
<1>7. Cardinality(E) \in Nat
  BY <1>5, FS_CardinalityType
<1> QED
  BY <1>5, <1>6, <1>7 DEF E, K

\* An object that is stored at most once is deleted at most once.
LEMMA DueIs ==
  ASSUME NEW d, NEW o, \A e, f \in AllEntries(d) : e.obj = f.obj => e = f
  PROVE  DueDeletes(d, o) = IF \E e \in AllEntries(d) : e.obj = o /\ Deletes(d, e.del) THEN 1 ELSE 0
<1> DEFINE S == {e \in AllEntries(d) : e.obj = o /\ Deletes(d, e.del)}
<1>1. CASE \E e \in AllEntries(d) : e.obj = o /\ Deletes(d, e.del)
  <2>1. PICK e \in AllEntries(d) : e.obj = o /\ Deletes(d, e.del)
    BY <1>1
  <2>2. S = {e}
    BY <2>1
  <2> QED
    BY <1>1, <2>2, FS_Singleton DEF DueDeletes
<1>2. CASE ~\E e \in AllEntries(d) : e.obj = o /\ Deletes(d, e.del)
  <2>1. S = {}
    BY <1>2
  <2> QED
    BY <1>2, <2>1, FS_EmptySet DEF DueDeletes
<1> QED
  BY <1>1, <1>2

\* One thread begins or ends to link or unlink an entry.
LEMMA LinkingChanges ==
  ASSUME DictAssumption, NEW t \in Threads, \A u \in Threads : u # t => th'[u] = th[u]
  PROVE  /\ Cardinality(Linking) \in Nat
         /\ (t \in Linking <=> t \in Linking') => Linking' = Linking
         /\ t \notin Linking /\ t \in Linking' => Cardinality(Linking') = Cardinality(Linking) + 1
         /\ t \in Linking /\ t \notin Linking' => Cardinality(Linking') = Cardinality(Linking) - 1
<1>1. IsFiniteSet(Linking)
  BY FS_Subset DEF DictAssumption, Linking
<1>2. Cardinality(Linking) \in Nat
  BY <1>1, FS_CardinalityType
<1>3. (t \in Linking <=> t \in Linking') => Linking' = Linking
  BY DEF Linking
<1>4. t \notin Linking /\ t \in Linking' => Linking' = Linking \cup {t}
  BY DEF Linking
<1>5. t \in Linking /\ t \notin Linking' => Linking' = Linking \ {t}
  BY DEF Linking
<1> QED
  BY <1>1, <1>2, <1>3, <1>4, <1>5, FS_AddElement, FS_RemoveElement

-----------------------------------------------------------------------------
(* Dictionary: the locks *)

\* What a thread holds is a top-level bucket.
LEMMA HoldsTops ==
  ASSUME DictAssumption, DictTypeOK, NEW t \in Threads, StepFits(t)
  PROVE  /\ Writes(t) \subseteq Tops /\ Reads(t) \subseteq Tops
         /\ th[t].pc \in {"removing", "unlockAll"} => Min(th[t].left) \in th[t].left
<1>0. th[t].key \in Keys /\ th[t].left \subseteq Tops
  BY DEF DictTypeOK, ThreadSet
<1>1. Top(th[t].key) \in Tops
  BY <1>0 DEF Tops
<1>2. ASSUME th[t].pc \in {"removing", "unlockAll"} PROVE Min(th[t].left) \in th[t].left
  <2>1. Tops \subseteq Nat
    BY DEF Tops, Top, DictAssumption
  <2>2. \E x \in th[t].left : \A y \in th[t].left : x <= y
    BY <1>0, <1>2, <2>1, LeastNatural DEF StepFits
  <2> QED
    BY <2>2, Zenon DEF Min
<1> QED
  BY <1>0, <1>1, <1>2 DEF Writes, Reads

\* dictionary.c, reserved: a bucket that one thread writes to is nobody else's.
LEMMA Exclusive ==
  ASSUME DictAssumption, DictTypeOK, LocksFit, NEW t \in Threads, NEW u \in Threads, t # u,
         StepFits(t), StepFits(u)
  PROVE  \A i \in Writes(t) : i \notin Writes(u) /\ i \notin Reads(u)
<1> SUFFICES ASSUME NEW i \in Writes(t) PROVE i \notin Writes(u) /\ i \notin Reads(u)
  OBVIOUS
<1>1. i \in Tops
  BY HoldsTops
<1>2. CASE dict.shared
  BY <1>1, <1>2 DEF LocksFit, Readers
<1>3. CASE ~dict.shared
  BY <1>3 DEF LocksFit, Writes, Reads, InSet
<1> QED
  BY <1>2, <1>3

\* The thread that uses a dictionary that is not shared.
LEMMA MayAct ==
  ASSUME LocksFit, NEW t \in Threads, th[t].pc # "idle" \/ Free(t), ~dict.shared
  PROVE  t = CHOOSE u \in Threads : TRUE
BY DEF LocksFit, Free

\* A step between taking a bucket and giving it back.
LEMMA LocksKept ==
  ASSUME DictTypeOK, LocksFit, NEW t \in Threads, th[t].pc # "idle" \/ Free(t),
         \A u \in Threads : u # t => th'[u] = th[u], dict'.shared = dict.shared,
         reserved' = reserved, Writes(t)' = Writes(t), Reads(t)' = Reads(t)
  PROVE  LocksFit'
<1>1. \A u \in Threads : Writes(u)' = Writes(u) /\ Reads(u)' = Reads(u)
  BY DEF Writes, Reads
<1>2. \A i : Readers(i)' = Readers(i)
  BY <1>1 DEF Readers
<1>3. ~dict.shared => t = CHOOSE u \in Threads : TRUE
  BY MayAct
<1> QED
  BY <1>1, <1>2, <1>3 DEF LocksFit

\* A writer takes a bucket, or gives it back.
LEMMA WriterLocks ==
  ASSUME DictAssumption, DictTypeOK, LocksFit, NEW t \in Threads, th[t].pc # "idle" \/ Free(t),
         \A u \in Threads : u # t => th'[u] = th[u], dict'.shared = dict.shared,
         NEW i \in Tops, Reads(t) = {}, Reads(t)' = {},
         \/ Lock(i) /\ Writes(t) = {} /\ Writes(t)' = {i}
         \/ Unlock(i) /\ Writes(t) = {i} /\ Writes(t)' = {}
  PROVE  LocksFit'
<1>1. \A u \in Threads : Reads(u)' = Reads(u) /\ (u # t => Writes(u)' = Writes(u))
  BY DEF Writes, Reads
<1>2. \A j : Readers(j)' = Readers(j)
  BY <1>1 DEF Readers
<1>3. ~dict.shared => t = CHOOSE u \in Threads : TRUE
  BY MayAct
<1>4. ASSUME dict.shared, NEW j \in Tops
      PROVE  /\ (reserved'[j] = -1) <=> \E u \in Threads : j \in Writes(u)'
             /\ \A u, v \in Threads : j \in Writes(u)' /\ j \in Writes(v)' => u = v
             /\ reserved'[j] = -1 => Readers(j) = {}
             /\ reserved'[j] # -1 => reserved'[j] = Cardinality(Readers(j))
  <2>0. /\ (reserved[j] = -1) <=> \E u \in Threads : j \in Writes(u)
        /\ \A u, v \in Threads : j \in Writes(u) /\ j \in Writes(v) => u = v
        /\ reserved[j] = -1 => Readers(j) = {}
        /\ reserved[j] # -1 => reserved[j] = Cardinality(Readers(j))
    BY <1>4 DEF LocksFit
  <2>1. CASE j # i
    <3>1. reserved'[j] = reserved[j]
      BY <1>4, <2>1 DEF Lock, Unlock, DictTypeOK
    <3>2. \A u \in Threads : j \in Writes(u)' <=> j \in Writes(u)
      BY <1>1, <2>1
    <3> QED
      BY <2>0, <3>1, <3>2
  <2>2. CASE j = i /\ Lock(i) /\ Writes(t) = {} /\ Writes(t)' = {i}
    <3>1. reserved[j] = 0 /\ reserved'[j] = -1
      BY <1>4, <2>2 DEF Lock, DictTypeOK
    <3>2. \A u \in Threads : u # t => j \notin Writes(u)'
      BY <1>1, <2>0, <3>1
    <3>3. IsFiniteSet(Readers(j))
      BY FS_Subset DEF Readers, DictAssumption
    <3>4. Readers(j) = {}
      BY <2>0, <3>1, <3>3, FS_EmptySet
    <3> QED
      BY <2>2, <3>1, <3>2, <3>4
  <2>3. CASE j = i /\ Unlock(i) /\ Writes(t) = {i} /\ Writes(t)' = {}
    <3>1. reserved'[j] = 0
      BY <1>4, <2>3 DEF Unlock, DictTypeOK
    <3>2. reserved[j] = -1 /\ \A u \in Threads : u # t => j \notin Writes(u)
      BY <2>0, <2>3
    <3>3. \A u \in Threads : j \notin Writes(u)'
      BY <1>1, <2>3, <3>2
    <3>4. Readers(j) = {} /\ Cardinality({}) = 0
      BY <2>0, <3>2, FS_EmptySet
    <3> QED
      BY <3>1, <3>3, <3>4
  <2> QED
    BY <2>1, <2>2, <2>3
<1> QED
  BY <1>2, <1>3, <1>4 DEF LocksFit

\* A reader takes a bucket, or gives it back.
LEMMA ReaderLocks ==
  ASSUME DictAssumption, DictTypeOK, LocksFit, NEW t \in Threads, th[t].pc # "idle" \/ Free(t),
         \A u \in Threads : u # t => th'[u] = th[u], dict'.shared = dict.shared,
         NEW i \in Tops, Writes(t) = {}, Writes(t)' = {},
         \/ /\ dict.shared => reserved[i] >= 0 /\ reserved' = [reserved EXCEPT ![i] = @ + 1]
            /\ Reads(t) = {} /\ Reads(t)' = {i}
         \/ /\ dict.shared => reserved' = [reserved EXCEPT ![i] = @ - 1]
            /\ Reads(t) = {i} /\ Reads(t)' = {}
  PROVE  LocksFit'
<1>1. \A u \in Threads : Writes(u)' = Writes(u) /\ (u # t => Reads(u)' = Reads(u))
  BY DEF Writes, Reads
<1>2. \A j \in Tops : j # i => Readers(j)' = Readers(j)
  BY <1>1 DEF Readers
<1>3. ~dict.shared => t = CHOOSE u \in Threads : TRUE
  BY MayAct
<1>4. IsFiniteSet(Readers(i)) /\ Cardinality(Readers(i)) \in Nat
  BY FS_Subset, FS_CardinalityType DEF Readers, DictAssumption
<1>5. ASSUME dict.shared, NEW j \in Tops
      PROVE  /\ (reserved'[j] = -1) <=> \E u \in Threads : j \in Writes(u)'
             /\ \A u, v \in Threads : j \in Writes(u)' /\ j \in Writes(v)' => u = v
             /\ reserved'[j] = -1 => Readers(j)' = {}
             /\ reserved'[j] # -1 => reserved'[j] = Cardinality(Readers(j)')
  <2>0. /\ (reserved[j] = -1) <=> \E u \in Threads : j \in Writes(u)
        /\ \A u, v \in Threads : j \in Writes(u) /\ j \in Writes(v) => u = v
        /\ reserved[j] = -1 => Readers(j) = {}
        /\ reserved[j] # -1 => reserved[j] = Cardinality(Readers(j))
    BY <1>5 DEF LocksFit
  <2>1. CASE j # i
    <3>1. reserved'[j] = reserved[j]
      BY <1>5, <2>1 DEF DictTypeOK
    <3> QED
      BY <1>1, <1>2, <2>0, <2>1, <3>1
  <2>2. CASE j = i /\ Reads(t) = {} /\ Reads(t)' = {i}
    <3>1. reserved[j] >= 0 /\ reserved'[j] = reserved[j] + 1 /\ reserved[j] \in Int
      BY <1>5, <2>2 DEF DictTypeOK
    <3>2. Readers(j)' = Readers(j) \cup {t} /\ t \notin Readers(j)
      BY <1>1, <2>2 DEF Readers
    <3>3. Cardinality(Readers(j)') = Cardinality(Readers(j)) + 1
      BY <1>4, <2>2, <3>2, FS_AddElement
    <3> QED
      BY <1>1, <1>4, <2>0, <2>2, <3>1, <3>3
  <2>3. CASE j = i /\ Reads(t) = {i} /\ Reads(t)' = {}
    <3>1. reserved'[j] = reserved[j] - 1 /\ reserved[j] \in Int
      BY <1>5, <2>3 DEF DictTypeOK
    <3>2. Readers(j)' = Readers(j) \ {t} /\ t \in Readers(j)
      BY <1>1, <2>3 DEF Readers
    <3>3. reserved[j] # -1 /\ reserved[j] = Cardinality(Readers(j))
      BY <2>0, <3>2
    <3>4. Cardinality(Readers(j)') = Cardinality(Readers(j)) - 1 /\ Cardinality(Readers(j)) # 0
      BY <1>4, <2>3, <3>2, FS_RemoveElement, FS_EmptySet
    <3> QED
      BY <1>1, <1>4, <2>0, <2>3, <3>1, <3>3, <3>4
  <2> QED
    BY <2>1, <2>2, <2>3
<1> QED
  BY <1>1, <1>3, <1>5 DEF LocksFit

-----------------------------------------------------------------------------
(* Dictionary: the steps *)

\* A thread that holds a bucket does not disturb what the others know.
LEMMA OthersFit ==
  ASSUME DictAssumption, DictInv, NEW t \in Threads, \A u \in Threads : u # t => th'[u] = th[u],
         \A k \in Keys : \/ past'.map[k] = past.map[k]
                         \/ /\ Top(k) \in Writes(t)
                            /\ past'.map[k] = NoObj \/ (Adds(t) /\ past'.map[k] = th[t].obj),
         \A j \in Keys : Top(j) \notin Writes(t) /\ HasRoom(dict, j) => HasRoom(dict', j)
  PROVE  \A u \in Threads : u # t => StepFits(u)'
<1> SUFFICES ASSUME NEW u \in Threads, u # t PROVE StepFits(u)'
  OBVIOUS
<1>0. /\ DictTypeOK /\ LocksFit /\ StepFits(t) /\ StepFits(u) /\ ObjectsFit
      /\ th[u].key \in Keys /\ th[u].owed \subseteq 1..MaxObjs /\ th'[u] = th[u]
  BY DEF DictInv, DictTypeOK, ThreadSet
<1>1. \A i \in Writes(u) \cup Reads(u) : i \notin Writes(t)
  BY <1>0, Exclusive
<1>2. th[u].pc \in InSet \cup {"get", "got"} =>
         Top(th[u].key) \notin Writes(t) /\ past'.map[th[u].key] = past.map[th[u].key]
  BY <1>0, <1>1 DEF Writes, Reads
<1>3. th[u].pc = "link" /\ HasRoom(dict, th[u].key) => HasRoom(dict', th[u].key)
  BY <1>0, <1>2 DEF InSet
<1>4. ASSUME NEW k \in Keys, past'.map[k] \in th[u].owed PROVE past'.map[k] = past.map[k]
  <2>1. Adds(t) => th[t].obj \notin th[u].owed
    BY <1>0 DEF ObjectsFit, AddFits
  <2>2. NoObj \notin th[u].owed
    BY <1>0 DEF NoObj
  <2> QED
    BY <1>4, <2>1, <2>2
<1>5. th[u].pc \in {"replace", "remove", "link", "got"} => th[u].pc \in InSet \cup {"get", "got"}
  BY DEF InSet
<1>6. /\ th[u].pc = "replace" => th[u].obj # NoObj /\ past'.map[th[u].key] # NoObj
      /\ th[u].pc = "remove" => th[u].obj = NoObj /\ past'.map[th[u].key] # NoObj
      /\ th[u].pc = "link" => /\ th[u].obj # NoObj /\ past'.map[th[u].key] = NoObj
                              /\ HasRoom(dict', th[u].key)
      /\ th[u].pc = "got" => th[u].obj = past'.map[th[u].key]
      /\ th[u].pc \in {"removing", "unlockAll"} => th[u].left # {}
  BY <1>0, <1>2, <1>3, <1>5 DEF StepFits
<1>7. ASSUME NEW k \in Keys, past'.map[k] \in th[u].owed
      PROVE  /\ th[u].pc \in InRemoveAll \ {"removed"} /\ k \in th[u].match /\ Top(k) \in th[u].left
             /\ th[u].pc = "unlockAll" => Top(k) # Min(th[u].left)
  BY <1>0, <1>4, <1>7 DEF StepFits
<1> QED
  BY <1>0, <1>6, <1>7 DEF StepFits

\* What is stored is an object that was given out.
LEMMA MapValues ==
  ASSUME DictInv, NEW k \in Keys, past.map[k] # NoObj
  PROVE  /\ \E e \in AllEntries(dict) : e.key = k /\ e.obj = past.map[k] /\ EntryFits(e)
         /\ past.map[k] \in 1..MaxObjs /\ past.map[k] < past.next
<1>1. PICK e \in AllEntries(dict) : e.key = k
  BY DEF DictInv, EntriesFit
<1>2. e.obj = past.map[k] /\ EntryFits(e)
  BY <1>1 DEF DictInv, EntriesFit, ObjectsFit
<1>3. past.map[k] \in 1..MaxObjs
  BY DEF DictInv, DictTypeOK, PastSet, NoObj
<1> QED
  BY <1>1, <1>2, <1>3 DEF EntryFits

\* A step that neither changes the dictionary nor the objects.
LEMMA QuietStep ==
  ASSUME DictAssumption, DictInv, NEW t \in Threads, \A u \in Threads : u # t => th'[u] = th[u],
         UNCHANGED <<dict, past>>, DictTypeOK', LocksFit', StepFits(t)',
         ~Adds(t), ~Adds(t)',
         th[t].pc \notin {"replace", "remove", "link", "uncount"},
         th'[t].pc \notin {"replace", "remove", "link", "uncount"},
         th'[t].owed \subseteq th[t].owed \cup {past.map[k] : k \in Keys}
  PROVE  DictInv'
<1>1. \A u \in Threads : StepFits(u)'
  BY OthersFit
<1>2. \A u \in Threads : (Adds(u)' <=> Adds(u)) /\ (Adds(u) => u # t)
  BY DEF Adds
<1>3. Linking' = Linking
  BY DEF Linking
<1>4. \A k : Replaced(k)' <=> Replaced(k)
  BY DEF Replaced
<1>5. WellFormed(dict)' /\ AllEntries(dict)' = AllEntries(dict)
  BY DEF DictInv
<1>6. EntriesFit'
  BY <1>3, <1>5 DEF DictInv, EntriesFit
<1>7. \A e \in AllEntries(dict) : EntryFits(e)'
  BY <1>4 DEF DictInv, ObjectsFit, EntryFits
<1>8. ASSUME NEW u \in Threads, Adds(u)' PROVE AddFits(u)'
  <2>1. u # t /\ th'[u] = th[u] /\ Adds(u) /\ AddFits(u)
    BY <1>2, <1>8 DEF DictInv, ObjectsFit
  <2>2. ASSUME NEW v \in Threads PROVE th[u].obj \notin th'[v].owed
    BY <2>1 DEF AddFits
  <2>3. \A v \in Threads : Adds(v)' /\ th'[v].obj = th'[u].obj => v = u
    BY <1>2, <2>1 DEF AddFits
  <2> QED
    BY <2>1, <2>2, <2>3 DEF AddFits
<1>9. ASSUME NEW o \in 1..MaxObjs PROVE ObjFits(o)'
  <2>0. ObjFits(o) /\ past.next \in Int
    <3>1. past \in PastSet /\ ObjectsFit
      BY DEF DictInv, DictTypeOK
    <3>2. MaxObjs \in Nat
      BY DEF DictAssumption
    <3>3. past.next \in Int
      BY <3>1, <3>2 DEF PastSet
    <3> QED
      BY <3>1, <3>3 DEF ObjectsFit
  <2>1. CASE o >= past.next
    <3>1. ASSUME NEW u \in Threads PROVE o \notin th'[u].owed
      <4>1. \A k \in Keys : past.map[k] # o
        BY <2>0, <2>1, MapValues DEF NoObj
      <4> QED
        BY <2>0, <2>1, <4>1 DEF ObjFits
    <3> QED
      BY <2>0, <2>1, <3>1 DEF ObjFits
  <2>2. CASE ~(o >= past.next)
    <3>1. (\E u \in Threads : Adds(u) /\ th[u].obj = o) => \E u \in Threads : Adds(u)' /\ th'[u].obj = o
      BY <1>2
    <3> QED
      BY <2>0, <2>2, <3>1 DEF ObjFits
  <2> QED
    BY <2>1, <2>2
<1>10. ObjectsFit'
  BY <1>5, <1>7, <1>8, <1>9 DEF DictInv, ObjectsFit
<1> QED
  BY <1>1, <1>5, <1>6, <1>10 DEF DictInv

\* What the invariant says of dict, and of one thread.
LEMMA FromDictInv ==
  ASSUME DictInv
  PROVE  /\ DictTypeOK /\ WellFormed(dict) /\ LocksFit /\ EntriesFit /\ ObjectsFit
         /\ dict \in DictSet /\ dict.items \in [Paths -> SUBSET EntrySet] /\ dict.count \in Int
         /\ past \in PastSet /\ past.next \in 1..MaxObjs + 1
         /\ \A t \in Threads : /\ StepFits(t) /\ th[t] \in ThreadSet /\ th[t].key \in Keys
                               /\ th[t].owed \subseteq 1..MaxObjs /\ th[t].left \subseteq Tops
         /\ th \in [Threads -> ThreadSet]
<1>1. DictTypeOK /\ WellFormed(dict) /\ LocksFit /\ EntriesFit /\ ObjectsFit
  BY DEF DictInv
<1>2. dict \in DictSet /\ past \in PastSet /\ th \in [Threads -> ThreadSet]
  BY <1>1 DEF DictTypeOK
<1>3. /\ dict.items \in [Paths -> SUBSET EntrySet] /\ dict.count \in Int
      /\ past.next \in 1..MaxObjs + 1
  BY <1>2 DEF DictSet, PastSet
<1>4. \A t \in Threads : /\ StepFits(t) /\ th[t] \in ThreadSet /\ th[t].key \in Keys
                         /\ th[t].owed \subseteq 1..MaxObjs /\ th[t].left \subseteq Tops
  BY <1>2 DEF DictInv, ThreadSet
<1> QED
  BY <1>1, <1>2, <1>3, <1>4

\* A step of one thread that changes nothing else keeps the types.
LEMMA ThreadTypes ==
  ASSUME DictTypeOK, NEW t \in Threads, NEW s \in ThreadSet, th' = [th EXCEPT ![t] = s],
         UNCHANGED <<dict, past>>, reserved' \in [Tops -> Int]
  PROVE  DictTypeOK' /\ th'[t] = s /\ \A u \in Threads : u # t => th'[u] = th[u]
BY DEF DictTypeOK

\* The state of a thread that is not doing anything.
LEMMA RestType ==
  ASSUME DictAssumption
  PROVE  /\ AtRest \in ThreadSet /\ AtRest.pc = "idle" /\ AtRest.owed = {} /\ AtRest.key \in Keys
         /\ AtRest.obj = NoObj
<1>1. (CHOOSE k \in Keys : TRUE) \in Keys
  BY DEF DictAssumption
<1>2. MaxObjs \in Nat
  BY DEF DictAssumption
<1>3. PICK k \in Keys : k = CHOOSE kk \in Keys : TRUE
  BY <1>1
<1>4. AtRest = [pc |-> "idle", key |-> k, obj |-> NoObj, del |-> FALSE,
                match |-> {}, left |-> {}, owed |-> {}]
  BY <1>3 DEF AtRest
<1> QED
  BY <1>2, <1>4 DEF ThreadSet, NoObj

\* dictionary.c, get: what is found for a key is what was last set for it.
LEMMA GetIsMap ==
  ASSUME DictAssumption, DictInv, NEW k \in Keys
  PROVE  /\ get(dict, k) = past.map[k]
         /\ past.map[k] = NoObj <=> EntriesOf(dict, k) = {}
         /\ past.map[k] # NoObj => /\ EntryOf(dict, k) \in EntriesOf(dict, k)
                                   /\ EntryOf(dict, k) \in AllEntries(dict)
                                   /\ EntryOf(dict, k).key = k
                                   /\ EntryOf(dict, k).obj = past.map[k]
<1>1. EntriesOf(dict, k) = {e \in AllEntries(dict) : e.key = k}
  BY FromDictInv, LooksEverywhere
<1>2. CASE past.map[k] = NoObj
  <2>1. \A e \in AllEntries(dict) : e.obj # NoObj
    BY FromDictInv DEF AllEntries, EntrySet, NoObj
  <2>2. EntriesOf(dict, k) = {}
    BY <1>1, <1>2, <2>1, FromDictInv DEF EntriesFit
  <2> QED
    BY <1>2, <2>2 DEF get
<1>3. CASE past.map[k] # NoObj
  <2>1. EntriesOf(dict, k) # {}
    BY <1>1, <1>3, MapValues
  <2>2. EntryOf(dict, k) \in EntriesOf(dict, k)
    BY <2>1 DEF EntryOf
  <2>3. EntryOf(dict, k).obj = past.map[k]
    BY <1>1, <2>2, FromDictInv DEF EntriesFit
  <2> QED
    BY <1>1, <1>3, <2>1, <2>2, <2>3 DEF get
<1> QED
  BY <1>2, <1>3

\* Giving a bucket back, or returning from removeAll.
LEMMA RestStep ==
  ASSUME DictAssumption, DictInv, NEW t \in Threads,
         PSC_Dictionary_set_unlock(t) \/ PSC_Dictionary_get_unlock(t) \/ PSC_Dictionary_removeAll_return(t)
  PROVE  DictInv'
<1> USE RestType
<1>1. /\ UNCHANGED <<dict, past>> /\ th' = [th EXCEPT ![t] = AtRest]
      /\ th[t].pc \in {"unlock", "got", "removed"}
  BY DEF PSC_Dictionary_set_unlock, PSC_Dictionary_get_unlock, PSC_Dictionary_removeAll_return
<1>2. th[t].key \in Keys /\ Top(th[t].key) \in Tops
  BY FromDictInv DEF Tops
<1>3. reserved' \in [Tops -> Int]
  BY <1>2 DEF PSC_Dictionary_set_unlock, PSC_Dictionary_get_unlock, PSC_Dictionary_removeAll_return,
              Unlock, DictInv, DictTypeOK
<1>4. DictTypeOK' /\ th'[t] = AtRest /\ \A u \in Threads : u # t => th'[u] = th[u]
  BY <1>1, <1>3, ThreadTypes, FromDictInv
<1>5. Writes(t)' = {} /\ Reads(t)' = {}
  BY <1>4 DEF Writes, Reads, InSet
<1>6. CASE PSC_Dictionary_set_unlock(t)
  <2>1. Writes(t) = {Top(th[t].key)} /\ Reads(t) = {} /\ Unlock(Top(th[t].key)) /\ th[t].pc = "unlock"
    BY <1>6 DEF PSC_Dictionary_set_unlock, Writes, Reads, InSet
  <2>2. LocksFit'
    BY <1>1, <1>2, <1>4, <1>5, <2>1, WriterLocks, FromDictInv
  <2> QED
    BY <2>2, <1>1, <1>4, QuietStep DEF Adds, StepFits
<1>7. CASE PSC_Dictionary_get_unlock(t)
  <2>1. /\ Writes(t) = {} /\ Reads(t) = {Top(th[t].key)} /\ th[t].pc = "got"
        /\ dict.shared => reserved' = [reserved EXCEPT ![Top(th[t].key)] = @ - 1]
    BY <1>7 DEF PSC_Dictionary_get_unlock, Writes, Reads, InSet
  <2>2. LocksFit'
    BY <1>1, <1>2, <1>4, <1>5, <2>1, ReaderLocks, FromDictInv
  <2> QED
    BY <2>2, <1>1, <1>4, QuietStep DEF Adds, StepFits
<1>8. CASE PSC_Dictionary_removeAll_return(t)
  <2>1. Writes(t) = {} /\ Reads(t) = {} /\ reserved' = reserved /\ th[t].pc = "removed"
    BY <1>8 DEF PSC_Dictionary_removeAll_return, Writes, Reads, InSet
  <2>2. LocksFit'
    BY <1>1, <1>4, <1>5, <2>1, LocksKept, FromDictInv
  <2> QED
    BY <2>2, <1>1, <1>4, QuietStep DEF Adds, StepFits
<1> QED
  BY <1>6, <1>7, <1>8

\* Looking up.
LEMMA GetStep ==
  ASSUME DictAssumption, DictInv, NEW t \in Threads,
         (\E k \in Keys : PSC_Dictionary_get_lock(t, k)) \/ PSC_Dictionary_get(t)
  PROVE  DictInv'
<1> USE RestType
<1>1. ASSUME NEW k \in Keys, PSC_Dictionary_get_lock(t, k) PROVE DictInv'
  <2> DEFINE s == [AtRest EXCEPT !.pc = "get", !.key = k]
  <2>1. /\ UNCHANGED <<dict, past>> /\ th' = [th EXCEPT ![t] = s] /\ Free(t) /\ th[t].pc = "idle"
        /\ dict.shared => reserved[Top(k)] >= 0 /\ reserved' = [reserved EXCEPT ![Top(k)] = @ + 1]
        /\ ~dict.shared => reserved' = reserved
    BY <1>1 DEF PSC_Dictionary_get_lock, Free
  <2>2. s \in ThreadSet /\ s.pc = "get" /\ s.key = k /\ s.owed = {}
    BY DEF ThreadSet
  <2>3. Top(k) \in Tops
    BY DEF Tops
  <2> HIDE DEF s
  <2>4. reserved' \in [Tops -> Int]
    BY <2>1, <2>3 DEF DictInv, DictTypeOK
  <2>5. DictTypeOK' /\ th'[t] = s /\ \A u \in Threads : u # t => th'[u] = th[u]
    BY <2>1, <2>2, <2>4, ThreadTypes, FromDictInv
  <2>6. Writes(t) = {} /\ Reads(t) = {} /\ Writes(t)' = {} /\ Reads(t)' = {Top(k)}
    BY <2>1, <2>2, <2>5 DEF Writes, Reads, InSet
  <2>7. LocksFit'
    BY <2>1, <2>3, <2>5, <2>6, ReaderLocks, FromDictInv
  <2>8. StepFits(t)' /\ ~Adds(t) /\ ~Adds(t)'
    BY <2>1, <2>2, <2>5 DEF StepFits, Adds
  <2> QED
    BY <2>1, <2>2, <2>5, <2>7, <2>8, QuietStep
<1>2. ASSUME PSC_Dictionary_get(t) PROVE DictInv'
  <2> DEFINE s == [th[t] EXCEPT !.obj = get(dict, th[t].key), !.pc = "got"]
  <2>0. th[t].key \in Keys /\ th[t] \in ThreadSet /\ get(dict, th[t].key) = past.map[th[t].key]
    BY FromDictInv, GetIsMap
  <2>1. /\ UNCHANGED <<dict, past, reserved>> /\ th' = [th EXCEPT ![t] = s] /\ th[t].pc = "get"
    BY <1>2 DEF PSC_Dictionary_get
  <2>2. past.map[th[t].key] \in 0..MaxObjs
    BY <2>0 DEF DictInv, DictTypeOK, PastSet
  <2>3. /\ s \in ThreadSet /\ s.pc = "got" /\ s.key = th[t].key /\ s.owed = th[t].owed
        /\ s.obj = past.map[th[t].key]
    BY <2>0, <2>2 DEF ThreadSet
  <2> HIDE DEF s
  <2>4. DictTypeOK' /\ th'[t] = s /\ \A u \in Threads : u # t => th'[u] = th[u]
    BY <2>1, <2>3, ThreadTypes, FromDictInv DEF DictTypeOK
  <2>5. /\ Writes(t) = {} /\ Reads(t) = {Top(th[t].key)} /\ Writes(t)' = {}
        /\ Reads(t)' = {Top(th[t].key)}
    BY <2>1, <2>3, <2>4 DEF Writes, Reads, InSet
  <2>6. LocksFit'
    BY <2>1, <2>4, <2>5, LocksKept, FromDictInv
  <2>7. StepFits(t)
    BY FromDictInv
  <2>8. StepFits(t)' /\ ~Adds(t) /\ ~Adds(t)'
    BY <2>1, <2>3, <2>4, <2>7 DEF StepFits, Adds, InRemoveAll
  <2> QED
    BY <2>1, <2>3, <2>4, <2>6, <2>8, QuietStep
<1> QED
  BY <1>1, <1>2

\* Beginning to remove what matches.
LEMMA RemoveAllBegins ==
  ASSUME DictAssumption, DictInv, NEW t \in Threads, NEW m \in Matchers,
         PSC_Dictionary_removeAll(t, m)
  PROVE  DictInv'
<1> USE RestType
<1> DEFINE owed == {past.map[k] : k \in m} \ {NoObj}
           s == [AtRest EXCEPT !.match = m,
                               !.pc = IF dict.count = 0 THEN "removed" ELSE "removeAll",
                               !.left = IF dict.count = 0 THEN {} ELSE Tops,
                               !.owed = owed]
<1>1. /\ UNCHANGED <<dict, past, reserved>> /\ th' = [th EXCEPT ![t] = s] /\ Free(t)
      /\ th[t].pc = "idle"
  BY DEF PSC_Dictionary_removeAll, Free
<1>2. m \subseteq Keys
  BY DEF DictAssumption
<1>3. owed \subseteq 1..MaxObjs
  BY <1>2, MapValues
<1>4. /\ s \in ThreadSet /\ s.owed = owed /\ s.match = m
      /\ s.pc = IF dict.count = 0 THEN "removed" ELSE "removeAll"
      /\ s.left = IF dict.count = 0 THEN {} ELSE Tops
  BY <1>2, <1>3 DEF ThreadSet, InRemoveAll
<1> HIDE DEF s
<1>5. DictTypeOK' /\ th'[t] = s /\ \A u \in Threads : u # t => th'[u] = th[u]
  BY <1>1, <1>4, ThreadTypes, FromDictInv DEF DictTypeOK
<1>6. Writes(t) = {} /\ Reads(t) = {} /\ Writes(t)' = {} /\ Reads(t)' = {}
  BY <1>1, <1>4, <1>5 DEF Writes, Reads, InSet
<1>7. LocksFit'
  BY <1>1, <1>5, <1>6, LocksKept, FromDictInv
<1>8. ASSUME NEW k \in Keys, past.map[k] \in owed PROVE k \in m /\ dict.count # 0
  <2>1. PICK j \in m : past.map[k] = past.map[j] /\ past.map[k] # NoObj
    BY <1>8
  <2>2. PICK e \in AllEntries(dict) : e.key = k /\ e.obj = past.map[k]
    BY <2>1, MapValues
  <2>3. PICK f \in AllEntries(dict) : f.key = j /\ f.obj = past.map[j]
    BY <1>2, <2>1, MapValues
  <2>4. e = f
    BY <2>1, <2>2, <2>3 DEF DictInv, ObjectsFit
  <2>5. Cardinality(AllEntries(dict)) \in Nat /\ Cardinality(AllEntries(dict)) # 0
    BY <2>2, FromDictInv, EntriesFinite, FS_EmptySet
  <2>6. Cardinality(Linking) \in Nat
    BY FS_Subset, FS_CardinalityType DEF Linking, DictAssumption
  <2> QED
    BY <2>2, <2>3, <2>4, <2>5, <2>6, FromDictInv DEF EntriesFit
<1>9. StepFits(t)'
  <2>1. \A k \in Keys : Top(k) \in Tops
    BY DEF Tops
  <2>2. \A k \in Keys : past'.map[k] \in th'[t].owed =>
              /\ th'[t].pc \in InRemoveAll \ {"removed"} /\ k \in th'[t].match /\ Top(k) \in th'[t].left
              /\ th'[t].pc = "unlockAll" => Top(k) # Min(th'[t].left)
    BY <1>1, <1>4, <1>5, <1>8, <2>1 DEF InRemoveAll
  <2>3. th'[t].pc \in {"removed", "removeAll"}
    BY <1>4, <1>5
  <2> QED
    BY <2>2, <2>3 DEF StepFits
<1>10. ~Adds(t) /\ ~Adds(t)'
  BY <1>1, <1>4, <1>5 DEF Adds
<1>11. th'[t].owed \subseteq th[t].owed \cup {past.map[k] : k \in Keys}
  BY <1>2, <1>4, <1>5
<1>12. /\ th[t].pc \notin {"replace", "remove", "link", "uncount"}
       /\ th'[t].pc \notin {"replace", "remove", "link", "uncount"}
  BY <1>1, <1>4, <1>5
<1> QED
  BY <1>1, <1>5, <1>7, <1>9, <1>10, <1>11, <1>12, QuietStep

\* Taking the next bucket to remove from, and giving it back.
LEMMA RemoveAllLocks ==
  ASSUME DictAssumption, DictInv, NEW t \in Threads,
         PSC_Dictionary_removeAll_lock(t) \/ PSC_Dictionary_removeAll_unlock(t)
  PROVE  DictInv'
<1> DEFINE i == Min(th[t].left)
<1>0. StepFits(t) /\ th[t] \in ThreadSet /\ th[t].left \subseteq Tops
  BY FromDictInv
<1>1. th[t].left # {}
  BY <1>0 DEF PSC_Dictionary_removeAll_lock, PSC_Dictionary_removeAll_unlock, StepFits
<1>2. i \in th[t].left /\ i \in Tops
  <2>1. Tops \subseteq Nat
    BY DEF Tops, Top, DictAssumption
  <2>2. \E x \in th[t].left : \A y \in th[t].left : x <= y
    BY <1>0, <1>1, <2>1, LeastNatural
  <2> QED
    BY <1>0, <2>2, Zenon DEF Min
<1>3. CASE PSC_Dictionary_removeAll_lock(t)
  <2> DEFINE s == [th[t] EXCEPT !.pc = "removing"]
  <2>1. /\ UNCHANGED <<dict, past>> /\ th' = [th EXCEPT ![t] = s] /\ th[t].pc = "removeAll"
        /\ Lock(i)
    BY <1>3 DEF PSC_Dictionary_removeAll_lock
  <2>2. /\ s \in ThreadSet /\ s.pc = "removing" /\ s.owed = th[t].owed /\ s.match = th[t].match
        /\ s.left = th[t].left /\ s.obj = th[t].obj
    BY <1>0 DEF ThreadSet, InRemoveAll
  <2> HIDE DEF s
  <2>3. reserved' \in [Tops -> Int]
    BY <1>2, <2>1 DEF DictInv, DictTypeOK, Lock
  <2>4. DictTypeOK' /\ th'[t] = s /\ \A u \in Threads : u # t => th'[u] = th[u]
    BY <2>1, <2>2, <2>3, ThreadTypes, FromDictInv
  <2>5. Writes(t) = {} /\ Reads(t) = {} /\ Writes(t)' = {i} /\ Reads(t)' = {}
    BY <2>1, <2>2, <2>4 DEF Writes, Reads, InSet
  <2>6. LocksFit'
    BY <1>2, <2>1, <2>4, <2>5, WriterLocks, FromDictInv
  <2>7. StepFits(t)' /\ ~Adds(t) /\ ~Adds(t)'
    BY <1>0, <1>1, <2>1, <2>2, <2>4 DEF StepFits, Adds, InRemoveAll
  <2> QED
    BY <2>1, <2>2, <2>4, <2>6, <2>7, QuietStep
<1>4. CASE PSC_Dictionary_removeAll_unlock(t)
  <2> DEFINE s == [th[t] EXCEPT !.left = th[t].left \ {i},
                                !.pc = IF th[t].left = {i} THEN "removed" ELSE "removeAll"]
  <2>1. /\ UNCHANGED <<dict, past>> /\ th' = [th EXCEPT ![t] = s] /\ th[t].pc = "unlockAll"
        /\ Unlock(i)
    BY <1>4 DEF PSC_Dictionary_removeAll_unlock
  <2>2. /\ s \in ThreadSet /\ s.pc = (IF th[t].left = {i} THEN "removed" ELSE "removeAll")
        /\ s.owed = th[t].owed /\ s.match = th[t].match
        /\ s.left = th[t].left \ {i} /\ s.obj = th[t].obj
    BY <1>0 DEF ThreadSet, InRemoveAll
  <2> HIDE DEF s
  <2>3. reserved' \in [Tops -> Int]
    BY <1>2, <2>1 DEF DictInv, DictTypeOK, Unlock
  <2>4. DictTypeOK' /\ th'[t] = s /\ \A u \in Threads : u # t => th'[u] = th[u]
    BY <2>1, <2>2, <2>3, ThreadTypes, FromDictInv
  <2>5. Writes(t) = {i} /\ Reads(t) = {} /\ Writes(t)' = {} /\ Reads(t)' = {}
    BY <2>1, <2>2, <2>4 DEF Writes, Reads, InSet
  <2>6. LocksFit'
    BY <1>2, <2>1, <2>4, <2>5, WriterLocks, FromDictInv
  <2>7. ASSUME NEW k \in Keys, past.map[k] \in th[t].owed
        PROVE  k \in th[t].match /\ Top(k) \in th[t].left /\ Top(k) # i
    BY <1>0, <2>1, <2>7 DEF StepFits
  <2>8. StepFits(t)' /\ ~Adds(t) /\ ~Adds(t)'
    BY <2>1, <2>2, <2>4, <2>7 DEF StepFits, Adds, InRemoveAll
  <2>9. /\ th'[t].owed \subseteq th[t].owed
        /\ th'[t].pc \notin {"replace", "remove", "link", "uncount"}
    BY <2>2, <2>4
  <2> QED
    BY <2>1, <2>4, <2>6, <2>8, <2>9, QuietStep
<1> QED
  BY <1>3, <1>4

\* Setting an object begins: the bucket is taken, and the object is a new one.
LEMMA SetBegins ==
  ASSUME DictAssumption, DictInv, NEW t \in Threads, NEW k \in Keys,
         NEW removes \in BOOLEAN, NEW del \in BOOLEAN, PSC_Dictionary_set_lock(t, k, removes, del)
  PROVE  DictInv'
<1> USE RestType
<1> DEFINE o0 == IF removes THEN NoObj ELSE past.next
           s == [AtRest EXCEPT !.pc = "set", !.key = k, !.del = del, !.obj = o0]
<1>0. /\ DictTypeOK /\ WellFormed(dict) /\ LocksFit /\ EntriesFit /\ ObjectsFit /\ past \in PastSet
      /\ past.next \in 1..MaxObjs + 1 /\ MaxObjs \in Nat
  BY FromDictInv DEF DictAssumption
<1>1. /\ UNCHANGED dict /\ th' = [th EXCEPT ![t] = s] /\ Free(t) /\ th[t].pc = "idle"
      /\ Lock(Top(k)) /\ (removes \/ past.next <= MaxObjs)
  BY DEF PSC_Dictionary_set_lock, Free
<1>2. s \in ThreadSet /\ s.pc = "set" /\ s.key = k /\ s.owed = {} /\ s.obj = o0 /\ s.del = del
  <2>1. o0 \in 0..MaxObjs
    BY <1>0, <1>1 DEF NoObj
  <2> HIDE DEF o0
  <2> QED
    BY <2>1 DEF ThreadSet, InSet
<1>3. removes => past' = past
  BY DEF PSC_Dictionary_set_lock
<1>4. ~removes => /\ past'.next = past.next + 1 /\ past'.map = past.map
                  /\ past'.deleted = past.deleted
                  /\ past'.asked = IF Deletes(dict, del) THEN past.asked \cup {past.next}
                                   ELSE past.asked
                  /\ past' \in PastSet
  <2> SUFFICES ASSUME ~removes
               PROVE  /\ past'.next = past.next + 1 /\ past'.map = past.map
                      /\ past'.deleted = past.deleted
                      /\ past'.asked = IF Deletes(dict, del) THEN past.asked \cup {past.next}
                                       ELSE past.asked
                      /\ past' \in PastSet
    OBVIOUS
  <2> DEFINE A == IF Deletes(dict, del) THEN past.asked \cup {past.next} ELSE past.asked
  <2>1. past' = [past EXCEPT !.next = @ + 1, !.asked = A]
    BY DEF PSC_Dictionary_set_lock, PastSet
  <2>2. past.next + 1 \in 1..MaxObjs + 1 /\ A \in SUBSET (1..MaxObjs)
    BY <1>0, <1>1 DEF PastSet
  <2> HIDE DEF A
  <2>3. /\ past'.next = past.next + 1 /\ past'.map = past.map
        /\ past'.deleted = past.deleted /\ past'.asked = A /\ past' \in PastSet
    BY <1>0, <2>1, <2>2 DEF PastSet
  <2> QED
    BY <2>3 DEF A
<1>5. /\ past' \in PastSet /\ past'.map = past.map /\ past'.deleted = past.deleted
      /\ past.next <= past'.next /\ past'.next \in Int
      /\ \A o : o # past.next => (o \in past'.asked <=> o \in past.asked)
  BY <1>0, <1>3, <1>4
<1>6. Top(k) \in Tops
  BY DEF Tops
<1> HIDE DEF s
<1>7. reserved' \in [Tops -> Int]
  BY <1>1, <1>6 DEF DictInv, DictTypeOK, Lock
<1>8. DictTypeOK' /\ th'[t] = s /\ \A u \in Threads : u # t => th'[u] = th[u]
  BY <1>0, <1>1, <1>2, <1>5, <1>7 DEF DictTypeOK
<1>9. Writes(t) = {} /\ Reads(t) = {} /\ Writes(t)' = {Top(k)} /\ Reads(t)' = {}
  BY <1>1, <1>2, <1>8 DEF Writes, Reads, InSet
<1>10. LocksFit'
  BY <1>1, <1>6, <1>8, <1>9, WriterLocks, FromDictInv
<1>11. StepFits(t)'
  BY <1>2, <1>8 DEF StepFits
<1>12. \A u \in Threads : StepFits(u)'
  BY <1>1, <1>5, <1>8, <1>11, OthersFit
<1>13. WellFormed(dict)' /\ AllEntries(dict)' = AllEntries(dict)
  BY <1>0, <1>1
<1>14. Linking' = Linking /\ \A j : Replaced(j)' <=> Replaced(j)
  BY <1>1, <1>2, <1>8 DEF Linking, Replaced
<1>15. EntriesFit'
  BY <1>0, <1>1, <1>5, <1>13, <1>14 DEF EntriesFit
<1>16. ASSUME NEW e \in AllEntries(dict) PROVE EntryFits(e)'
  <2>1. EntryFits(e) /\ e.obj \in Int
    BY <1>0, FromDictInv DEF ObjectsFit, AllEntries, EntrySet
  <2>2. e.obj # past.next
    BY <1>0, <2>1 DEF EntryFits
  <2> QED
    BY <1>0, <1>1, <1>5, <1>14, <2>1, <2>2 DEF EntryFits
<1>17. \A u \in Threads : u # t => (Adds(u)' <=> Adds(u))
  BY <1>8 DEF Adds
<1>18. \A j \in Keys : past.map[j] # past.next
  BY <1>0, MapValues DEF NoObj
<1>19. ASSUME NEW u \in Threads, Adds(u)' PROVE AddFits(u)'
  <2>1. CASE u = t
    <3>1. ~removes /\ th'[u].obj = past.next /\ th'[u].del = del /\ past.next <= MaxObjs
      BY <1>1, <1>2, <1>8, <1>19, <2>1 DEF Adds
    <3>2. ObjFits(past.next)
      BY <1>0, <3>1 DEF ObjectsFit
    <3>3. /\ past.deleted[past.next] = 0 /\ past.next \notin past.asked
          /\ \A v \in Threads : past.next \notin th[v].owed
      BY <1>0, <3>2 DEF ObjFits
    <3>4. ASSUME NEW v \in Threads PROVE past.next \notin th'[v].owed
      BY <1>2, <1>8, <3>3
    <3>5. ASSUME NEW v \in Threads, Adds(v)', th'[v].obj = past.next, v # t PROVE FALSE
      <4>1. Adds(v) /\ AddFits(v) /\ th[v].obj = past.next
        BY <1>0, <1>8, <1>17, <3>5 DEF ObjectsFit
      <4> QED
        BY <1>0, <4>1 DEF AddFits
    <3>6. past.next < past'.next /\ (past.next \in past'.asked <=> Deletes(dict', del))
      BY <1>0, <1>1, <1>4, <3>1, <3>3
    <3> QED
      BY <1>5, <1>18, <2>1, <3>1, <3>3, <3>4, <3>5, <3>6 DEF AddFits
  <2>2. CASE u # t
    <3>1. Adds(u) /\ AddFits(u) /\ th'[u] = th[u] /\ th[u].obj \in Int
      BY <1>0, <1>8, <1>17, <1>19, <2>2, FromDictInv DEF ObjectsFit, ThreadSet
    <3>2. th[u].obj # past.next /\ th[u].obj < past'.next
      BY <1>0, <1>5, <3>1 DEF AddFits
    <3>3. \A v \in Threads : th[u].obj \notin th'[v].owed
      BY <1>2, <1>8, <3>1 DEF AddFits
    <3>4. ASSUME NEW v \in Threads, Adds(v)', th'[v].obj = th[u].obj PROVE v = u
      <4>1. CASE v = t
        <5>1. th'[v].obj = NoObj \/ th'[v].obj = past.next
          BY <1>2, <1>8, <4>1
        <5> QED
          BY <3>2, <3>4, <5>1 DEF Adds
      <4>2. CASE v # t
        BY <1>8, <1>17, <3>1, <3>4, <4>2 DEF AddFits
      <4> QED
        BY <4>1, <4>2
    <3> QED
      BY <1>1, <1>5, <3>1, <3>2, <3>3, <3>4 DEF AddFits
  <2> QED
    BY <2>1, <2>2
<1>20. ASSUME NEW o \in 1..MaxObjs PROVE ObjFits(o)'
  <2>0. ObjFits(o)
    BY <1>0 DEF ObjectsFit
  <2>1. CASE o >= past'.next
    <3>1. o >= past.next /\ (o # past.next \/ removes)
      BY <1>0, <1>3, <1>4, <1>5, <2>1
    <3>2. \A u \in Threads : o \notin th'[u].owed
      BY <1>2, <1>8, <2>0, <3>1 DEF ObjFits
    <3>3. o \notin past'.asked
      BY <1>3, <1>5, <2>0, <3>1 DEF ObjFits
    <3> QED
      BY <1>5, <2>0, <2>1, <3>1, <3>2, <3>3 DEF ObjFits
  <2>2. CASE ~(o >= past'.next) /\ o = past.next
    <3>1. ~removes
      BY <1>0, <1>3, <2>2
    <3>2. Adds(t)' /\ th'[t].obj = o
      BY <1>0, <1>2, <1>8, <2>2, <3>1 DEF Adds, NoObj
    <3> QED
      BY <2>2, <3>2 DEF ObjFits
  <2>3. CASE ~(o >= past'.next) /\ o # past.next
    <3>1. ~(o >= past.next)
      BY <1>0, <1>3, <1>4, <2>3
    <3>2. (\E u \in Threads : Adds(u) /\ th[u].obj = o) => \E u \in Threads : Adds(u)' /\ th'[u].obj = o
      BY <1>1, <1>8, <1>17 DEF Adds
    <3> QED
      BY <1>5, <2>0, <2>3, <3>1, <3>2 DEF ObjFits
  <2> QED
    BY <2>1, <2>2, <2>3
<1>21. ObjectsFit'
  BY <1>0, <1>13, <1>16, <1>19, <1>20 DEF ObjectsFit
<1> QED
  BY <1>8, <1>10, <1>12, <1>13, <1>15, <1>21 DEF DictInv

-----------------------------------------------------------------------------
(* Dictionary: the steps of a writer *)

\* While a thread sets a key nobody else does.
LEMMA OnlySetter ==
  ASSUME DictAssumption, DictInv, NEW t \in Threads, NEW u \in Threads, u # t,
         th[t].pc \in InSet, th[u].pc \in InSet
  PROVE  th[u].key # th[t].key
<1>1. Top(th[t].key) \in Writes(t) /\ Top(th[u].key) \in Writes(u)
  BY DEF Writes
<1>2. Top(th[t].key) \notin Writes(u)
  BY <1>1, Exclusive, FromDictInv
<1> QED
  BY <1>1, <1>2

\* The bucket is kept from one step to the next.
LEMMA SetKeepsLock ==
  ASSUME DictAssumption, DictInv, NEW t \in Threads, th[t].pc \in InSet, th'[t].pc \in InSet,
         th'[t].key = th[t].key, \A u \in Threads : u # t => th'[u] = th[u],
         dict'.shared = dict.shared, reserved' = reserved
  PROVE  LocksFit' /\ Writes(t) = {Top(th[t].key)} /\ th[t].key \in Keys
<1>1. th[t].pc # "idle" /\ th[t].pc \notin {"get", "got"} /\ th'[t].pc \notin {"get", "got"}
  BY DEF InSet
<1>2. /\ Writes(t) = {Top(th[t].key)} /\ Writes(t)' = {Top(th[t].key)}
      /\ Reads(t) = {} /\ Reads(t)' = {}
  BY <1>1 DEF Writes, Reads
<1> QED
  BY <1>1, <1>2, LocksKept, FromDictInv

\* Steps that store and delete nothing.
LEMMA SameObjects ==
  ASSUME DictInv, past' = past, dict'.deleter = dict.deleter,
         AllEntries(dict') = AllEntries(dict),
         \A u \in Threads : /\ Adds(u)' <=> Adds(u)
                            /\ th'[u].obj = th[u].obj /\ th'[u].del = th[u].del
                            /\ th'[u].owed = th[u].owed,
         \A k : Replaced(k)' <=> Replaced(k)
  PROVE  ObjectsFit'
<1>0. ObjectsFit
  BY DEF DictInv
<1>1. \A x : Deletes(dict', x) <=> Deletes(dict, x)
  BY DEF Deletes
<1>2. \A e \in AllEntries(dict) : EntryFits(e)'
  BY <1>0, <1>1 DEF ObjectsFit, EntryFits, Deletes
<1>3. \A u \in Threads : Adds(u)' => AddFits(u)'
  BY <1>0, <1>1 DEF ObjectsFit, AddFits, Deletes
<1>4. \A o \in 1..MaxObjs : ObjFits(o)'
  BY <1>0 DEF ObjectsFit, ObjFits
<1> QED
  BY <1>0, <1>2, <1>3, <1>4 DEF ObjectsFit

\* An entry that was removed is not counted any longer.
LEMMA UncountStep ==
  ASSUME DictAssumption, DictInv, NEW t \in Threads, set_uncount(t)
  PROVE  DictInv'
<1> DEFINE s == [th[t] EXCEPT !.pc = "unlock"]
           c == dict.count - 1
<1>0. th[t] \in ThreadSet /\ dict \in DictSet /\ EntriesFit /\ WellFormed(dict) /\ DictTypeOK
      /\ dict.count \in Int /\ dict.items \in [Paths -> SUBSET EntrySet]
  BY FromDictInv
<1>1. /\ th' = [th EXCEPT ![t] = s] /\ dict' = [dict EXCEPT !.count = c]
      /\ UNCHANGED <<reserved, past>> /\ th[t].pc = "uncount"
  BY DEF set_uncount
<1>2. /\ s \in ThreadSet /\ s.pc = "unlock" /\ s.key = th[t].key /\ s.obj = th[t].obj
      /\ s.del = th[t].del /\ s.owed = th[t].owed
  BY <1>0 DEF ThreadSet, InSet
<1>3. /\ dict' \in DictSet /\ dict'.tables = dict.tables /\ dict'.items = dict.items
      /\ dict'.count = dict.count - 1 /\ dict'.shared = dict.shared /\ dict'.deleter = dict.deleter
  BY <1>0, <1>1 DEF DictSet
<1> HIDE DEF s
<1>4. DictTypeOK' /\ th'[t] = s /\ \A u \in Threads : u # t => th'[u] = th[u]
  BY <1>0, <1>1, <1>2, <1>3 DEF DictTypeOK
<1>5. LocksFit' /\ Writes(t) = {Top(th[t].key)}
  BY <1>1, <1>2, <1>3, <1>4, SetKeepsLock DEF InSet
<1>6. AllEntries(dict') = AllEntries(dict) /\ WellFormed(dict') /\ \A j : HasRoom(dict, j) <=> HasRoom(dict', j)
  BY <1>0, <1>3 DEF AllEntries, WellFormed, Placed, Single, HasRoom
<1>7. \A u \in Threads : u # t => StepFits(u)'
  BY <1>1, <1>4, <1>6, OthersFit
<1>8. StepFits(t)'
  BY <1>1, <1>2, <1>4, FromDictInv DEF StepFits, InRemoveAll
<1>9. /\ \A u \in Threads : /\ Adds(u)' <=> Adds(u)
                            /\ th'[u].obj = th[u].obj /\ th'[u].del = th[u].del
                            /\ th'[u].owed = th[u].owed
      /\ \A k : Replaced(k)' <=> Replaced(k)
  BY <1>1, <1>2, <1>4 DEF Adds, Replaced
<1>10. ObjectsFit'
  BY <1>1, <1>3, <1>6, <1>9, SameObjects
<1>11. EntriesFit'
  <2>1. t \in Linking /\ t \notin Linking'
    BY <1>1, <1>2, <1>4 DEF Linking
  <2>2. Cardinality(Linking') = Cardinality(Linking) - 1 /\ Cardinality(Linking) \in Nat
    BY <1>4, <2>1, LinkingChanges
  <2>3. Cardinality(AllEntries(dict)) \in Nat
    BY <1>0, EntriesFinite
  <2>4. dict'.count = Cardinality(AllEntries(dict)) + Cardinality(Linking')
    BY <1>0, <1>3, <2>2, <2>3 DEF EntriesFit
  <2> QED
    BY <1>0, <1>1, <1>6, <2>4 DEF EntriesFit
<1> QED
  BY <1>4, <1>5, <1>6, <1>7, <1>8, <1>10, <1>11 DEF DictInv

\* dictionary.c, createEntry: room is made for a key that is not there.
LEMMA CreateStep ==
  ASSUME DictAssumption, DictInv, NEW t \in Threads, createEntry(t)
  PROVE  DictInv'
<1> DEFINE k == th[t].key
           d == Split(dict, k)
           adding == th[t].obj # NoObj
           s == [th[t] EXCEPT !.pc = IF adding THEN "link" ELSE "unlock"]
<1>0. /\ th[t] \in ThreadSet /\ dict \in DictSet /\ EntriesFit /\ WellFormed(dict) /\ DictTypeOK
      /\ dict.count \in Int /\ dict.items \in [Paths -> SUBSET EntrySet] /\ k \in Keys
  BY FromDictInv
<1>1. /\ th' = [th EXCEPT ![t] = s] /\ UNCHANGED <<reserved, past>> /\ th[t].pc = "set"
      /\ EntriesOf(dict, k) = {}
      /\ dict' = IF adding THEN [d EXCEPT !.count = @ + 1] ELSE d
  BY DEF createEntry
<1>2. /\ s \in ThreadSet /\ s.pc = (IF adding THEN "link" ELSE "unlock") /\ s.key = th[t].key
      /\ s.obj = th[t].obj /\ s.del = th[t].del /\ s.owed = th[t].owed
  BY <1>0 DEF ThreadSet, InSet
<1>3. /\ d \in DictSet /\ d.deleter = dict.deleter /\ d.shared = dict.shared /\ d.count = dict.count
      /\ WellFormed(d) /\ AllEntries(d) = AllEntries(dict) /\ HasRoom(d, k)
      /\ \A j \in Keys : Top(j) # Top(k) /\ HasRoom(dict, j) => HasRoom(d, j)
  BY <1>0, <1>1, SplitMakesRoom
<1> HIDE DEF s, d
<1>4. /\ dict' \in DictSet /\ dict'.tables = d.tables /\ dict'.items = d.items
      /\ dict'.count = (IF adding THEN dict.count + 1 ELSE dict.count)
      /\ dict'.shared = dict.shared /\ dict'.deleter = dict.deleter
  BY <1>0, <1>1, <1>3 DEF DictSet
<1>5. DictTypeOK' /\ th'[t] = s /\ \A u \in Threads : u # t => th'[u] = th[u]
  BY <1>0, <1>1, <1>2, <1>4 DEF DictTypeOK
<1>6. LocksFit' /\ Writes(t) = {Top(k)}
  BY <1>1, <1>2, <1>4, <1>5, SetKeepsLock DEF InSet
<1>7. AllEntries(dict') = AllEntries(dict) /\ WellFormed(dict') /\ \A j : HasRoom(d, j) <=> HasRoom(dict', j)
  BY <1>3, <1>4 DEF AllEntries, WellFormed, Placed, Single, HasRoom
<1>8. \A u \in Threads : u # t => StepFits(u)'
  <2>1. \A j \in Keys : Top(j) \notin Writes(t) /\ HasRoom(dict, j) => HasRoom(dict', j)
    BY <1>3, <1>6, <1>7
  <2> QED
    BY <1>1, <1>5, <2>1, OthersFit
<1>9. StepFits(t)'
  <2>1. past.map[k] = NoObj
    BY <1>0, <1>1, GetIsMap
  <2>2. HasRoom(dict', k)
    BY <1>3, <1>7
  <2>3. StepFits(t)
    BY FromDictInv
  <2> QED
    BY <1>1, <1>2, <1>5, <2>1, <2>2, <2>3 DEF StepFits, InRemoveAll
<1>10. /\ \A u \in Threads : /\ Adds(u)' <=> Adds(u)
                             /\ th'[u].obj = th[u].obj /\ th'[u].del = th[u].del
                             /\ th'[u].owed = th[u].owed
       /\ \A j : Replaced(j)' <=> Replaced(j)
  BY <1>1, <1>2, <1>5 DEF Adds, Replaced
<1>11. ObjectsFit'
  BY <1>1, <1>4, <1>7, <1>10, SameObjects
<1>12. EntriesFit'
  <2>1. t \notin Linking /\ (t \in Linking' <=> adding)
    BY <1>1, <1>2, <1>5 DEF Linking
  <2>2. /\ Cardinality(Linking') = (IF adding THEN Cardinality(Linking) + 1 ELSE Cardinality(Linking))
        /\ Cardinality(Linking) \in Nat
    BY <1>5, <2>1, LinkingChanges
  <2>3. Cardinality(AllEntries(dict)) \in Nat
    BY <1>0, EntriesFinite
  <2>4. dict'.count = Cardinality(AllEntries(dict)) + Cardinality(Linking')
    BY <1>0, <1>4, <2>2, <2>3 DEF EntriesFit
  <2> QED
    BY <1>0, <1>1, <1>7, <2>4 DEF EntriesFit
<1> QED
  BY <1>5, <1>6, <1>7, <1>8, <1>9, <1>11, <1>12 DEF DictInv

\* The object of a key is deleted, before its entry is changed.
LEMMA DeleteStep ==
  ASSUME DictAssumption, DictInv, NEW t \in Threads, set_delete(t)
  PROVE  DictInv'
<1> PICK k \in Keys : k = th[t].key
  BY FromDictInv
<1> PICK e : e = EntryOf(dict, k)
  OBVIOUS
<1> DEFINE s == [th[t] EXCEPT !.pc = IF th[t].obj = NoObj THEN "remove" ELSE "replace"]
<1>0. /\ th[t] \in ThreadSet /\ EntriesFit /\ ObjectsFit /\ WellFormed(dict) /\ DictTypeOK
      /\ dict.items \in [Paths -> SUBSET EntrySet] /\ past \in PastSet
      /\ past.deleted \in [1..MaxObjs -> Int]
  BY FromDictInv DEF PastSet
<1>1. /\ th' = [th EXCEPT ![t] = s] /\ UNCHANGED <<dict, reserved>> /\ th[t].pc = "set"
      /\ EntriesOf(dict, k) # {}
      /\ past' = IF Deletes(dict, e.del) THEN [past EXCEPT !.deleted[e.obj] = @ + 1] ELSE past
  BY DEF set_delete
<1>2. /\ s \in ThreadSet /\ s.pc = (IF th[t].obj = NoObj THEN "remove" ELSE "replace")
      /\ s.key = k /\ s.obj = th[t].obj /\ s.del = th[t].del /\ s.owed = th[t].owed
  BY <1>0 DEF ThreadSet, InSet
<1>3. past.map[k] # NoObj /\ e \in AllEntries(dict) /\ e.key = k /\ e.obj = past.map[k]
  BY <1>0, <1>1, GetIsMap
<1>4. e.obj \in 1..MaxObjs /\ EntryFits(e)
  BY <1>0, <1>3 DEF AllEntries, EntrySet, ObjectsFit
<1> HIDE DEF s
<1>5. /\ past' \in PastSet /\ past'.map = past.map /\ past'.next = past.next /\ past'.asked = past.asked
      /\ \A o \in 1..MaxObjs : past'.deleted[o] = IF o = e.obj /\ Deletes(dict, e.del)
                                                  THEN past.deleted[o] + 1 ELSE past.deleted[o]
  <2>1. CASE Deletes(dict, e.del)
    <3> DEFINE D == [past.deleted EXCEPT ![e.obj] = @ + 1]
    <3>1. D \in [1..MaxObjs -> Int]
      <4>1. past.deleted[e.obj] + 1 \in Int
        <5>1. \A f \in [1..MaxObjs -> Int], o \in 1..MaxObjs : f[o] + 1 \in Int
          OBVIOUS
        <5>2. past.deleted \in [1..MaxObjs -> Int] /\ e.obj \in 1..MaxObjs
          BY <1>0, <1>4
        <5> QED
          BY <5>1, <5>2
      <4>2. \A f \in [1..MaxObjs -> Int], o \in 1..MaxObjs, v \in Int :
               [f EXCEPT ![o] = v] \in [1..MaxObjs -> Int]
        OBVIOUS
      <4> QED
        BY <1>0, <1>4, <4>1, <4>2
    <3>2. \A o \in 1..MaxObjs : D[o] = IF o = e.obj THEN past.deleted[o] + 1 ELSE past.deleted[o]
      BY <1>0, <1>4
    <3>3. past' = [past EXCEPT !.deleted = D]
      BY <1>1, <2>1
    <3> HIDE DEF D
    <3>4. /\ past' \in PastSet /\ past'.map = past.map /\ past'.next = past.next
          /\ past'.asked = past.asked /\ past'.deleted = D
      BY <1>0, <3>1, <3>3 DEF PastSet
    <3> QED
      BY <2>1, <3>2, <3>4
  <2>2. CASE ~Deletes(dict, e.del)
    BY <1>0, <1>1, <2>2
  <2> QED
    BY <2>1, <2>2
<1>6. DictTypeOK' /\ th'[t] = s /\ \A u \in Threads : u # t => th'[u] = th[u]
  BY <1>0, <1>1, <1>2, <1>5 DEF DictTypeOK
<1>7. LocksFit' /\ Writes(t) = {Top(k)}
  BY <1>1, <1>2, <1>6, SetKeepsLock DEF InSet
<1>8. \A u \in Threads : u # t => StepFits(u)'
  BY <1>1, <1>5, <1>6, OthersFit
<1>9. StepFits(t)'
  <2>1. StepFits(t)
    BY FromDictInv
  <2> QED
    BY <1>1, <1>2, <1>3, <1>5, <1>6, <2>1 DEF StepFits, InRemoveAll
<1>10. \A u \in Threads : /\ Adds(u)' <=> Adds(u)
                          /\ th'[u].obj = th[u].obj /\ th'[u].del = th[u].del
                          /\ th'[u].owed = th[u].owed
  BY <1>1, <1>2, <1>6 DEF Adds
<1>11. ~Replaced(k) /\ Replaced(k)' /\ \A j : j # k => (Replaced(j)' <=> Replaced(j))
  <2>1. ~Replaced(k)
    BY <1>1, OnlySetter DEF Replaced, InSet
  <2> QED
    BY <1>1, <1>2, <1>6, <2>1 DEF Replaced
<1>12. ASSUME NEW f \in AllEntries(dict) PROVE EntryFits(f)'
  <2>0. EntryFits(f) /\ f.obj \in 1..MaxObjs
    BY <1>0 DEF AllEntries, EntrySet, ObjectsFit
  <2>1. CASE f = e
    <3>0. ~Replaced(e.key)
      BY <1>3, <1>11
    <3>1. past.deleted[e.obj] = 0
      BY <1>4, <3>0 DEF EntryFits
    <3>2. past'.deleted[e.obj] = IF Deletes(dict, e.del) THEN 1 ELSE 0
      BY <1>4, <1>5, <3>1
    <3>3. Replaced(e.key)'
      BY <1>3, <1>11
    <3> QED
      BY <1>1, <1>4, <1>5, <2>1, <3>2, <3>3 DEF EntryFits
  <2>2. CASE f # e
    <3>1. f.obj # e.obj /\ f.key # k
      BY <1>0, <1>3, <2>2, OneEntry DEF ObjectsFit
    <3>2. past'.deleted[f.obj] = past.deleted[f.obj]
      BY <1>5, <2>0, <3>1
    <3>3. Replaced(f.key)' <=> Replaced(f.key)
      BY <1>11, <3>1
    <3> QED
      BY <1>1, <1>5, <2>0, <3>2, <3>3 DEF EntryFits
  <2> QED
    BY <2>1, <2>2
<1>13. ASSUME NEW u \in Threads, Adds(u)' PROVE AddFits(u)'
  <2>1. Adds(u) /\ AddFits(u) /\ th[u].obj \in 1..MaxObjs
    BY <1>0, <1>10, <1>13, FromDictInv DEF ObjectsFit, Adds, ThreadSet, NoObj
  <2>2. past'.deleted[th[u].obj] = past.deleted[th[u].obj]
    BY <1>0, <1>3, <1>5, <2>1 DEF AddFits
  <2> QED
    BY <1>1, <1>5, <1>10, <2>1, <2>2 DEF AddFits
<1>14. ASSUME NEW o \in 1..MaxObjs PROVE ObjFits(o)'
  <2>0. ObjFits(o)
    BY <1>0 DEF ObjectsFit
  <2>1. CASE o = e.obj
    <3>1. past'.map[k] = o /\ ~(o >= past'.next)
      BY <1>3, <1>4, <1>5, <2>1, FromDictInv DEF EntryFits
    <3> QED
      BY <1>0, <3>1 DEF ObjFits
  <2>2. CASE o # e.obj
    <3>1. past'.deleted[o] = past.deleted[o]
      BY <1>5, <2>2
    <3> QED
      BY <1>5, <1>10, <2>0, <3>1 DEF ObjFits
  <2> QED
    BY <2>1, <2>2
<1>15. ObjectsFit'
  BY <1>0, <1>1, <1>12, <1>13, <1>14 DEF ObjectsFit
<1>16. EntriesFit'
  <2>1. t \notin Linking /\ t \notin Linking'
    BY <1>1, <1>2, <1>6 DEF Linking
  <2>2. Linking' = Linking
    BY <1>6, <2>1, LinkingChanges
  <2> QED
    BY <1>0, <1>1, <1>5, <2>2 DEF EntriesFit
<1> QED
  BY <1>0, <1>1, <1>6, <1>7, <1>8, <1>9, <1>15, <1>16 DEF DictInv

\* Entries go, and entries that threads were about to store come; what goes is deleted
\* as asked, or was deleted before.
EntriesGo(gone, added) ==
  /\ gone \subseteq AllEntries(dict)
  /\ AllEntries(dict') = (AllEntries(dict) \ gone) \cup added
  /\ dict'.deleter = dict.deleter /\ past'.next = past.next /\ past'.asked = past.asked
  /\ \A u \in Threads : /\ Adds(u)' => Adds(u)
                        /\ th'[u].obj = th[u].obj /\ th'[u].del = th[u].del
                        /\ th'[u].owed = th[u].owed
                        /\ Adds(u) /\ ~Adds(u)' => Entry(u) \in added
  /\ \A e \in added : \E u \in Threads : Adds(u) /\ ~Adds(u)' /\ e = Entry(u)
  /\ \A o \in 1..MaxObjs : past'.deleted[o] = IF \E e \in gone : e.obj = o /\ Deletes(dict, e.del)
                                              THEN 1 ELSE past.deleted[o]
  /\ \A e \in AllEntries(dict') : /\ past'.map[e.key] = e.obj
                                  /\ Replaced(e.key)' <=> (e \notin added /\ Replaced(e.key))
  /\ \A k \in Keys : past'.map[k] # NoObj => \E e \in AllEntries(dict') : e.key = k

LEMMA EntriesChange ==
  ASSUME DictAssumption, DictInv, NEW gone, NEW added, EntriesGo(gone, added)
  PROVE  ObjectsFit'
<1> USE DEF EntriesGo
<1> DEFINE E == AllEntries(dict)
           F == AllEntries(dict')
<1>0. EntriesFit /\ ObjectsFit /\ past.next \in Int
  BY FromDictInv DEF DictAssumption
<1>1. \A e \in E : /\ e.obj \in 1..MaxObjs /\ e.key \in Keys /\ past.map[e.key] = e.obj
                   /\ EntryFits(e)
  BY <1>0, FromDictInv DEF AllEntries, EntrySet, EntriesFit, ObjectsFit
<1>2. \A e, f \in E : e.obj = f.obj => e = f
  BY <1>0 DEF ObjectsFit
<1>3. ASSUME NEW u \in Threads, Adds(u)
      PROVE  /\ AddFits(u) /\ th[u].obj \in 1..MaxObjs /\ \A e \in E : e.obj # th[u].obj
             /\ Entry(u).obj = th[u].obj /\ Entry(u).del = th[u].del /\ Entry(u).key \in Keys
             /\ past'.deleted[th[u].obj] = 0
  <2>1. AddFits(u) /\ th[u].obj \in 1..MaxObjs
    BY <1>0, <1>3, FromDictInv DEF ObjectsFit, Adds, ThreadSet, NoObj
  <2>2. \A e \in E : e.obj # th[u].obj
    BY <1>1, <2>1 DEF AddFits
  <2>3. past'.deleted[th[u].obj] = past.deleted[th[u].obj]
    BY <2>1, <2>2
  <2>4. past.deleted[th[u].obj] = 0
    BY <2>1 DEF AddFits
  <2> QED
    BY <2>1, <2>2, <2>3, <2>4, FromDictInv DEF Entry
<1>4. \A x : Deletes(dict', x) <=> Deletes(dict, x)
  BY DEF Deletes
<1>5. ASSUME NEW e \in F, NEW f \in F, e.obj = f.obj PROVE e = f
  <2>1. CASE e \in E /\ f \in E
    BY <1>2, <1>5, <2>1
  <2>2. CASE e \in added /\ f \in added
    <3>1. PICK u \in Threads : Adds(u) /\ e = Entry(u)
      BY <2>2
    <3>2. PICK v \in Threads : Adds(v) /\ f = Entry(v)
      BY <2>2
    <3>3. th[u].obj = th[v].obj
      BY <1>5, <3>1, <3>2 DEF Entry
    <3>4. u = v
      BY <1>3, <3>1, <3>2, <3>3 DEF AddFits
    <3> QED
      BY <3>1, <3>2, <3>4
  <2>3. CASE (e \in added /\ f \in E) \/ (f \in added /\ e \in E)
    BY <1>3, <1>5, <2>3
  <2> QED
    BY <2>1, <2>2, <2>3
<1>6. ASSUME NEW e \in F PROVE EntryFits(e)'
  <2>1. CASE e \in added
    <3>1. PICK u \in Threads : Adds(u) /\ e = Entry(u)
      BY <2>1
    <3>2. ~Replaced(e.key)'
      BY <2>1
    <3>3. e.obj = th[u].obj /\ e.del = th[u].del /\ AddFits(u) /\ past'.deleted[th[u].obj] = 0
      BY <1>3, <3>1
    <3>4. e.obj < past'.next /\ (e.obj \in past'.asked <=> Deletes(dict', e.del))
      BY <1>4, <3>3 DEF AddFits
    <3> QED
      BY <3>2, <3>3, <3>4 DEF EntryFits
  <2>2. CASE e \notin added
    <3>1. e \in E /\ e \notin gone /\ (Replaced(e.key)' <=> Replaced(e.key))
      BY <2>2
    <3>2. past'.deleted[e.obj] = past.deleted[e.obj]
      BY <1>1, <1>2, <3>1
    <3>3. EntryFits(e)
      BY <1>1, <3>1
    <3> QED
      BY <1>4, <3>1, <3>2, <3>3 DEF EntryFits
  <2> QED
    BY <2>1, <2>2
<1>7. ASSUME NEW u \in Threads, Adds(u)' PROVE AddFits(u)'
  <2>1. Adds(u) /\ AddFits(u) /\ th[u].obj \in 1..MaxObjs /\ past'.deleted[th[u].obj] = 0
    BY <1>3, <1>7
  <2>2. ASSUME NEW k \in Keys, past'.map[k] = th[u].obj PROVE FALSE
    <3>1. PICK e \in F : e.key = k /\ e.obj = th[u].obj
      BY <2>1, <2>2 DEF NoObj
    <3>2. PICK v \in Threads : Adds(v) /\ ~Adds(v)' /\ e = Entry(v)
      BY <1>3, <2>1, <3>1
    <3>3. v = u
      BY <1>3, <2>1, <3>1, <3>2 DEF AddFits
    <3> QED
      BY <1>7, <3>2, <3>3
  <2>3. ASSUME NEW v \in Threads, Adds(v)', th[v].obj = th[u].obj PROVE v = u
    BY <2>1, <2>3 DEF AddFits
  <2> QED
    BY <1>4, <2>1, <2>2, <2>3 DEF AddFits
<1>8. ASSUME NEW o \in 1..MaxObjs PROVE ObjFits(o)'
  <2>0. ObjFits(o)
    BY <1>0 DEF ObjectsFit
  <2>1. CASE o >= past.next
    <3>1. \A e \in E : e.obj # o
      BY <1>0, <1>1, <2>1 DEF EntryFits
    <3>2. past'.deleted[o] = past.deleted[o]
      BY <3>1
    <3> QED
      BY <2>0, <2>1, <3>2 DEF ObjFits
  <2>2. CASE ~(o >= past.next)
    <3>1. ASSUME NEW e \in gone, e.obj = o PROVE past'.deleted[o] = IF o \in past.asked THEN 1 ELSE 0
      <4>1. EntryFits(e) /\ \A f \in gone : f.obj = o => f = e
        BY <1>1, <1>2, <3>1
      <4>2. CASE Deletes(dict, e.del)
        BY <3>1, <4>1, <4>2 DEF EntryFits
      <4>3. CASE ~Deletes(dict, e.del)
        BY <3>1, <4>1, <4>3 DEF EntryFits
      <4> QED
        BY <4>2, <4>3
    <3>2. CASE \E e \in gone : e.obj = o
      BY <2>2, <3>1, <3>2 DEF ObjFits
    <3>3. CASE ~\E e \in gone : e.obj = o
      <4>0. past'.deleted[o] = past.deleted[o]
        BY <3>3
      <4>1. ASSUME NEW k \in Keys, past.map[k] = o PROVE \E j \in Keys : past'.map[j] = o
        <5>1. PICK e \in E : e.key = k /\ e.obj = o
          BY <1>0, <4>1 DEF EntriesFit, NoObj
        <5>2. e \in F
          BY <3>3, <5>1
        <5> QED
          BY <5>1, <5>2
      <4>2. ASSUME NEW u \in Threads, Adds(u), th[u].obj = o, ~Adds(u)'
            PROVE  \E j \in Keys : past'.map[j] = o
        <5>1. Entry(u) \in F /\ Entry(u).key \in Keys /\ Entry(u).obj = o
          BY <1>3, <4>2
        <5> QED
          BY <5>1
      <4>3. (\E u \in Threads : Adds(u) /\ th[u].obj = o) =>
               \/ \E u \in Threads : Adds(u)' /\ th'[u].obj = o
               \/ \E j \in Keys : past'.map[j] = o
        BY <4>2
      <4> QED
        BY <2>0, <2>2, <4>0, <4>1, <4>3 DEF ObjFits
    <3> QED
      BY <3>2, <3>3
  <2> QED
    BY <2>1, <2>2
<1> QED
  BY <1>5, <1>6, <1>7, <1>8 DEF ObjectsFit

\* What a thread that sets an object stores.
LEMMA StoresEntry ==
  ASSUME DictAssumption, DictInv, NEW t \in Threads, Adds(t)
  PROVE  /\ Entry(t) \in EntrySet /\ Entry(t).key = th[t].key /\ Entry(t).obj = th[t].obj
         /\ th[t].pc \in InSet /\ AddFits(t) /\ \A e \in AllEntries(dict) : e.obj # th[t].obj
<1>1. th[t] \in ThreadSet /\ EntriesFit /\ AddFits(t)
  BY FromDictInv DEF ObjectsFit
<1>2. th[t].obj \in 1..MaxObjs
  BY <1>1 DEF Adds, ThreadSet, NoObj
<1>3. \A e \in AllEntries(dict) : e.key \in Keys
  BY FromDictInv DEF AllEntries, EntrySet
<1>4. Entry(t) \in EntrySet /\ Entry(t).key = th[t].key /\ Entry(t).obj = th[t].obj
  BY <1>1, <1>2 DEF Entry, EntrySet, ThreadSet
<1> QED
  BY <1>1, <1>3, <1>4 DEF Adds, InSet, EntriesFit, AddFits

\* A step of set that changes the entry of its key.
SetsTo(t, k, pc, v) ==
  /\ k \in Keys /\ k = th[t].key /\ th[t].pc \in {"replace", "remove", "link"}
  /\ pc \in {"uncount", "unlock"} /\ th' = [th EXCEPT ![t].pc = pc] /\ reserved' = reserved
  /\ dict' \in DictSet /\ dict'.shared = dict.shared
  /\ \A j \in Keys : Top(j) # Top(k) /\ HasRoom(dict, j) => HasRoom(dict', j)
  /\ v = NoObj \/ (v = th[t].obj /\ Adds(t))
  /\ past' = [past EXCEPT !.map[k] = v]

LEMMA SetStep ==
  ASSUME DictAssumption, DictInv, NEW t \in Threads, NEW k, NEW pc, NEW v, SetsTo(t, k, pc, v)
  PROVE  /\ DictTypeOK' /\ LocksFit' /\ \A u \in Threads : StepFits(u)'
         /\ th'[t].pc = pc /\ \A u \in Threads : u # t => th'[u] = th[u]
         /\ \A u \in Threads : /\ Adds(u)' <=> Adds(u) /\ u # t
                               /\ th'[u].obj = th[u].obj /\ th'[u].del = th[u].del
                               /\ th'[u].owed = th[u].owed
         /\ \A j : Replaced(j)' <=> Replaced(j) /\ j # k
         /\ past'.next = past.next /\ past'.asked = past.asked /\ past'.deleted = past.deleted
         /\ \A j \in Keys : past'.map[j] = IF j = k THEN v ELSE past.map[j]
<1> USE DEF SetsTo
<1> DEFINE s == [th[t] EXCEPT !.pc = pc]
           m == [past.map EXCEPT ![k] = v]
<1>0. /\ th[t] \in ThreadSet /\ DictTypeOK /\ StepFits(t) /\ past \in PastSet /\ ObjectsFit
      /\ past.map \in [Keys -> 0..MaxObjs] /\ th[t].obj \in 0..MaxObjs /\ th[t].owed \subseteq 1..MaxObjs
      /\ MaxObjs \in Nat
  BY FromDictInv DEF PastSet, ThreadSet, DictAssumption
<1>1. th' = [th EXCEPT ![t] = s]
  OBVIOUS
<1>2. /\ s \in ThreadSet /\ s.pc = pc /\ s.key = k /\ s.obj = th[t].obj /\ s.del = th[t].del
      /\ s.owed = th[t].owed /\ s.left = th[t].left
  BY <1>0 DEF ThreadSet, InSet
<1>3. m \in [Keys -> 0..MaxObjs] /\ \A j \in Keys : m[j] = IF j = k THEN v ELSE past.map[j]
  <2>1. v \in 0..MaxObjs
    BY <1>0 DEF NoObj
  <2> QED
    BY <1>0, <2>1
<1> HIDE DEF s, m
<1>4. /\ past' \in PastSet /\ past'.map = m
      /\ past'.next = past.next /\ past'.asked = past.asked /\ past'.deleted = past.deleted
  <2>1. past' = [past EXCEPT !.map = m]
    BY DEF m
  <2> QED
    BY <1>0, <1>3, <2>1 DEF PastSet
<1>5. DictTypeOK' /\ th'[t] = s /\ \A u \in Threads : u # t => th'[u] = th[u]
  BY <1>0, <1>1, <1>2, <1>4 DEF DictTypeOK
<1>6. LocksFit' /\ Writes(t) = {Top(k)}
  BY <1>2, <1>5, SetKeepsLock DEF InSet
<1>7. \A u \in Threads : u # t => StepFits(u)'
  <2>1. \A j \in Keys : past'.map[j] = past.map[j] \/ (j = k /\ (past'.map[j] = NoObj
                           \/ (Adds(t) /\ past'.map[j] = th[t].obj)))
    BY <1>3, <1>4
  <2> QED
    BY <1>5, <1>6, <2>1, OthersFit
<1>8. StepFits(t)'
  <2>1. ASSUME NEW j \in Keys, past'.map[j] \in th[t].owed PROVE FALSE
    <3>1. CASE j = k
      <4>1. v = NoObj \/ (Adds(t) /\ v = th[t].obj)
        OBVIOUS
      <4>2. Adds(t) => th[t].obj \notin th[t].owed
        BY <1>0 DEF ObjectsFit, AddFits
      <4> QED
        BY <1>0, <1>3, <1>4, <2>1, <3>1, <4>1, <4>2 DEF NoObj
    <3>2. CASE j # k
      BY <1>0, <1>3, <1>4, <2>1, <3>2 DEF StepFits, InRemoveAll
    <3> QED
      BY <3>1, <3>2
  <2> QED
    BY <1>2, <1>5, <2>1 DEF StepFits
<1>9. \A u \in Threads : /\ Adds(u)' <=> Adds(u) /\ u # t
                         /\ th'[u].obj = th[u].obj /\ th'[u].del = th[u].del
                         /\ th'[u].owed = th[u].owed
  BY <1>2, <1>5 DEF Adds
<1>10. \A j : Replaced(j)' <=> Replaced(j) /\ j # k
  <2>1. ASSUME NEW u \in Threads, u # t, th[u].pc \in {"replace", "remove"} PROVE th[u].key # k
    BY <2>1, OnlySetter DEF InSet
  <2> QED
    BY <1>2, <1>5, <2>1 DEF Replaced
<1> QED
  BY <1>2, <1>3, <1>4, <1>5, <1>6, <1>7, <1>8, <1>9, <1>10

\* dictionary.c, set: another object takes the place of the one that was deleted.
LEMMA ReplaceStep ==
  ASSUME DictAssumption, DictInv, NEW t \in Threads, set_replace(t)
  PROVE  DictInv'
<1> PICK k \in Keys : k = th[t].key
  BY FromDictInv
<1> PICK e : e = EntryOf(dict, k)
  OBVIOUS
<1> PICK f : f = Entry(t)
  OBVIOUS
<1> DEFINE E == AllEntries(dict)
           items == [dict.items EXCEPT ![Home(dict.tables, k)] = (@ \ {e}) \cup {f}]
<1>0. /\ StepFits(t) /\ EntriesFit /\ ObjectsFit /\ WellFormed(dict) /\ dict \in DictSet
      /\ dict.items \in [Paths -> SUBSET EntrySet]
  BY FromDictInv
<1>1. /\ th' = [th EXCEPT ![t].pc = "unlock"] /\ reserved' = reserved /\ th[t].pc = "replace"
      /\ dict' = [dict EXCEPT !.items = items] /\ past' = [past EXCEPT !.map[k] = th[t].obj]
  BY DEF set_replace
<1>2. Adds(t) /\ past.map[k] # NoObj /\ Replaced(k)
  BY <1>0, <1>1 DEF StepFits, Adds, Replaced
<1>3. e \in EntriesOf(dict, k) /\ e \in E /\ e.key = k
  BY <1>2, GetIsMap
<1>4. /\ f \in EntrySet /\ f.key = k /\ f.obj = th[t].obj /\ AddFits(t)
      /\ \A g \in E : g.obj # th[t].obj
  BY <1>2, StoresEntry
<1> HIDE DEF items
<1>5. /\ dict'.tables = dict.tables /\ dict'.items = items /\ dict'.shared = dict.shared
      /\ dict'.deleter = dict.deleter /\ dict'.count = dict.count
  BY <1>0, <1>1 DEF DictSet
<1>6. /\ dict'.items \in [Paths -> SUBSET EntrySet] /\ WellFormed(dict')
      /\ AllEntries(dict') = (E \ {e}) \cup {f}
      /\ \A j \in Keys : Top(j) # Top(k) /\ HasRoom(dict, j) => HasRoom(dict', j)
  <2>1. dict'.items = [dict.items EXCEPT ![Home(dict.tables, f.key)] = (@ \ {e}) \cup {f}]
    BY <1>4, <1>5 DEF items
  <2>2. e \in EntriesOf(dict, f.key)
    BY <1>3, <1>4
  <2>3. /\ dict'.items \in [Paths -> SUBSET EntrySet] /\ WellFormed(dict')
        /\ AllEntries(dict') = (E \ {e}) \cup {f}
        /\ \A j \in Keys : Top(j) # Top(f.key) /\ HasRoom(dict, j) => HasRoom(dict', j)
    <3>1. Swaps(dict, dict', f, e)
      BY <1>5, <2>1, <2>2 DEF Swaps
    <3> QED
      BY <1>0, <1>4, <3>1, Swapped
  <2> QED
    BY <1>4, <2>3
<1>7. dict' \in DictSet
  BY <1>0, <1>1, <1>5, <1>6 DEF DictSet
<1>8. /\ DictTypeOK' /\ LocksFit' /\ \A u \in Threads : StepFits(u)'
      /\ th'[t].pc = "unlock" /\ \A u \in Threads : u # t => th'[u] = th[u]
      /\ \A u \in Threads : /\ Adds(u)' <=> Adds(u) /\ u # t
                            /\ th'[u].obj = th[u].obj /\ th'[u].del = th[u].del
                            /\ th'[u].owed = th[u].owed
      /\ \A j : Replaced(j)' <=> Replaced(j) /\ j # k
      /\ past'.next = past.next /\ past'.asked = past.asked /\ past'.deleted = past.deleted
      /\ \A j \in Keys : past'.map[j] = IF j = k THEN th[t].obj ELSE past.map[j]
  <2>1. SetsTo(t, k, "unlock", th[t].obj)
    BY <1>1, <1>2, <1>5, <1>6, <1>7 DEF SetsTo
  <2> QED
    BY <2>1, SetStep
<1>9. \A g \in E : g.key \in Keys /\ past.map[g.key] = g.obj /\ (g.key = k => g = e)
  <2>1. \A g \in E : g.key \in Keys /\ past.map[g.key] = g.obj
    BY <1>0 DEF AllEntries, EntrySet, EntriesFit
  <2> QED
    BY <1>0, <1>3, <2>1, OneEntry
<1>10. \A g \in AllEntries(dict') : /\ past'.map[g.key] = g.obj
                                    /\ Replaced(g.key)' <=> (g \notin {f} /\ Replaced(g.key))
  BY <1>3, <1>4, <1>6, <1>8, <1>9
<1>11. ASSUME NEW j \in Keys, past'.map[j] # NoObj PROVE \E g \in AllEntries(dict') : g.key = j
  <2>1. CASE j = k
    BY <1>4, <1>6, <2>1
  <2>2. CASE j # k
    <3>1. PICK g \in E : g.key = j
      BY <1>0, <1>8, <1>11, <2>2 DEF EntriesFit
    <3> QED
      BY <1>3, <1>6, <2>2, <3>1
  <2> QED
    BY <2>1, <2>2
<1>12. ObjectsFit'
  <2> PICK gone : gone = {e}
    OBVIOUS
  <2> PICK added : added = {f}
    OBVIOUS
  <2>1. EntryFits(e)
    BY <1>0, <1>3 DEF ObjectsFit
  <2>2. Deletes(dict, e.del) => past.deleted[e.obj] = 1
    BY <1>2, <1>3, <2>1 DEF EntryFits
  <2>3. \A o \in 1..MaxObjs : past'.deleted[o] = IF \E g \in gone : g.obj = o /\ Deletes(dict, g.del)
                                                 THEN 1 ELSE past.deleted[o]
    BY <1>8, <2>2
  <2>4. \A g \in added : \E u \in Threads : Adds(u) /\ ~Adds(u)' /\ g = Entry(u)
    BY <1>2, <1>8
  <2>6. gone \subseteq E /\ AllEntries(dict') = (E \ gone) \cup added
    BY <1>3, <1>6
  <2>5. \A u \in Threads : /\ Adds(u)' => Adds(u)
                           /\ th'[u].obj = th[u].obj /\ th'[u].del = th[u].del
                           /\ th'[u].owed = th[u].owed
                           /\ Adds(u) /\ ~Adds(u)' => Entry(u) \in added
    BY <1>8
  <2>9. /\ \A g \in AllEntries(dict') : /\ past'.map[g.key] = g.obj
                                        /\ Replaced(g.key)' <=> (g \notin added /\ Replaced(g.key))
        /\ \A j \in Keys : past'.map[j] # NoObj => \E g \in AllEntries(dict') : g.key = j
    BY <1>10, <1>11
  <2> QED
    <3>1. EntriesGo(gone, added)
      BY <1>5, <1>8, <2>9, <2>3, <2>4, <2>5, <2>6 DEF EntriesGo
    <3> QED
      BY <3>1, EntriesChange
<1>13. EntriesFit'
  <2>1. Linking' = Linking
    BY <1>1, <1>8, LinkingChanges DEF Linking
  <2>2. IsFiniteSet(E) /\ Cardinality(E) \in Nat /\ f \notin E \ {e}
    BY <1>0, <1>4, EntriesFinite
  <2>3. IsFiniteSet(E \ {e}) /\ Cardinality(E \ {e}) = Cardinality(E) - 1
    BY <1>3, <2>2, FS_RemoveElement
  <2>4. Cardinality(AllEntries(dict')) = Cardinality(E)
    <3>1. Cardinality((E \ {e}) \cup {f}) = Cardinality(E \ {e}) + 1
      BY <2>2, <2>3, FS_AddElement
    <3> QED
      BY <1>6, <2>2, <2>3, <3>1
  <2> QED
    BY <1>0, <1>5, <1>10, <1>11, <2>1, <2>4 DEF EntriesFit
<1> QED
  BY <1>6, <1>8, <1>12, <1>13 DEF DictInv

\* dictionary.c, set: the entry of a key is linked where there is room for it.
LEMMA LinkStep ==
  ASSUME DictAssumption, DictInv, NEW t \in Threads, set_link(t)
  PROVE  DictInv'
<1> PICK k \in Keys : k = th[t].key
  BY FromDictInv
<1> PICK f : f = Entry(t)
  OBVIOUS
<1> DEFINE E == AllEntries(dict)
           items == [dict.items EXCEPT ![Home(dict.tables, k)] = @ \cup {f}]
<1>0. /\ StepFits(t) /\ EntriesFit /\ ObjectsFit /\ WellFormed(dict) /\ dict \in DictSet
      /\ dict.items \in [Paths -> SUBSET EntrySet] /\ dict.count \in Int
  BY FromDictInv
<1>1. /\ th' = [th EXCEPT ![t].pc = "unlock"] /\ reserved' = reserved /\ th[t].pc = "link"
      /\ dict' = [dict EXCEPT !.items = items] /\ past' = [past EXCEPT !.map[k] = th[t].obj]
  BY DEF set_link
<1>2. Adds(t) /\ past.map[k] = NoObj /\ HasRoom(dict, k)
  BY <1>0, <1>1 DEF StepFits, Adds
<1>3. EntriesOf(dict, k) = {}
  BY <1>2, GetIsMap
<1>4. /\ f \in EntrySet /\ f.key = k /\ f.obj = th[t].obj /\ AddFits(t)
      /\ \A g \in E : g.obj # th[t].obj
  BY <1>2, StoresEntry
<1> HIDE DEF items
<1>5. /\ dict'.tables = dict.tables /\ dict'.items = items /\ dict'.shared = dict.shared
      /\ dict'.deleter = dict.deleter /\ dict'.count = dict.count
  BY <1>0, <1>1 DEF DictSet
<1>6. /\ dict'.items \in [Paths -> SUBSET EntrySet] /\ WellFormed(dict')
      /\ AllEntries(dict') = E \cup {f}
      /\ \A j \in Keys : Top(j) # Top(k) /\ HasRoom(dict, j) => HasRoom(dict', j)
  <2>1. dict'.items = [dict.items EXCEPT ![Home(dict.tables, f.key)] = @ \cup {f}]
    BY <1>4, <1>5 DEF items
  <2>2. EntriesOf(dict, f.key) = {} /\ HasRoom(dict, f.key)
    BY <1>2, <1>3, <1>4
  <2> QED
    BY <1>0, <1>4, <1>5, <2>1, <2>2, Linked
<1>7. dict' \in DictSet
  BY <1>0, <1>1, <1>5, <1>6 DEF DictSet
<1>8. /\ DictTypeOK' /\ LocksFit' /\ \A u \in Threads : StepFits(u)'
      /\ th'[t].pc = "unlock" /\ \A u \in Threads : u # t => th'[u] = th[u]
      /\ \A u \in Threads : /\ Adds(u)' <=> Adds(u) /\ u # t
                            /\ th'[u].obj = th[u].obj /\ th'[u].del = th[u].del
                            /\ th'[u].owed = th[u].owed
      /\ \A j : Replaced(j)' <=> Replaced(j) /\ j # k
      /\ past'.next = past.next /\ past'.asked = past.asked /\ past'.deleted = past.deleted
      /\ \A j \in Keys : past'.map[j] = IF j = k THEN th[t].obj ELSE past.map[j]
  <2>1. SetsTo(t, k, "unlock", th[t].obj)
    BY <1>1, <1>2, <1>5, <1>6, <1>7 DEF SetsTo
  <2> QED
    BY <2>1, SetStep
<1>9. \A g \in E : g.key \in Keys /\ past.map[g.key] = g.obj /\ g.key # k
  <2>1. \A g \in E : g.key \in Keys /\ past.map[g.key] = g.obj /\ g.obj # NoObj
    BY <1>0 DEF AllEntries, EntrySet, EntriesFit, NoObj
  <2> QED
    BY <1>2, <2>1
<1>10. \A g \in AllEntries(dict') : /\ past'.map[g.key] = g.obj
                                    /\ Replaced(g.key)' <=> (g \notin {f} /\ Replaced(g.key))
  BY <1>4, <1>6, <1>8, <1>9
<1>11. ASSUME NEW j \in Keys, past'.map[j] # NoObj PROVE \E g \in AllEntries(dict') : g.key = j
  <2>1. CASE j = k
    BY <1>4, <1>6, <2>1
  <2>2. CASE j # k
    BY <1>0, <1>6, <1>8, <1>11, <2>2 DEF EntriesFit
  <2> QED
    BY <2>1, <2>2
<1>12. ObjectsFit'
  <2> PICK gone : gone = {}
    OBVIOUS
  <2> PICK added : added = {f}
    OBVIOUS
  <2>1. AllEntries(dict') = (E \ gone) \cup added
    BY <1>6
  <2>2. \A o \in 1..MaxObjs : past'.deleted[o] = IF \E g \in gone : g.obj = o /\ Deletes(dict, g.del)
                                                 THEN 1 ELSE past.deleted[o]
    BY <1>8
  <2>3. \A g \in added : \E u \in Threads : Adds(u) /\ ~Adds(u)' /\ g = Entry(u)
    BY <1>2, <1>8
  <2>4. \A u \in Threads : /\ Adds(u)' => Adds(u)
                           /\ th'[u].obj = th[u].obj /\ th'[u].del = th[u].del
                           /\ th'[u].owed = th[u].owed
                           /\ Adds(u) /\ ~Adds(u)' => Entry(u) \in added
    BY <1>8
  <2>5. gone \subseteq E
    OBVIOUS
  <2>9. /\ \A g \in AllEntries(dict') : /\ past'.map[g.key] = g.obj
                                        /\ Replaced(g.key)' <=> (g \notin added /\ Replaced(g.key))
        /\ \A j \in Keys : past'.map[j] # NoObj => \E g \in AllEntries(dict') : g.key = j
    BY <1>10, <1>11
  <2> QED
    <3>1. EntriesGo(gone, added)
      BY <1>5, <1>8, <2>9, <2>1, <2>2, <2>3, <2>4, <2>5 DEF EntriesGo
    <3> QED
      BY <3>1, EntriesChange
<1>13. EntriesFit'
  <2>1. t \in Linking /\ t \notin Linking'
    BY <1>1, <1>8 DEF Linking
  <2>2. Cardinality(Linking') = Cardinality(Linking) - 1 /\ Cardinality(Linking) \in Nat
    BY <1>8, <2>1, LinkingChanges
  <2>3. IsFiniteSet(E) /\ Cardinality(E) \in Nat /\ f \notin E
    BY <1>0, <1>4, EntriesFinite
  <2>4. Cardinality(AllEntries(dict')) = Cardinality(E) + 1
    BY <1>6, <2>3, FS_AddElement
  <2>5. dict'.count = Cardinality(AllEntries(dict')) + Cardinality(Linking')
    BY <1>0, <1>5, <2>2, <2>3, <2>4 DEF EntriesFit
  <2> QED
    BY <1>10, <1>11, <2>5 DEF EntriesFit
<1> QED
  BY <1>6, <1>8, <1>12, <1>13 DEF DictInv

\* dictionary.c, set: the entry of a key is taken out.
LEMMA RemoveStep ==
  ASSUME DictAssumption, DictInv, NEW t \in Threads, set_remove(t)
  PROVE  DictInv'
<1> PICK k \in Keys : k = th[t].key
  BY FromDictInv
<1> PICK e : e = EntryOf(dict, k)
  OBVIOUS
<1> DEFINE E == AllEntries(dict)
           b == Home(dict.tables, k)
           items == [dict.items EXCEPT ![b] = {g \in @ : g.key # k}]
<1>0. /\ StepFits(t) /\ EntriesFit /\ ObjectsFit /\ WellFormed(dict) /\ dict \in DictSet
      /\ dict.items \in [Paths -> SUBSET EntrySet] /\ dict.count \in Int
  BY FromDictInv
<1>1. /\ th' = [th EXCEPT ![t].pc = "uncount"] /\ reserved' = reserved /\ th[t].pc = "remove"
      /\ dict' = [dict EXCEPT !.items = items] /\ past' = [past EXCEPT !.map[k] = NoObj]
  BY DEF set_remove
<1>2. ~Adds(t) /\ past.map[k] # NoObj /\ Replaced(k)
  BY <1>0, <1>1 DEF StepFits, Adds, Replaced
<1>3. e \in EntriesOf(dict, k) /\ e \in E /\ e.key = k
  BY <1>2, GetIsMap
<1>4. \A g \in E : g.key \in Keys /\ past.map[g.key] = g.obj /\ (g.key = k <=> g = e)
  <2>1. \A g \in E : g.key \in Keys /\ past.map[g.key] = g.obj
    BY <1>0 DEF AllEntries, EntrySet, EntriesFit
  <2> QED
    BY <1>0, <1>3, <2>1, OneEntry
<1>5. items = [p \in Paths |-> dict.items[p] \ {e}]
  <2>1. b \in Paths
    BY <1>0, LooksEverywhere
  <2>2. \A p \in Paths : p # b => e \notin dict.items[p]
    BY <1>0, <1>3 DEF WellFormed, Placed
  <2>3. \A g \in dict.items[b] : g.key = k <=> g = e
    BY <1>4, <2>1 DEF AllEntries
  <2>4. {g \in dict.items[b] : g.key # k} = dict.items[b] \ {e}
    BY <2>3
  <2>5. items = [dict.items EXCEPT ![b] = dict.items[b] \ {e}]
    BY <2>4
  <2> HIDE DEF items, b
  <2> QED
    BY <1>0, <2>1, <2>2, <2>5
<1> HIDE DEF items
<1>6. /\ dict'.tables = dict.tables /\ dict'.items = items /\ dict'.shared = dict.shared
      /\ dict'.deleter = dict.deleter /\ dict'.count = dict.count
  BY <1>0, <1>1 DEF DictSet
<1>7. /\ dict'.items \in [Paths -> SUBSET EntrySet] /\ WellFormed(dict')
      /\ AllEntries(dict') = E \ {e}
      /\ \A j \in Keys : HasRoom(dict, j) => HasRoom(dict', j)
  <2>1. Drops(dict, dict', {e})
    BY <1>5, <1>6 DEF Drops
  <2> QED
    BY <1>0, <2>1, Filtered
<1>8. dict' \in DictSet
  BY <1>0, <1>1, <1>6, <1>7 DEF DictSet
<1>9. /\ DictTypeOK' /\ LocksFit' /\ \A u \in Threads : StepFits(u)'
      /\ th'[t].pc = "uncount" /\ \A u \in Threads : u # t => th'[u] = th[u]
      /\ \A u \in Threads : /\ Adds(u)' <=> Adds(u) /\ u # t
                            /\ th'[u].obj = th[u].obj /\ th'[u].del = th[u].del
                            /\ th'[u].owed = th[u].owed
      /\ \A j : Replaced(j)' <=> Replaced(j) /\ j # k
      /\ past'.next = past.next /\ past'.asked = past.asked /\ past'.deleted = past.deleted
      /\ \A j \in Keys : past'.map[j] = IF j = k THEN NoObj ELSE past.map[j]
  <2>1. SetsTo(t, k, "uncount", NoObj)
    BY <1>1, <1>6, <1>7, <1>8 DEF SetsTo
  <2> QED
    BY <2>1, SetStep
<1>10. \A g \in AllEntries(dict') : /\ past'.map[g.key] = g.obj
                                    /\ Replaced(g.key)' <=> (g \notin {} /\ Replaced(g.key))
  BY <1>4, <1>7, <1>9
<1>11. ASSUME NEW j \in Keys, past'.map[j] # NoObj PROVE \E g \in AllEntries(dict') : g.key = j
  <2>1. PICK g \in E : g.key = j /\ j # k
    BY <1>0, <1>9, <1>11 DEF EntriesFit
  <2> QED
    BY <1>4, <1>7, <2>1
<1>12. ObjectsFit'
  <2> PICK gone : gone = {e}
    OBVIOUS
  <2> PICK added : added = {}
    OBVIOUS
  <2>1. EntryFits(e)
    BY <1>0, <1>3 DEF ObjectsFit
  <2>2. Deletes(dict, e.del) => past.deleted[e.obj] = 1
    BY <1>2, <1>3, <2>1 DEF EntryFits
  <2>3. \A o \in 1..MaxObjs : past'.deleted[o] = IF \E g \in gone : g.obj = o /\ Deletes(dict, g.del)
                                                 THEN 1 ELSE past.deleted[o]
    BY <1>9, <2>2
  <2>4. \A u \in Threads : /\ Adds(u)' => Adds(u)
                           /\ th'[u].obj = th[u].obj /\ th'[u].del = th[u].del
                           /\ th'[u].owed = th[u].owed
                           /\ Adds(u) /\ ~Adds(u)' => Entry(u) \in added
    BY <1>2, <1>9
  <2>5. AllEntries(dict') = (E \ gone) \cup added /\ gone \subseteq E
    BY <1>3, <1>7
  <2>9. /\ \A g \in AllEntries(dict') : /\ past'.map[g.key] = g.obj
                                        /\ Replaced(g.key)' <=> (g \notin added /\ Replaced(g.key))
        /\ \A j \in Keys : past'.map[j] # NoObj => \E g \in AllEntries(dict') : g.key = j
    BY <1>10, <1>11
  <2> QED
    <3>1. EntriesGo(gone, added)
      BY <1>6, <1>9, <2>9, <2>3, <2>4, <2>5 DEF EntriesGo
    <3> QED
      BY <3>1, EntriesChange
<1>13. EntriesFit'
  <2>1. t \notin Linking /\ t \in Linking'
    BY <1>1, <1>9 DEF Linking
  <2>2. Cardinality(Linking') = Cardinality(Linking) + 1 /\ Cardinality(Linking) \in Nat
    BY <1>9, <2>1, LinkingChanges
  <2>3. IsFiniteSet(E) /\ Cardinality(E) \in Nat
    BY <1>0, EntriesFinite
  <2>4. Cardinality(AllEntries(dict')) = Cardinality(E) - 1
    BY <1>3, <1>7, <2>3, FS_RemoveElement
  <2>5. dict'.count = Cardinality(AllEntries(dict')) + Cardinality(Linking')
    BY <1>0, <1>6, <2>2, <2>3, <2>4 DEF EntriesFit
  <2> QED
    BY <1>10, <1>11, <2>5 DEF EntriesFit
<1> QED
  BY <1>7, <1>9, <1>12, <1>13 DEF DictInv

\* dictionary.c, removeAll: what matches below the bucket that is held goes, and is deleted.
LEMMA RemoveAllStep ==
  ASSUME DictAssumption, DictInv, NEW t \in Threads, removeAll(t)
  PROVE  DictInv'
<1> PICK i : i = Min(th[t].left)
  OBVIOUS
<1> PICK m : m = th[t].match
  OBVIOUS
<1> DEFINE E == AllEntries(dict)
           items == [p \in Paths |-> IF Head(p) = i THEN {e \in dict.items[p] : e.key \notin m}
                                                    ELSE dict.items[p]]
           d == [dict EXCEPT !.items = items]
           c == dict.count - Cardinality(E) + Cardinality(AllEntries(d))
           deleted == [o \in 1..MaxObjs |-> past.deleted[o] + DueDeletes(dict, o) - DueDeletes(d, o)]
           map == [k \in Keys |-> IF Top(k) = i /\ k \in m THEN NoObj ELSE past.map[k]]
           s == [th[t] EXCEPT !.pc = "unlockAll"]
<1> PICK gone : gone = {e \in E : Top(e.key) = i /\ e.key \in m}
  OBVIOUS
<1>0. /\ StepFits(t) /\ EntriesFit /\ ObjectsFit /\ WellFormed(dict) /\ dict \in DictSet /\ DictTypeOK
      /\ dict.items \in [Paths -> SUBSET EntrySet] /\ dict.count \in Int /\ past \in PastSet
      /\ th[t] \in ThreadSet /\ past.deleted \in [1..MaxObjs -> Int]
      /\ past.map \in [Keys -> 0..MaxObjs] /\ th[t].owed \subseteq 1..MaxObjs /\ LocksFit
  BY FromDictInv DEF PastSet
<1>1. /\ th' = [th EXCEPT ![t] = s] /\ reserved' = reserved /\ th[t].pc = "removing"
      /\ dict' = [d EXCEPT !.count = c]
      /\ past' = [past EXCEPT !.deleted = deleted, !.map = map]
  <2>1. d.count = dict.count /\ dict.items = dict.items
    BY <1>0 DEF DictSet
  <2> QED
    BY <2>1 DEF removeAll
<1>2. i \in th[t].left /\ i \in Tops /\ Writes(t) = {i} /\ Reads(t) = {} /\ th[t].left # {}
  BY <1>0, <1>1, HoldsTops, FromDictInv DEF Writes, Reads, InSet
<1>3. \A e \in E : /\ e.key \in Keys /\ e.obj \in 1..MaxObjs /\ past.map[e.key] = e.obj
                   /\ EntryFits(e) /\ \A f \in E : e.obj = f.obj => e = f
  BY <1>0 DEF AllEntries, EntrySet, EntriesFit, ObjectsFit
<1>4. items = [p \in Paths |-> dict.items[p] \ gone]
  <2>1. ASSUME NEW p \in Paths, NEW e \in dict.items[p] PROVE e \in E /\ Head(p) = Top(e.key)
    BY <1>0, EntryPath DEF AllEntries
  <2>2. ASSUME NEW p \in Paths PROVE items[p] = dict.items[p] \ gone
    BY <2>1
  <2> QED
    BY <2>2
<1> HIDE DEF items
<1>5. /\ d.tables = dict.tables /\ d.items = items /\ d.deleter = dict.deleter
      /\ d.shared = dict.shared /\ d.count = dict.count
  BY <1>0 DEF DictSet
<1>6. /\ d.items \in [Paths -> SUBSET EntrySet] /\ WellFormed(d) /\ AllEntries(d) = E \ gone
      /\ \A j \in Keys : HasRoom(dict, j) => HasRoom(d, j)
  <2>1. Drops(dict, d, gone)
    BY <1>4, <1>5 DEF Drops
  <2> HIDE DEF d
  <2> QED
    BY <1>0, <2>1, Filtered
<1>7. /\ Cardinality(E) \in Nat /\ Cardinality(E \ gone) \in Nat
  <2> HIDE DEF d
  <2>1. Cardinality(AllEntries(d)) \in Nat
    BY <1>6, EntriesFinite
  <2> QED
    BY <1>0, <1>6, <2>1, EntriesFinite
<1>8. c \in Int /\ c = dict.count - Cardinality(E) + Cardinality(E \ gone)
  <2> HIDE DEF d
  <2> QED
    BY <1>0, <1>6, <1>7
<1>9. d \in DictSet
  BY <1>0, <1>5, <1>6 DEF DictSet
<1> HIDE DEF c
<1>10. /\ dict' \in DictSet /\ dict'.tables = d.tables /\ dict'.items = d.items
       /\ dict'.deleter = dict.deleter /\ dict'.shared = dict.shared /\ dict'.count = c
  <2> HIDE DEF d
  <2> QED
    BY <1>1, <1>5, <1>8, <1>9 DEF DictSet
<1>11. /\ WellFormed(dict') /\ AllEntries(dict') = E \ gone
       /\ \A j \in Keys : HasRoom(dict, j) => HasRoom(dict', j)
  BY <1>6, <1>10 DEF WellFormed, Placed, Single, AllEntries, HasRoom
<1>12. ASSUME NEW e \in gone PROVE e \in E /\ past.deleted[e.obj] = 0
  <2>1. ASSUME NEW u \in Threads, th[u].pc \in {"replace", "remove"}, th[u].key = e.key PROVE FALSE
    <3>1. i \in Writes(u) /\ u # t
      BY <1>1, <2>1 DEF Writes, InSet
    <3> QED
      BY <1>0, <1>2, <3>1, Exclusive, FromDictInv
  <2>2. ~Replaced(e.key)
    BY <2>1 DEF Replaced
  <2>3. EntryFits(e)
    BY <1>3
  <2> QED
    BY <2>2, <2>3 DEF EntryFits
<1>13. ASSUME NEW o \in 1..MaxObjs
       PROVE  /\ deleted[o] \in Int
              /\ deleted[o] = IF \E e \in gone : e.obj = o /\ Deletes(dict, e.del)
                              THEN 1 ELSE past.deleted[o]
  <2> DEFINE Goes == \E e \in gone : e.obj = o /\ Deletes(dict, e.del)
             Stays == \E e \in E \ gone : e.obj = o /\ Deletes(dict, e.del)
  <2>1. DueDeletes(dict, o) = IF \E e \in E : e.obj = o /\ Deletes(dict, e.del) THEN 1 ELSE 0
    BY <1>3, DueIs
  <2>2. DueDeletes(d, o) = IF Stays THEN 1 ELSE 0
    <3> HIDE DEF d
    <3>1. \A e, f \in AllEntries(d) : e.obj = f.obj => e = f
      BY <1>3, <1>6
    <3>2. DueDeletes(d, o) = IF \E e \in AllEntries(d) : e.obj = o /\ Deletes(d, e.del) THEN 1 ELSE 0
      BY <3>1, DueIs
    <3>3. \A x : Deletes(d, x) <=> Deletes(dict, x)
      BY <1>5 DEF Deletes
    <3> QED
      BY <1>6, <3>2, <3>3
  <2>3. (\E e \in E : e.obj = o /\ Deletes(dict, e.del)) <=> Goes \/ Stays
    OBVIOUS
  <2>4. ~(Goes /\ Stays)
    BY <1>3
  <2>5. Goes => past.deleted[o] = 0
    BY <1>12
  <2>6. deleted[o] = past.deleted[o] + DueDeletes(dict, o) - DueDeletes(d, o)
    OBVIOUS
  <2>7. past.deleted[o] \in Int
    BY <1>0
  <2> HIDE DEF Goes, Stays, deleted, d
  <2>8. deleted[o] = IF Goes THEN 1 ELSE past.deleted[o]
    BY <2>1, <2>2, <2>3, <2>4, <2>5, <2>6, <2>7
  <2>9. deleted[o] \in Int
    BY <2>7, <2>8
  <2> QED
    BY <2>8, <2>9 DEF Goes
<1>14. /\ map \in [Keys -> 0..MaxObjs]
       /\ \A k \in Keys : map[k] = IF Top(k) = i /\ k \in m THEN NoObj ELSE past.map[k]
  BY <1>0 DEF NoObj, DictAssumption
<1>15. deleted \in [1..MaxObjs -> Int]
  BY <1>13
<1> HIDE DEF deleted, map
<1>16. /\ past' \in PastSet /\ past'.map = map /\ past'.deleted = deleted
       /\ past'.next = past.next /\ past'.asked = past.asked
  BY <1>0, <1>1, <1>14, <1>15 DEF PastSet
<1>17. /\ s \in ThreadSet /\ s.pc = "unlockAll" /\ s.obj = th[t].obj /\ s.del = th[t].del
       /\ s.owed = th[t].owed /\ s.left = th[t].left /\ s.match = m
  BY <1>0 DEF ThreadSet, InRemoveAll
<1> HIDE DEF s
<1>18. DictTypeOK' /\ th'[t] = s /\ \A u \in Threads : u # t => th'[u] = th[u]
  BY <1>0, <1>1, <1>10, <1>16, <1>17 DEF DictTypeOK
<1>19. Writes(t)' = {i} /\ Reads(t)' = {}
  BY <1>17, <1>18 DEF Writes, Reads, InSet
<1>20. LocksFit'
  BY <1>0, <1>1, <1>2, <1>10, <1>18, <1>19, LocksKept
<1>21. \A k \in Keys : \/ past'.map[k] = past.map[k]
                       \/ Top(k) = i /\ k \in m /\ past'.map[k] = NoObj
  BY <1>14, <1>16
<1>22. \A u \in Threads : u # t => StepFits(u)'
  BY <1>2, <1>11, <1>18, <1>21, OthersFit
<1>23. StepFits(t)'
  <2>1. ASSUME NEW k \in Keys, past'.map[k] \in th[t].owed
        PROVE  k \in m /\ Top(k) \in th[t].left /\ Top(k) # i
    <3>1. past'.map[k] # NoObj
      BY <1>0, <2>1 DEF NoObj
    <3>2. past'.map[k] = past.map[k] /\ ~(Top(k) = i /\ k \in m)
      BY <1>14, <1>16, <3>1
    <3>3. k \in m /\ Top(k) \in th[t].left
      BY <1>0, <2>1, <3>2 DEF StepFits
    <3> QED
      BY <3>2, <3>3
  <2> QED
    BY <1>2, <1>17, <1>18, <2>1 DEF StepFits, InRemoveAll
<1>24. /\ \A u \in Threads : /\ Adds(u)' <=> Adds(u)
                             /\ th'[u].obj = th[u].obj /\ th'[u].del = th[u].del
                             /\ th'[u].owed = th[u].owed
       /\ \A k : Replaced(k)' <=> Replaced(k)
       /\ Linking' = Linking
  BY <1>1, <1>17, <1>18 DEF Adds, Replaced, Linking
<1>25. \A e \in AllEntries(dict') : past'.map[e.key] = e.obj
  BY <1>3, <1>11, <1>14, <1>16
<1>26. ASSUME NEW k \in Keys, past'.map[k] # NoObj PROVE \E e \in AllEntries(dict') : e.key = k
  <2>1. past.map[k] # NoObj /\ ~(Top(k) = i /\ k \in m)
    BY <1>14, <1>16, <1>26
  <2>2. PICK e \in E : e.key = k
    BY <1>0, <2>1 DEF EntriesFit
  <2> QED
    BY <1>11, <2>1, <2>2
<1>27. ObjectsFit'
  <2>1. EntriesGo(gone, {})
    BY <1>10, <1>11, <1>12, <1>13, <1>16, <1>24, <1>25, <1>26 DEF EntriesGo
  <2> QED
    BY <2>1, EntriesChange
<1>28. EntriesFit'
  <2>1. Cardinality(Linking) \in Nat
    BY <1>18, LinkingChanges
  <2>2. dict'.count = Cardinality(AllEntries(dict')) + Cardinality(Linking')
    BY <1>0, <1>7, <1>8, <1>10, <1>11, <1>24, <2>1 DEF EntriesFit
  <2> QED
    BY <1>25, <1>26, <2>2 DEF EntriesFit
<1> QED
  BY <1>11, <1>18, <1>20, <1>22, <1>23, <1>27, <1>28 DEF DictInv

\* dictionary.c, destroy: all entries go, and are deleted.
LEMMA DestroyStep ==
  ASSUME DictAssumption, DictInv, PSC_Dictionary_destroy
  PROVE  DictInv'
<1> DEFINE E == AllEntries(dict)
           items == [p \in Paths |-> {}]
           deleted == [o \in 1..MaxObjs |-> past.deleted[o] + DueDeletes(dict, o)]
           map == [k \in Keys |-> NoObj]
<1>0. /\ EntriesFit /\ ObjectsFit /\ WellFormed(dict) /\ dict \in DictSet /\ DictTypeOK
      /\ dict.items \in [Paths -> SUBSET EntrySet] /\ past \in PastSet
      /\ past.deleted \in [1..MaxObjs -> Int] /\ LocksFit
      /\ \A t \in Threads : StepFits(t) /\ th[t].owed \subseteq 1..MaxObjs
  BY FromDictInv DEF PastSet
<1>1. /\ \A t \in Threads : th[t].pc = "idle"
      /\ dict' = [dict EXCEPT !.alive = FALSE, !.tables = {}, !.count = 0, !.items = items]
      /\ past' = [past EXCEPT !.deleted = deleted, !.map = map]
      /\ reserved' = reserved /\ th' = th
  BY DEF PSC_Dictionary_destroy
<1>2. /\ dict' \in DictSet /\ dict'.tables = {} /\ dict'.items = items /\ dict'.count = 0
      /\ dict'.deleter = dict.deleter /\ dict'.shared = dict.shared
  <2>1. items \in [Paths -> SUBSET EntrySet]
    OBVIOUS
  <2> HIDE DEF items
  <2> QED
    <3>1. 0 \in Int /\ {} \in SUBSET Paths /\ FALSE \in BOOLEAN
      OBVIOUS
    <3>2. dict' \in DictSet
      BY <1>0, <1>1, <2>1, <3>1 DEF DictSet
    <3>3. /\ dict'.tables = {} /\ dict'.items = items /\ dict'.count = 0
          /\ dict'.deleter = dict.deleter /\ dict'.shared = dict.shared
      BY <1>0, <1>1 DEF DictSet
    <3> QED
      BY <3>2, <3>3
<1>3. AllEntries(dict') = {} /\ WellFormed(dict')
  <2>1. \A p \in Paths : dict'.items[p] = {}
    BY <1>2
  <2>2. Closed({})
    BY DEF Closed
  <2> QED
    BY <1>2, <2>1, <2>2 DEF AllEntries, WellFormed, Placed, Single
<1>4. \A t \in Threads : ~Adds(t) /\ ~Adds(t)'
  BY <1>1 DEF Adds
<1>5. \A k : ~Replaced(k) /\ ~Replaced(k)'
  BY <1>1 DEF Replaced
<1>6. ASSUME NEW o \in 1..MaxObjs
      PROVE  /\ deleted[o] = IF \E e \in E : e.obj = o /\ Deletes(dict, e.del) THEN 1 ELSE past.deleted[o]
             /\ deleted[o] \in Int
  <2>1. DueDeletes(dict, o) = IF \E e \in E : e.obj = o /\ Deletes(dict, e.del) THEN 1 ELSE 0
    BY <1>0, DueIs DEF ObjectsFit
  <2>2. \A e \in E : past.deleted[e.obj] = 0
    BY <1>0, <1>5 DEF ObjectsFit, EntryFits
  <2>3. deleted[o] = past.deleted[o] + DueDeletes(dict, o) /\ past.deleted[o] \in Int
    BY <1>0
  <2> HIDE DEF deleted
  <2>4. CASE \E e \in E : e.obj = o /\ Deletes(dict, e.del)
    BY <2>1, <2>2, <2>3, <2>4
  <2>5. CASE ~\E e \in E : e.obj = o /\ Deletes(dict, e.del)
    BY <2>1, <2>3, <2>5
  <2> QED
    BY <2>4, <2>5
<1>7. deleted \in [1..MaxObjs -> Int]
  <2>1. \A o \in 1..MaxObjs : deleted[o] \in Int
    BY <1>6
  <2> QED
    BY <2>1
<1>8. map \in [Keys -> 0..MaxObjs] /\ \A k \in Keys : map[k] = NoObj
  BY DEF NoObj, DictAssumption
<1> HIDE DEF deleted, map, items
<1>9. /\ past' \in PastSet /\ past'.map = map /\ past'.deleted = deleted
      /\ past'.next = past.next /\ past'.asked = past.asked
  BY <1>0, <1>1, <1>7, <1>8 DEF PastSet
<1>10. DictTypeOK'
  BY <1>0, <1>1, <1>2, <1>9 DEF DictTypeOK
<1>11. LocksFit'
  <2>1. \A t \in Threads : Writes(t)' = Writes(t) /\ Reads(t)' = Reads(t)
    BY <1>1 DEF Writes, Reads
  <2>2. \A i : Readers(i)' = Readers(i)
    BY <2>1 DEF Readers
  <2> QED
    BY <1>0, <1>1, <1>2, <2>1, <2>2 DEF LocksFit
<1>12. \A t \in Threads : StepFits(t)'
  <2>1. \A t \in Threads, k \in Keys : past'.map[k] \notin th[t].owed
    BY <1>0, <1>8, <1>9 DEF NoObj
  <2> QED
    BY <1>1, <2>1 DEF StepFits
<1>13. ObjectsFit'
  <2>1. EntriesGo(E, {})
    BY <1>1, <1>2, <1>3, <1>4, <1>5, <1>6, <1>8, <1>9 DEF EntriesGo
  <2> QED
    BY <2>1, EntriesChange
<1>14. EntriesFit'
  <2>1. Linking' = {}
    BY <1>1 DEF Linking
  <2> QED
    BY <1>2, <1>3, <1>8, <1>9, <2>1, FS_EmptySet DEF EntriesFit
<1> QED
  BY <1>3, <1>10, <1>11, <1>12, <1>13, <1>14 DEF DictInv

-----------------------------------------------------------------------------
(* Dictionary: the theorems *)

LEMMA DictStarts == DictAssumption /\ DictInit => DictInv
<1> SUFFICES ASSUME DictAssumption, DictInit PROVE DictInv
  OBVIOUS
<1> USE RestType
<1> DEFINE items == [p \in Paths |-> {}]
<1>1. PICK kind \in Kinds :
         dict = [deleter |-> kind[1], shared |-> kind[2], tables |-> {}, count |-> 0, alive |-> TRUE,
                 items |-> items]
  BY DEF DictInit, PSC_Dictionary_create
<1>2. kind[1] \in {"global", "each", "none"} /\ kind[2] \in BOOLEAN /\ MaxObjs \in Nat
  BY DEF DictAssumption
<1>3. items \in [Paths -> SUBSET EntrySet]
  OBVIOUS
<1>4. dict \in DictSet /\ dict.tables = {} /\ dict.items = items /\ dict.count = 0
  <2> HIDE DEF items
  <2> QED
    BY <1>1, <1>2, <1>3 DEF DictSet
<1>5. AllEntries(dict) = {} /\ WellFormed(dict)
  <2>1. \A p \in Paths : dict.items[p] = {}
    BY <1>4
  <2>2. Closed({})
    BY DEF Closed
  <2> QED
    BY <1>4, <2>1, <2>2 DEF AllEntries, WellFormed, Placed, Single
<1>6. \A t \in Threads : th[t] = AtRest
  BY DEF DictInit
<1>7. /\ past.map \in [Keys -> 0..MaxObjs] /\ \A k \in Keys : past.map[k] = NoObj
      /\ past.next = 1 /\ past.asked = {} /\ past.deleted \in [1..MaxObjs -> Int]
      /\ \A o \in 1..MaxObjs : past.deleted[o] = 0
  BY <1>2 DEF DictInit, NoObj
<1>8. DictTypeOK
  <2>1. past \in PastSet
    <3> DEFINE a == [k \in Keys |-> NoObj]
               b == [o \in 1..MaxObjs |-> 0]
    <3>1. a \in [Keys -> 0..MaxObjs] /\ b \in [1..MaxObjs -> Int] /\ 1 \in 1..MaxObjs + 1
      BY <1>2 DEF NoObj
    <3>2. past = [map |-> a, next |-> 1, asked |-> {}, deleted |-> b]
      BY DEF DictInit
    <3> HIDE DEF a, b
    <3> QED
      BY <3>1, <3>2 DEF PastSet
  <2>2. th \in [Threads -> ThreadSet] /\ reserved \in [Tops -> Int]
    BY DEF DictInit, PSC_Dictionary_create
  <2> QED
    BY <1>4, <2>1, <2>2 DEF DictTypeOK
<1>9. LocksFit
  <2>1. \A t \in Threads : Writes(t) = {} /\ Reads(t) = {} /\ th[t].pc = "idle"
    BY <1>6 DEF Writes, Reads, InSet
  <2>2. \A i : Readers(i) = {}
    BY <2>1 DEF Readers
  <2>3. \A i \in Tops : reserved[i] = 0
    BY DEF DictInit, PSC_Dictionary_create
  <2> QED
    BY <2>1, <2>2, <2>3, FS_EmptySet DEF LocksFit
<1>10. EntriesFit
  <2>1. Linking = {}
    BY <1>6 DEF Linking
  <2> QED
    BY <1>4, <1>5, <1>7, <2>1, FS_EmptySet DEF EntriesFit
<1>11. ObjectsFit
  BY <1>5, <1>6, <1>7 DEF ObjectsFit, Adds, ObjFits
<1>12. \A t \in Threads : StepFits(t)
  BY <1>6 DEF StepFits
<1> QED
  BY <1>5, <1>8, <1>9, <1>10, <1>11, <1>12 DEF DictInv

LEMMA DictSteps == DictAssumption /\ DictInv /\ [DictNext]_dictVars => DictInv'
<1> SUFFICES ASSUME DictAssumption, DictInv, [DictNext]_dictVars PROVE DictInv'
  OBVIOUS
<1>1. ASSUME NEW t \in Threads, PSC_Dictionary_set(t) PROVE DictInv'
  BY <1>1, SetBegins, DeleteStep, ReplaceStep, RemoveStep, UncountStep, CreateStep, LinkStep, RestStep
     DEF PSC_Dictionary_set
<1>2. ASSUME NEW t \in Threads,
             \/ \E k \in Keys : PSC_Dictionary_get_lock(t, k)
             \/ PSC_Dictionary_get(t) \/ PSC_Dictionary_get_unlock(t)
      PROVE  DictInv'
  BY <1>2, GetStep, RestStep
<1>3. ASSUME NEW t \in Threads,
             \/ \E m \in Matchers : PSC_Dictionary_removeAll(t, m)
             \/ PSC_Dictionary_removeAll_lock(t) \/ removeAll(t)
             \/ PSC_Dictionary_removeAll_unlock(t) \/ PSC_Dictionary_removeAll_return(t)
      PROVE  DictInv'
  BY <1>3, RemoveAllBegins, RemoveAllLocks, RemoveAllStep, RestStep
<1>4. CASE PSC_Dictionary_destroy
  BY <1>4, DestroyStep
<1>5. CASE UNCHANGED dictVars
  <2>1. dict' = dict /\ reserved' = reserved /\ th' = th /\ past' = past
    BY <1>5 DEF dictVars
  <2>2. /\ DictTypeOK' /\ WellFormed(dict)' /\ AllEntries(dict)' = AllEntries(dict)
        /\ \A k : HasRoom(dict, k)' <=> HasRoom(dict, k)
    BY <2>1 DEF DictInv, DictTypeOK
  <2>3. LocksFit'
    <3>1. \A t \in Threads : Writes(t)' = Writes(t) /\ Reads(t)' = Reads(t)
      BY <2>1 DEF Writes, Reads
    <3>2. \A i : Readers(i)' = Readers(i)
      BY <3>1 DEF Readers
    <3> QED
      BY <2>1, <3>1, <3>2 DEF DictInv, LocksFit
  <2>4. EntriesFit'
    BY <2>1, <2>2 DEF DictInv, EntriesFit, Linking
  <2>5. \A k : Replaced(k)' <=> Replaced(k)
    BY <2>1 DEF Replaced
  <2>6. \A t \in Threads : Adds(t)' <=> Adds(t)
    BY <2>1 DEF Adds
  <2>7. ObjectsFit'
    BY <2>1, <2>2, <2>5, <2>6, SameObjects
  <2>8. \A t \in Threads : StepFits(t)'
    BY <2>1, <2>2 DEF DictInv, StepFits
  <2> QED
    BY <2>2, <2>3, <2>4, <2>7, <2>8 DEF DictInv
<1> QED
  BY <1>1, <1>2, <1>3, <1>4, <1>5 DEF DictNext

LEMMA DictInvariance == DictAssumption => (DictSpec => []DictInv)
<1> SUFFICES ASSUME DictAssumption PROVE DictSpec => []DictInv
  OBVIOUS
<1>1. DictInit => DictInv
  BY DictStarts
<1>2. DictInv /\ [DictNext]_dictVars => DictInv'
  BY DictSteps
<1> QED
  BY <1>1, <1>2, PTL DEF DictSpec

LEMMA InvIsMap == DictAssumption /\ DictInv => DictionaryIsMap
<1> SUFFICES ASSUME DictAssumption, DictInv PROVE DictionaryIsMap
  OBVIOUS
<1>1. \A k \in Keys : get(dict, k) = past.map[k]
  BY GetIsMap
<1>2. ASSUME Writers = {} PROVE dict.count = Cardinality({k \in Keys : past.map[k] # NoObj})
  <2> DEFINE E == AllEntries(dict)
  <2>1. Linking = {}
    BY <1>2 DEF Writers, Linking
  <2>2. \A e \in E : e.key \in Keys /\ past.map[e.key] # NoObj
    BY FromDictInv DEF AllEntries, EntrySet, EntriesFit, NoObj
  <2>3. {e.key : e \in E} = {k \in Keys : past.map[k] # NoObj}
    BY <2>2, FromDictInv DEF EntriesFit
  <2>4. Cardinality(E) = Cardinality({e.key : e \in E}) /\ Cardinality(E) \in Nat
    BY FromDictInv, EntriesFinite
  <2>5. dict.count = Cardinality(E) + 0
    BY <2>1, FromDictInv, FS_EmptySet DEF EntriesFit
  <2>6. dict.count = Cardinality(E)
    BY <2>4, <2>5
  <2> QED
    BY <2>3, <2>4, <2>6, Zenon
<1>3. ASSUME NEW t \in Threads, th[t].pc = "removed", NEW k \in Keys PROVE past.map[k] \notin th[t].owed
  BY <1>3, FromDictInv DEF StepFits
<1> QED
  BY <1>1, <1>2, <1>3 DEF DictionaryIsMap, IsMap, AllRemoved

LEMMA InvDeletesSafely == DictAssumption /\ DictInv => DeletedSafely
<1> SUFFICES ASSUME DictAssumption, DictInv PROVE DeletedSafely
  OBVIOUS
<1>0. ObjectsFit /\ past.next \in 1..MaxObjs + 1 /\ MaxObjs \in Nat
  BY FromDictInv DEF DictAssumption
<1>1. ASSUME NEW k \in Keys, past.map[k] # NoObj
      PROVE  LET o == past.map[k]
             IN  /\ past.deleted[o] = 0 \/ past.deleted[o] = 1
                 /\ past.deleted[o] = 1 => o \in past.asked /\ Replaced(k)
  BY <1>1, MapValues DEF EntryFits
<1>2. ASSUME NEW t \in Threads, Adds(t) PROVE past.deleted[th[t].obj] = 0 /\ t \in Writers
  BY <1>0, <1>2 DEF ObjectsFit, AddFits, Adds, Writers
<1>3. ASSUME NEW o \in 1..past.next - 1
      PROVE  /\ o \in 1..MaxObjs /\ o # NoObj
             /\ \/ past.deleted[o] = IF o \in past.asked THEN 1 ELSE 0
                \/ \E k \in Keys : past.map[k] = o
                \/ \E t \in Threads : Adds(t) /\ th[t].obj = o
  <2>1. o \in 1..MaxObjs /\ ~(o >= past.next) /\ o # NoObj
    BY <1>0 DEF NoObj
  <2>2. ObjFits(o)
    BY <1>0, <2>1 DEF ObjectsFit
  <2> QED
    BY <2>1, <2>2 DEF ObjFits
<1>4. DeletedOnce
  <2> DEFINE stored == {past.map[k] : k \in Keys}
             held == stored \cup {th[t].obj : t \in Writers}
  <2> SUFFICES ASSUME NEW o \in 1..past.next - 1
               PROVE  /\ past.deleted[o] <= (IF o \in past.asked THEN 1 ELSE 0)
                      /\ o \in past.asked /\ o \notin held => past.deleted[o] = 1
                      /\ past.deleted[o] = 1 /\ o \in stored
                            => \E t \in Writers : th[t].pc \in {"replace", "remove"}
                                                  /\ past.map[th[t].key] = o
    BY Zenon DEF DeletedOnce
  <2>1. past.deleted[o] <= (IF o \in past.asked THEN 1 ELSE 0)
    BY <1>1, <1>2, <1>3
  <2>2. o \in past.asked /\ o \notin held => past.deleted[o] = 1
    BY <1>2, <1>3
  <2>3. ASSUME past.deleted[o] = 1, NEW k \in Keys, past.map[k] = o
        PROVE  \E t \in Writers : th[t].pc \in {"replace", "remove"} /\ past.map[th[t].key] = o
    <3>1. Replaced(k)
      BY <1>1, <1>3, <2>3
    <3> QED
      BY <2>3, <3>1 DEF Replaced, Writers
  <2> QED
    BY <2>1, <2>2, <2>3
<1>5. ASSUME NEW t \in Threads, th[t].pc = "got", th[t].obj # NoObj PROVE past.deleted[th[t].obj] = 0
  <2>1. th[t].obj = past.map[th[t].key] /\ th[t].key \in Keys
    BY <1>5, FromDictInv DEF StepFits
  <2>2. ~Replaced(th[t].key)
    <3>1. ASSUME NEW u \in Threads, th[u].pc \in {"replace", "remove"}, th[u].key = th[t].key PROVE FALSE
      <4>1. Top(th[t].key) \in Writes(u) /\ Top(th[t].key) \in Reads(t) /\ u # t
        BY <1>5, <3>1 DEF Writes, Reads, InSet
      <4> QED
        BY <4>1, Exclusive, FromDictInv
    <3> QED
      BY <3>1 DEF Replaced
  <2> QED
    BY <1>1, <1>5, <2>1, <2>2
<1> QED
  BY <1>4, <1>5 DEF DeletedSafely, ReadAlive

\* dictionary.c: for any hash, depth, number of threads and objects, get finds what was
\* last set, the count is right, and removeAll leaves nothing that matched before.
THEOREM DictionaryMaps == DictAssumption => (DictSpec => []DictionaryIsMap)
<1> SUFFICES ASSUME DictAssumption PROVE DictSpec => []DictionaryIsMap
  OBVIOUS
<1>1. DictSpec => []DictInv
  BY DictInvariance
<1>2. DictInv => DictionaryIsMap
  BY InvIsMap
<1> QED
  BY <1>1, <1>2, PTL

\* dictionary.c: an object is deleted once and as asked when it leaves the dictionary,
\* never before and never while a reader holds its bucket.
THEOREM DictionaryDeletes == DictAssumption => (DictSpec => []DeletedSafely)
<1> SUFFICES ASSUME DictAssumption PROVE DictSpec => []DeletedSafely
  OBVIOUS
<1>1. DictSpec => []DictInv
  BY DictInvariance
<1>2. DictInv => DeletedSafely
  BY InvDeletesSafely
<1> QED
  BY <1>1, <1>2, PTL
=============================================================================
