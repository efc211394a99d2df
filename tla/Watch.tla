------------------------------- MODULE Watch -------------------------------
(***************************************************************************)
(* File descriptor monitoring of one service thread (service.c): what      *)
(* PSC_Service_registerRead and its siblings tell the system, and          *)
(* processEvents, in each of the five event backends.  A backend is chosen *)
(* in WatchInit; svc holds its part of the struct Service.                 *)
(*                                                                         *)
(* Handlers run between two steps of processEvents and may register and    *)
(* unregister any descriptor, the ones reported in this round included.    *)
(***************************************************************************)
EXTENDS Integers, Sequences, FiniteSets, SequencesExt, FiniteSetsExt

CONSTANTS Fds,         \* file descriptors, natural numbers
          Backends,    \* the backends to look at
          MaxEvents,   \* EP_MAX_EVENTS and its siblings
          MaxChanges,  \* KQ_MAX_CHANGES
          Readiness,   \* what descriptors can be: a subset of {"idle", "ready", "end"}
          EndIsHup     \* backends that report the end of a pipe as POLLHUP only

WatchAssumption ==
    /\ Fds \subseteq Nat /\ IsFiniteSet(Fds)
    /\ Backends \subseteq {"epoll", "kqueue", "evports", "poll", "select"}
    /\ MaxEvents \in Nat \ {0} /\ MaxChanges \in Nat \ {0}
    /\ Readiness \subseteq {"idle", "ready", "end"} /\ EndIsHup \subseteq Backends

Dirs == {"in", "out"}

VARIABLES be,      \* the backend
          svc,     \* its registrations
          watching, \* what the system was told to watch
          want,    \* what the callers asked for
          ready,   \* per descriptor: "idle", "ready" to read and write, or at its "end"
          at,      \* the position in the loop: "wait", or "run" until commands are done
          todo,    \* events of this round that processEvents still has to handle
          due,     \* events the system reported in this round and not yet raised
          raised   \* the event this step raised; "stray" if it was not reported

wvars == <<be, svc, watching, want, ready, at, todo, due, raised>>

NoEvent == [do |-> "none", fd |-> -1]
None == [fd \in Fds |-> {}]

WatchInit ==
    /\ be \in Backends
    /\ svc = [watches |-> None,                              \* epoll, event ports
              fds |-> <<>>, nfds |-> 0,                      \* poll; nfds: select too
              readfds |-> {}, writefds |-> {}, nread |-> 0, nwrite |-> 0,
              changes |-> <<>>]                              \* kqueue
    /\ watching = None /\ want = None
    /\ ready = [fd \in Fds |-> "idle"]
    /\ at = "run" /\ todo = <<>> /\ due = {} /\ raised = NoEvent

-----------------------------------------------------------------------------
(* Registration *)

\* epoll and event ports: the watch of a descriptor, and the system's copy.
registerWatch(fd, d) ==
    /\ svc' = [svc EXCEPT !.watches[fd] = @ \cup {d}]
    /\ watching' = IF d \in svc.watches[fd] THEN watching
                   ELSE [watching EXCEPT ![fd] = svc.watches[fd] \cup {d}]
\* Mutant: removing one direction removes the descriptor.
unregisterWatch_all(fd, d) ==
    /\ svc' = [svc EXCEPT !.watches[fd] = @ \ {d}]
    /\ watching' = IF d \in svc.watches[fd] THEN [watching EXCEPT ![fd] = {}] ELSE watching
unregisterWatch(fd, d) ==
    /\ svc' = [svc EXCEPT !.watches[fd] = @ \ {d}]
    /\ watching' = IF d \in svc.watches[fd] THEN [watching EXCEPT ![fd] = svc.watches[fd] \ {d}]
                   ELSE watching

\* kqueue: changes are collected, until the next wait or until there is no room.
\* The last change of a descriptor and direction counts.
Applied(ks, chg) ==
    [fd \in Fds |->
       {d \in Dirs :
          LET of == {i \in DOMAIN chg : chg[i].fd = fd /\ chg[i].d = d}
          IN  IF of = {} THEN d \in ks[fd]
              ELSE \E i \in of : chg[i].add /\ \A j \in of : j <= i}]
addChange(fd, d, add) ==
    LET full == Len(svc.changes) = MaxChanges
    IN  /\ watching' = IF full THEN Applied(watching, svc.changes) ELSE watching
        /\ svc' = [svc EXCEPT !.changes =
                     Append(IF full THEN <<>> ELSE @, [fd |-> fd, d |-> d, add |-> add])]

\* poll: the array behind its first nfds entries holds what was there before.
registerPoll(fd, d) ==
    LET i == SelectInSubSeq(svc.fds, 1, svc.nfds, LAMBDA e : e.fd = fd)
        n == svc.nfds + 1
    IN  svc' = IF i # 0 THEN [svc EXCEPT !.fds[i].events = @ \cup {d}]
               ELSE [svc EXCEPT !.nfds = n, !.fds =
                       [k \in DOMAIN svc.fds \cup {n} |->
                          IF k = n THEN [fd |-> fd, events |-> {d}, revents |-> {}]
                          ELSE svc.fds[k]]]
unregisterPoll(fd, d) ==
    LET i == SelectInSubSeq(svc.fds, 1, svc.nfds, LAMBDA e : e.fd = fd)
        s == [svc EXCEPT !.fds[i].events = @ \ {d}]
    IN  svc' = IF i = 0 THEN svc
               ELSE IF s.fds[i].events # {} THEN s
               ELSE [s EXCEPT !.nfds = @ - 1,
                       !.fds = [k \in DOMAIN s.fds |-> IF k \in i .. svc.nfds - 1
                                                        THEN s.fds[k + 1] ELSE s.fds[k]]]

\* select: two sets, their sizes, and a bound for the descriptors in them.
tryReduceNfds(s, fd) ==
    IF s.nread = 0 /\ s.nwrite = 0 THEN [s EXCEPT !.nfds = 0]
    ELSE IF fd + 1 < s.nfds THEN s
    ELSE [s EXCEPT !.nfds =
            Max({f \in s.readfds \cup s.writefds : f <= fd} \cup {-1}) + 1]
SetFd(fd, d) ==
    LET s == IF d = "in" THEN [svc EXCEPT !.readfds = @ \cup {fd}, !.nread = @ + 1]
             ELSE [svc EXCEPT !.writefds = @ \cup {fd}, !.nwrite = @ + 1]
    IN  svc' = IF fd \in (IF d = "in" THEN svc.readfds ELSE svc.writefds) THEN svc
               ELSE [s EXCEPT !.nfds = IF fd >= @ THEN fd + 1 ELSE @]
ClrFd(fd, d) ==
    LET s == IF d = "in" THEN [svc EXCEPT !.readfds = @ \ {fd}, !.nread = @ - 1]
             ELSE [svc EXCEPT !.writefds = @ \ {fd}, !.nwrite = @ - 1]
    IN  svc' = IF fd \in (IF d = "in" THEN svc.readfds ELSE svc.writefds)
               THEN tryReduceNfds(s, fd) ELSE svc

\* PSC_Service_registerRead and PSC_Service_registerWrite.
PSC_Service_register(fd, d) ==
    /\ at = "run"
    /\ want' = [want EXCEPT ![fd] = @ \cup {d}]
    /\ CASE be \in {"epoll", "evports"} -> registerWatch(fd, d)
         [] be = "kqueue" -> addChange(fd, d, TRUE)
         [] be = "poll" -> registerPoll(fd, d) /\ UNCHANGED watching
         [] be = "select" -> SetFd(fd, d) /\ UNCHANGED watching
    /\ raised' = NoEvent
    /\ UNCHANGED <<be, ready, at, todo, due>>

\* PSC_Service_unregisterRead and PSC_Service_unregisterWrite.
PSC_Service_unregister(fd, d) ==
    /\ at = "run"
    /\ want' = [want EXCEPT ![fd] = @ \ {d}]
    /\ CASE be \in {"epoll", "evports"} -> unregisterWatch(fd, d)
         [] be = "kqueue" -> addChange(fd, d, FALSE)
         [] be = "poll" -> unregisterPoll(fd, d) /\ UNCHANGED watching
         [] be = "select" -> ClrFd(fd, d) /\ UNCHANGED watching
    /\ raised' = NoEvent
    /\ UNCHANGED <<be, ready, at, todo, due>>

-----------------------------------------------------------------------------
(* processEvents *)

\* What the system looks at when the thread waits.
Interest ==
    CASE be \in {"epoll", "evports"} -> watching
      [] be = "kqueue" -> Applied(watching, svc.changes)
      [] be = "poll" -> [fd \in Fds |-> UNION {svc.fds[i].events :
                            i \in {i \in 1 .. svc.nfds : svc.fds[i].fd = fd}}]
      [] be = "select" -> [fd \in Fds |->
                            {d \in Dirs :
                               /\ fd < svc.nfds
                               /\ IF d = "in" THEN svc.nread # 0 /\ fd \in svc.readfds
                                  ELSE svc.nwrite # 0 /\ fd \in svc.writefds}]

\* External: what the system reports for a descriptor.
Report(fd) ==
    CASE Interest[fd] = {} \/ ready[fd] = "idle" -> {}
      [] Interest[fd] # {} /\ ready[fd] = "ready" -> Interest[fd]
      [] OTHER -> IF be \in EndIsHup THEN {"hup"} ELSE Interest[fd] \cap {"in"}
Reported == {fd \in Fds : Report(fd) # {}}

\* Event ports forget a descriptor they reported: it is associated again after
\* each event that was raised.
EventsOf(fd, d) ==
    IF d \notin Report(fd) THEN <<>>
    ELSE IF be = "evports" THEN <<[do |-> d, fd |-> fd], [do |-> "reregister", fd |-> fd]>>
    ELSE <<[do |-> d, fd |-> fd]>>
Events(fd) == EventsOf(fd, "out") \o EventsOf(fd, "in")

\* The wait of epoll, kqueue and event ports returns some of what is ready, in
\* any order.
WaitList ==
    /\ be \in {"epoll", "kqueue", "evports"}
    /\ \E got \in SUBSET Reported :
          /\ got # {} /\ Cardinality(got) <= MaxEvents
          /\ \E order \in SetToSeqs(got) :
                todo' = FlattenSeq([i \in DOMAIN order |-> Events(order[i])])
          /\ due' = {e \in [do : Dirs, fd : got] : e.do \in Report(e.fd)}
          /\ watching' = [fd \in Fds |-> IF be = "evports" /\ fd \in got THEN {}
                                         ELSE Interest[fd]]
    /\ svc' = [svc EXCEPT !.changes = <<>>]

\* select reports everything in two sets; the write events come first.
WaitSelect ==
    /\ be = "select" /\ Reported # {}
    /\ \E up \in SetToSeqs(Reported) :
          /\ \A i, j \in DOMAIN up : i < j => up[i] < up[j]
          /\ todo' = FlattenSeq([i \in DOMAIN up |-> EventsOf(up[i], "out")])
                     \o FlattenSeq([i \in DOMAIN up |-> EventsOf(up[i], "in")])
    /\ due' = {e \in [do : Dirs, fd : Reported] : e.do \in Report(e.fd)}
    /\ UNCHANGED <<svc, watching>>

\* poll notes the events in the array; prc entries are to be handled.
WaitPoll ==
    /\ be = "poll" /\ Reported # {}
    /\ svc' = [svc EXCEPT !.fds =
                 [i \in DOMAIN svc.fds |->
                    IF i > svc.nfds THEN svc.fds[i]
                    ELSE [svc.fds[i] EXCEPT !.revents = Report(svc.fds[i].fd)]]]
    /\ todo' = <<[do |-> "scan", i |-> 1, prc |-> Cardinality(Reported)]>>
    /\ due' = {e \in [do : Dirs, fd : Reported] : e.do \in Report(e.fd)}
    /\ UNCHANGED watching

WaitEvents ==
    /\ at = "wait" /\ at' = "run"
    /\ WaitList \/ WaitSelect \/ WaitPoll
    /\ raised' = NoEvent
    /\ UNCHANGED <<be, want, ready>>

Event(fd, d) ==
    /\ raised' = IF [do |-> d, fd |-> fd] \in due THEN [do |-> d, fd |-> fd]
                 ELSE [do |-> "stray", fd |-> fd]
    /\ due' = due \ {[do |-> d, fd |-> fd]}

NoneRaised == raised' = NoEvent /\ UNCHANGED due

\* The next event of the list.  select stops at the bound, which handlers may
\* have lowered.
RaiseNext ==
    LET e == Head(todo)
    IN  /\ at = "run" /\ todo # <<>> /\ e.do \in Dirs
        /\ todo' = Tail(todo)
        /\ IF be = "select" /\ e.fd >= svc.nfds THEN NoneRaised
           ELSE Event(e.fd, e.do)
        /\ UNCHANGED <<be, svc, watching, want, ready, at>>

\* Mutant: nothing is associated again.
reregister_not ==
    /\ at = "run" /\ todo # <<>> /\ Head(todo).do = "reregister"
    /\ todo' = Tail(todo)
    /\ raised' = NoEvent
    /\ UNCHANGED <<be, svc, watching, want, ready, at, due>>

reregister ==
    /\ at = "run" /\ todo # <<>> /\ Head(todo).do = "reregister"
    /\ watching' = [watching EXCEPT ![Head(todo).fd] = svc.watches[Head(todo).fd]]
    /\ todo' = Tail(todo)
    /\ raised' = NoEvent
    /\ UNCHANGED <<be, svc, want, ready, at, due>>

\* The loop over the array of poll.  Handlers may have moved its entries.
Scan(do, i, prc) == <<[do |-> do, i |-> i, prc |-> prc]>>
ScanPoll ==
    LET s == Head(todo)
        e == svc.fds[s.i]
        over == s.prc = 0 \/ s.i > svc.nfds
    IN  /\ at = "run" /\ todo # <<>> /\ s.do \in {"scan", "scanin"}
        /\ CASE s.do = "scan" /\ over -> todo' = <<>> /\ NoneRaised /\ UNCHANGED svc
             [] s.do = "scan" /\ ~over ->
                   IF e.revents = {}
                   THEN todo' = Scan("scan", s.i + 1, s.prc) /\ NoneRaised /\ UNCHANGED svc
                   ELSE /\ todo' = Scan("scanin", s.i, s.prc - 1)
                        /\ UNCHANGED svc
                        /\ IF "out" \in e.revents THEN Event(e.fd, "out")
                           ELSE NoneRaised
             [] s.do = "scanin" ->
                   /\ todo' = <<[do |-> "scanned", i |-> s.i, prc |-> s.prc]>>
                   /\ UNCHANGED svc
                   /\ IF "in" \in e.revents THEN Event(e.fd, "in")
                      ELSE NoneRaised
        /\ UNCHANGED <<be, watching, want, ready, at>>
ScannedPoll ==
    LET s == Head(todo)
    IN  /\ at = "run" /\ todo # <<>> /\ s.do = "scanned"
        /\ svc' = [svc EXCEPT !.fds[s.i].revents = {}]
        /\ todo' = Scan("scan", s.i + 1, s.prc)
        /\ NoneRaised
        /\ UNCHANGED <<be, watching, want, ready, at>>

\* All events are handled, commands and eventsDone handlers have run.
LoopEnd ==
    /\ at = "run" /\ todo = <<>>
    /\ at' = "wait" /\ due' = {} /\ raised' = NoEvent
    /\ UNCHANGED <<be, svc, watching, want, ready, todo>>

\* External: data comes, is read, or ends.  Only the next wait looks at it.
FileChanges(fd) ==
    /\ at = "wait"
    /\ \E r \in Readiness : ready' = [ready EXCEPT ![fd] = r]
    /\ UNCHANGED <<be, svc, watching, want, at, todo, due, raised>>

WatchStep == WaitEvents \/ RaiseNext \/ reregister \/ ScanPoll \/ ScannedPoll \/ LoopEnd
WatchNext ==
    \/ WatchStep
    \/ \E fd \in Fds : \/ FileChanges(fd)
                       \/ \E d \in Dirs : \/ PSC_Service_register(fd, d)
                                          \/ PSC_Service_unregister(fd, d)

WatchSpec == WatchInit /\ [][WatchNext]_wvars

\* The thread runs, and the system does not report a descriptor that stays
\* ready never.
WatchFairness ==
    /\ WF_wvars(WatchStep)
    /\ \A fd \in Fds : SF_wvars(WaitEvents /\ \E d \in Dirs : [do |-> d, fd |-> fd] \in due')
WatchFairSpec == WatchSpec /\ WatchFairness

-----------------------------------------------------------------------------
(* Properties *)

\* Whenever the thread waits, the system watches exactly what was registered
\* and not unregistered since, in whatever form the backend keeps it: hash of
\* watches, list of changes, array, or sets with a bound.
InterestKept == at = "wait" => Interest = want

\* processEvents raises only what the system reported in this round, and none
\* of it twice, although handlers change the registrations meanwhile: poll
\* moves the array it walks through, select lowers the bound it walks to.
RaisedAsReported == raised.do # "stray"

\* In each of the backends the system watches what was registered, and only
\* events reported in this round are raised, each once.
EventsAsAsked == InterestKept /\ RaisedAsReported

\* A descriptor that stays registered for reading and ready to be read, or at
\* its end, gets its readyRead event.
ReadyIsRaised ==
    \A fd \in Fds :
       ready[fd] # "idle" /\ "in" \in want[fd] ~>
          raised = [do |-> "in", fd |-> fd] \/ ready[fd] = "idle" \/ "in" \notin want[fd]

-----------------------------------------------------------------------------
(* The inductive invariant of the proof of EventsAsAsked *)

WatchTypeOK ==
    /\ be \in Backends /\ at \in {"wait", "run"}
    /\ want \in [Fds -> SUBSET Dirs] /\ watching \in [Fds -> SUBSET Dirs]
    /\ svc \in [watches : [Fds -> SUBSET Dirs],
                fds : Seq([fd : Fds, events : SUBSET Dirs, revents : SUBSET {"in", "out", "hup"}]),
                nfds : Nat, readfds : SUBSET Fds, writefds : SUBSET Fds,
                nread : Int, nwrite : Int,
                changes : Seq([fd : Fds, d : Dirs, add : BOOLEAN])]
    /\ todo \in Seq(IF be = "poll" THEN [do : {"scan", "scanin", "scanned"}, i : Nat, prc : Int]
                    ELSE [do : {"in", "out", "reregister"}, fd : Fds])

\* What was asked for, in the form the backend keeps it.  Event ports miss a
\* descriptor only until it is associated again.
Pending(fd) == \E i \in DOMAIN todo : todo[i].do = "reregister" /\ todo[i].fd = fd
WatchesKept == /\ svc.watches = want
               /\ \A fd \in Fds : watching[fd] = want[fd] \/ (be = "evports" /\ Pending(fd))
ChangesKept == Applied(watching, svc.changes) = want
ArrayKept == /\ svc.nfds <= Len(svc.fds)
             /\ \A i, j \in 1 .. svc.nfds : svc.fds[i].fd = svc.fds[j].fd => i = j
             /\ \A i \in 1 .. svc.nfds : /\ svc.fds[i].events = want[svc.fds[i].fd]
                                         /\ svc.fds[i].events # {}
             /\ \A fd \in Fds : want[fd] # {} => \E i \in 1 .. svc.nfds : svc.fds[i].fd = fd
SetsKept == /\ svc.readfds = {fd \in Fds : "in" \in want[fd]}
            /\ svc.writefds = {fd \in Fds : "out" \in want[fd]}
            /\ svc.nread = Cardinality(svc.readfds) /\ svc.nwrite = Cardinality(svc.writefds)
            /\ \A fd \in svc.readfds \cup svc.writefds : fd < svc.nfds
Kept == CASE be \in {"epoll", "evports"} -> WatchesKept
          [] be = "kqueue" -> ChangesKept
          [] be = "poll" -> ArrayKept
          [] be = "select" -> SetsKept

\* The events in a list were reported and not raised, and each is there once.
\* Only event ports associate again.
ListDue == \A i \in DOMAIN todo :
              /\ todo[i].do \in Dirs => /\ todo[i] \in due
                                        /\ \A j \in DOMAIN todo : todo[j] = todo[i] => j = i
              /\ todo[i].do \notin Dirs => be = "evports"
\* The entry of poll's array that is looked at, and the ones after it, have only
\* events that were reported and not raised.  An entry that was moved to the
\* place looked at is treated as the one that was there.
ScanDue ==
    todo # <<>> =>
       LET s == todo[1]
           Due(k, d) == d \in svc.fds[k].revents => [do |-> d, fd |-> svc.fds[k].fd] \in due
       IN  /\ Len(todo) = 1 /\ s.i >= 1
           /\ s.do # "scan" => s.i <= Len(svc.fds)
           /\ s.do = "scanin" => Due(s.i, "in")
           /\ \A k \in 1 .. svc.nfds :
                 k > s.i \/ (k = s.i /\ s.do = "scan") => Due(k, "in") /\ Due(k, "out")

WatchInv == /\ WatchTypeOK /\ Kept
            /\ at = "wait" => todo = <<>>
            /\ IF be = "poll" THEN ScanDue ELSE ListDue
            /\ RaisedAsReported
=============================================================================
