----------------------------- MODULE Connection -----------------------------
(***************************************************************************)
(* One PSC_Connection (connection.c, build with TLS) on its service        *)
(* thread: a socket, a socket that still connects, or one end of a pipe,   *)
(* with or without TLS.  self is the struct; functions that only change    *)
(* the struct map it to the changed one.  What read, write and the TLS     *)
(* library return is chosen.                                               *)
(*                                                                         *)
(* Everything runs on one thread.  pc is "wait" while the service waits    *)
(* for events and "loop" while it handles them, those of others included,  *)
(* until it raises eventsDone; ev is what it still has to raise for this   *)
(* connection, however the connection changed its registration since.  A   *)
(* read leads into the loop that raises dataReceived ("raise") and from    *)
(* there into the application's handler.                                   *)
(***************************************************************************)
EXTENDS Integers, Sequences, FiniteSetsExt, SequencesExt

CONSTANTS WRBUFSZ,     \* size of the write buffer
          NWRITERECS,  \* write requests that can be queued
          RDBUFSZ,     \* opts->rdbufsz
          Scenarios    \* what the connection is and what happens to it, records
                       \* [mode, tls, client, out, in, ops, live]:
                       \*   out  sizes of the data the application may send
                       \*   in   what the peer sends
                       \*   ops  the optional calls the application makes
                       \*   live whether liveness is looked at

\* Every request has something to send.
ConnAssumption ==
    /\ WRBUFSZ \in Nat \ {0} /\ NWRITERECS \in Nat /\ RDBUFSZ \in Nat \ {0}
    /\ \A s \in Scenarios : s.tls \in BOOLEAN /\ s.out \in Seq(Nat \ {0})

VARIABLES self,  \* the struct PSC_Connection
          sc,    \* the scenario
          pc,    \* the function the service thread is in
          ev,    \* readyRead ("rd") and readyWrite ("wr") reported in this round
          net,   \* the peer: bytes still to come (in), bytes it got (wire)
          app    \* what the application did and saw

cvars == <<self, sc, pc, ev, net, app>>

NUL == "nul"
Bytes == {"a", "b", "c", "cr", "lf", NUL}
Loop == [at |-> "loop"]
Wait == [at |-> "wait"]

\* The k-th request sends the bytes <<k, 1>>, <<k, 2>>, ... and has id k.
Payload(k) == [i \in 1 .. sc.out[k] |-> <<k, i>>]

\* PSC_Connection_create: a connecting socket waits, with a timer, to become
\* writable; a TLS server waits, with a timer, for the client's first message.
\* (Without a timer for it the caller gets no connection; one it never had is
\* then closed, which is not followed here: see doaccept_fail of Server.)
PSC_Connection_create(s) ==
    LET connecting == s.mode = "connecting"
        serves == ~connecting /\ s.tls /\ ~s.client
    IN [connectTimer |-> connecting, tlsConnectTimer |-> serves,
        timer |-> IF connecting \/ serves THEN "live" ELSE "none",
        timeouts |-> IF connecting THEN {"connectionTimeout"}
                     ELSE IF serves THEN {"tlsHandshakeTimeout"} ELSE {},
        tls_connect_st |-> IF serves THEN "read" ELSE "no",
        tls_read_st |-> "no", tls_write_st |-> "no", tls_shutdown_st |-> "no",
        tls_readagain |-> FALSE,
        paused |-> 0, handling |-> 0, rdreg |-> ~connecting, wrreg |-> connecting,
        deleteScheduled |-> 0,
        writerecs |-> <<>>, wrbuf |-> <<>>, wrbufpos |-> 0, writenotify |-> <<>>,
        rdbuf |-> [i \in 0 .. RDBUFSZ |-> NUL], rdbufused |-> 0, rdbufpos |-> 0,
        rdtextsave |-> NUL, rdlocator |-> FALSE, rdexpect |-> 0]

ConnInit ==
    /\ sc \in Scenarios
    /\ self = PSC_Connection_create(sc)
    /\ pc = Loop /\ ev = {}
    /\ net = [in |-> sc.in, wire |-> <<>>]
    /\ app = [sent |-> <<>>, confirmed |-> <<>>, received |-> <<>>, given |-> [pos |-> 0, msg |-> <<>>],
              connected |-> 0, closed |-> 0, failed |-> FALSE, freed |-> FALSE, dropped |-> FALSE,
              badfree |-> FALSE]

Live == ~app.freed

-----------------------------------------------------------------------------
(* Functions that change the struct only *)

Pending(s) == s.wrbuf # <<>> \/ s.writerecs # <<>>

wantreadwrite(s) ==
    LET st == {s.tls_connect_st, s.tls_read_st, s.tls_write_st}
    IN [s EXCEPT
          !.wrreg = \/ s.connectTimer
                    \/ "write" \in st
                    \/ /\ s.paused = 0 /\ Pending(s)
                       /\ ~s.tlsConnectTimer /\ s.tls_shutdown_st = "no",
          !.rdreg = /\ s.deleteScheduled = 0
                    /\ "read" \in st \/ (s.paused = 0 /\ s.handling = 0)]

\* Data to be sent delays the deletion; an error forgets it.
Discard(s) == [s EXCEPT !.writerecs = <<>>, !.wrbuf = <<>>]
Failed(s) == [app EXCEPT !.failed = @ \/ Pending(s)]

deleteLater(s) == [s EXCEPT !.rdreg = FALSE, !.deleteScheduled = 1]

\* The closed event, and deletion scheduled; nothing the second time.
PSC_Connection_close(s, a) ==
    IF s.deleteScheduled # 0 THEN [s |-> s, a |-> a]
    ELSE [s |-> deleteLater(s), a |-> [a EXCEPT !.closed = @ + 1]]

Close(s) == LET r == PSC_Connection_close(s, app)
            IN  self' = r.s /\ app' = r.a

\* The ids dataSent is raised for, unless the event was cleaned by a pause.
Raised(s, ids) == IF s.paused # 0 THEN <<>> ELSE ids

-----------------------------------------------------------------------------
(* Writing *)

Data(recs) == FlattenSeq([i \in DOMAIN recs |-> recs[i].data])
Total(recs, n) == Len(Data(SubSeq(recs, 1, n)))

\* The head of dowrite: an empty buffer is filled from the queued requests, as
\* far as it goes; a request that went in completely is due for confirmation at
\* its last byte.
Fill(s) ==
    LET recs == s.writerecs
        whole == {i \in DOMAIN recs : /\ Total(recs, i) <= WRBUFSZ
                                      /\ Total(recs, i - 1) < WRBUFSZ}
        n == Cardinality(whole)
        all == Data(recs)
        rest == SubSeq(recs, n + 1, Len(recs))
        room == WRBUFSZ - Total(recs, n)
    IN  IF recs = <<>> \/ s.wrbuf # <<>> THEN s
        ELSE [s EXCEPT
                !.wrbuf = SubSeq(all, 1, Min({WRBUFSZ, Len(all)})),
                !.writerecs = IF rest = <<>> THEN <<>>
                              ELSE [rest EXCEPT ![1].data =
                                       SubSeq(@, room + 1, Len(@))],
                !.writenotify = [i \in 1 .. n |->
                                    [id |-> recs[i].id, pos |-> Total(recs, i)]]]

\* Confirmations due at wrbufpos, beginning with the first that has an id left.
Due(s) ==
    LET open == {i \in DOMAIN s.writenotify : s.writenotify[i].id # 0}
        first == IF open = {} THEN Len(s.writenotify) + 1 ELSE Min(open)
        upto == {i \in first .. Len(s.writenotify) :
                    \A j \in first .. i : s.writenotify[j].pos <= s.wrbufpos}
    IN  [i \in 1 .. Cardinality(upto) |-> first + i - 1]

Ids(s, is) == LET ids(i) == IF s.writenotify[i].id = 0 THEN <<>> ELSE <<s.writenotify[i].id>>
              IN  FlattenSeq([i \in DOMAIN is |-> ids(is[i])])

\* Mutant: what was written of a buffer is written again.
Written_again(s, n) ==
    [s |-> wantreadwrite(IF n < Len(s.wrbuf) THEN s
                         ELSE [s EXCEPT !.wrbuf = <<>>, !.writenotify = <<>>]),
     ids |-> <<>>]

\* Mutant: after a partial write, the event is not asked for.
Written_unasked(s, n) ==
    LET t == [s EXCEPT !.wrbufpos = @ + n]
    IN  [s |-> IF t.wrbufpos < Len(t.wrbuf) THEN t
               ELSE wantreadwrite([t EXCEPT !.wrbuf = <<>>, !.wrbufpos = 0,
                                            !.writenotify = <<>>]),
         ids |-> <<>>]

\* n bytes were written.  A confirmed id is cleared with TLS only.
Written(s, n) ==
    LET t == [s EXCEPT !.wrbufpos = @ + n]
        ids == Due(t)
        cleared == IF sc.tls
                   THEN [i \in DOMAIN t.writenotify |->
                           IF i \in Range(ids) THEN [t.writenotify[i] EXCEPT !.id = 0]
                           ELSE t.writenotify[i]]
                   ELSE t.writenotify
        done == t.wrbufpos >= Len(t.wrbuf)
    IN  [s |-> IF done
               THEN wantreadwrite([t EXCEPT !.wrbuf = <<>>, !.wrbufpos = 0,
                                            !.writenotify = <<>>])
               ELSE IF sc.tls THEN wantreadwrite([t EXCEPT !.writenotify = cleared])
               ELSE t,
         ids |-> Ids(t, ids)]

dowrite(s0) ==
    LET s == Fill(s0)
        left == Len(s.wrbuf) - s.wrbufpos
    IN  \/ \E n \in (IF left = 0 THEN {0} ELSE 1 .. left) :
              LET r == Written([s EXCEPT !.tls_write_st = "no"], n)
              IN /\ self' = r.s
                 /\ net' = [net EXCEPT !.wire = @ \o
                              SubSeq(s.wrbuf, s.wrbufpos + 1, s.wrbufpos + n)]
                 /\ app' = [app EXCEPT !.confirmed = @ \o Raised(s, r.ids)]
        \/ /\ \E st \in IF sc.tls THEN {"read", "write"} ELSE {"no"} :
                 self' = wantreadwrite([s EXCEPT !.tls_write_st = st])
           /\ UNCHANGED <<net, app>>
        \/ /\ LET r == PSC_Connection_close(Discard(s), Failed(s))
              IN self' = (IF sc.tls THEN r.s ELSE wantreadwrite(r.s)) /\ app' = r.a
           /\ UNCHANGED net

PSC_Connection_sendAsync ==
    LET k == Len(app.sent) + 1
    IN  /\ Live /\ pc.at \in {"loop", "handler"} /\ k <= Len(sc.out)
        /\ sc.mode # "piperd" /\ self.deleteScheduled = 0
        /\ ~self.connectTimer /\ ~self.tlsConnectTimer
        /\ self.tls_shutdown_st = "no"
        /\ Len(self.writerecs) < NWRITERECS
        /\ self' = [self EXCEPT !.writerecs = Append(@, [id |-> k, data |-> Payload(k)])]
        /\ app' = [app EXCEPT !.sent = Append(@, k)]
        /\ UNCHANGED <<sc, pc, net>>

-----------------------------------------------------------------------------
(* Connecting *)

\* Freeing a timer that is gone, or using it, is recorded.
DestroyTimer(s, a) == [s |-> [s EXCEPT !.timer = "freed", !.timeouts = {}],
                       a |-> [a EXCEPT !.badfree = @ \/ s.timer # "live"]]

dohandshake(s0, a0) ==
    LET s == [s0 EXCEPT !.tls_connect_st = "no"]
        d == DestroyTimer(s, a0)
        t == [d.s EXCEPT !.tlsConnectTimer = FALSE]
    IN  /\ \/ /\ self' = wantreadwrite(t)
              /\ app' = IF sc.client THEN [d.a EXCEPT !.connected = @ + 1] ELSE d.a
           \/ \E r \in {PSC_Connection_close(t, d.a)} :   \* failed, or not verified
                 self' = r.s /\ app' = r.a
           \/ \E st \in {"read", "write"} :
                 /\ self' = wantreadwrite([s EXCEPT !.tls_connect_st = st])
                 /\ app' = a0
        /\ pc' = Loop
        /\ UNCHANGED <<sc, net>>

\* writeConnection while the connect timer is set: the socket is connected, or
\* failed.  With TLS the timer goes on as the handshake's timer.
connectDone ==
    /\ self.connectTimer
    /\ \/ Close(self) /\ pc' = Loop /\ UNCHANGED <<sc, net>>
       \/ /\ sc.tls
          /\ dohandshake([self EXCEPT !.tlsConnectTimer = TRUE,
                                      !.timeouts = {"tlsHandshakeTimeout"}],
                         [app EXCEPT !.badfree = @ \/ self.timer # "live"])
       \/ /\ ~sc.tls
          /\ LET d == DestroyTimer(self, app)
             IN /\ self' = wantreadwrite([d.s EXCEPT !.connectTimer = FALSE])
                /\ app' = [d.a EXCEPT !.connected = @ + 1]
          /\ pc' = Loop
          /\ UNCHANGED <<sc, net>>

\* connectionTimeout or tlsHandshakeTimeout, whichever is registered.
Timeout ==
    /\ Live /\ pc = Loop /\ self.timer = "live" /\ self.timeouts # {}
    /\ Close(self)
    /\ pc' = Loop
    /\ UNCHANGED <<sc, net>>

-----------------------------------------------------------------------------
(* Reading *)

Room(s) == RDBUFSZ - s.rdbufused

\* doread: what arrived goes behind what is in the buffer.  A read without
\* room returns 0, as at the end of the stream.
Got(s, n) ==
    [s EXCEPT !.rdbuf = [i \in 0 .. RDBUFSZ |->
                           IF i = s.rdbufused + n THEN NUL
                           ELSE IF i \in s.rdbufused .. s.rdbufused + n - 1
                                THEN net.in[i - s.rdbufused + 1] ELSE s.rdbuf[i]],
              !.rdbufused = @ + n, !.tls_read_st = "no"]

doread(s0) ==
    LET s == [s0 EXCEPT !.tls_readagain = FALSE]
    IN  \/ /\ sc.mode # "pipewr"
           /\ \E n \in 1 .. Min({Room(s), Len(net.in)}) :
                 /\ self' = Got(s, n)
                 /\ net' = [net EXCEPT !.in = SubSeq(@, n + 1, Len(@))]
                 /\ pc' = [at |-> "raise", by |-> "doread", full |-> n = Room(s)]
           /\ UNCHANGED <<sc, app>>
        \/ /\ \/ /\ sc.tls
                 /\ \E st \in {"read", "write"} :
                       self' = wantreadwrite([s EXCEPT !.tls_read_st = st])
              \/ ~sc.tls /\ sc.mode # "pipewr" /\ Room(s) > 0 /\ self' = s
           /\ pc' = Loop
           /\ UNCHANGED <<sc, net, app>>
        \/ /\ LET r == PSC_Connection_close(Discard(s), Failed(s))
              IN self' = r.s /\ app' = r.a
           /\ pc' = Loop
           /\ UNCHANGED <<sc, net>>

\* The C string at p.
Str(s, p) ==
    LET end == Min({i \in p .. RDBUFSZ : s.rdbuf[i] = NUL} \cup {RDBUFSZ})
    IN  [i \in 1 .. end - p |-> s.rdbuf[p + i - 1]]

\* The length of the line str begins with, 0 if none ends in it.
locateeol(str) ==
    LET cr == {i \in DOMAIN str : str[i] = "cr"}
        lf == {i \in DOMAIN str : str[i] = "lf"}
        crlf == {i \in cr : i + 1 \in lf}
    IN  CASE crlf # {} -> Min(crlf) + 1
          [] crlf = {} /\ lf # {} -> Min(lf)
          [] crlf = {} /\ lf = {} /\ cr # {} -> Min(cr)
          [] OTHER -> 0

\* The head of raisereceivedevents' loop: a byte that was replaced to end a
\* text is put back, and in text mode NUL bytes are skipped.
Restored(s) ==
    LET t == IF s.rdtextsave = NUL THEN s
             ELSE [s EXCEPT !.rdbuf[s.rdbufpos] = s.rdtextsave, !.rdtextsave = NUL]
    IN  IF ~t.rdlocator THEN t
        ELSE [t EXCEPT !.rdbufpos =
                Min({p \in @ .. t.rdbufused : p = t.rdbufused \/ t.rdbuf[p] # NUL})]

\* The length of the next message in the buffer, or -1: wait for more.
MessageLen(s) ==
    LET left == s.rdbufused - s.rdbufpos
        str == Str(s, s.rdbufpos)
        eol == locateeol(str)
    IN  CASE s.rdlocator /\ eol # 0 -> Min({eol, left})
          [] s.rdlocator /\ eol = 0 ->
                IF s.rdbufpos # 0 \/ s.rdbufused < RDBUFSZ THEN -1 ELSE Len(str)
          [] ~s.rdlocator /\ s.rdexpect # 0 -> IF s.rdexpect > left THEN -1 ELSE s.rdexpect
          [] OTHER -> left

Reset(s) == [s EXCEPT !.rdbufused = 0, !.rdbufpos = 0]

\* Mutant: the rest is moved, the position stays.
Compacted_stays(s) ==
    LET left == s.rdbufused - s.rdbufpos
    IN  IF s.rdbufused # 0 /\ (s.rdlocator \/ left < s.rdexpect)
        THEN [s EXCEPT !.rdbuf = [i \in 0 .. RDBUFSZ |->
                                    IF i < left THEN s.rdbuf[i + s.rdbufpos]
                                    ELSE s.rdbuf[i]]]
        ELSE s

\* What is left of an incomplete message moves to the start of the buffer.
Compacted(s) ==
    LET left == s.rdbufused - s.rdbufpos
    IN  IF s.rdbufused # 0 /\ (s.rdlocator \/ left < s.rdexpect)
        THEN [s EXCEPT !.rdbuf = [i \in 0 .. RDBUFSZ |->
                                    IF i < left THEN s.rdbuf[i + s.rdbufpos]
                                    ELSE IF i = left THEN NUL ELSE s.rdbuf[i]],
                       !.rdbufused = left, !.rdbufpos = 0]
        ELSE s

\* One round of the loop in raisereceivedevents.  A pause has cleaned the event:
\* nobody gets the message then.
raisereceivedevents ==
    LET s == Restored(self)
        len == MessageLen(s)
        text == s.rdlocator
        ended == [s EXCEPT !.rdtextsave = s.rdbuf[s.rdbufpos + len],
                           !.rdbuf[s.rdbufpos + len] = NUL]
        msg == [i \in 1 .. len |-> s.rdbuf[s.rdbufpos + i - 1]]
    IN  /\ Live /\ pc.at = "raise"
        /\ self.handling = 0 /\ self.rdbufused # 0
        /\ IF text /\ s.rdbufpos = s.rdbufused
           THEN self' = Reset(s) /\ UNCHANGED <<pc, app>>
           ELSE IF len = -1
           THEN self' = s /\ pc' = [pc EXCEPT !.at = "done"] /\ UNCHANGED app
           ELSE /\ self' = IF text THEN ended ELSE s
                /\ pc' = [at |-> "handler", by |-> pc.by, full |-> pc.full, len |-> len]
                /\ app' = IF s.paused # 0 THEN [app EXCEPT !.dropped = TRUE]
                          ELSE [app EXCEPT !.received = @ \o msg,
                                           !.given = [pos |-> s.rdbufpos, msg |-> msg]]
        /\ UNCHANGED <<sc, net>>

\* The handler returns, and the message is taken off the buffer.
handlerReturns ==
    LET s == [self EXCEPT !.rdbufpos = @ + pc.len]
    IN  /\ Live /\ pc.at = "handler"
        /\ self' = IF s.rdbufpos = s.rdbufused THEN Reset(s) ELSE s
        /\ pc' = [at |-> "raise", by |-> pc.by, full |-> pc.full]
        /\ UNCHANGED <<sc, net, app>>

\* The loop is over.  doread goes on reading if the TLS library may hold more
\* data and the application does not hold the buffer; when the application
\* gives it back, PSC_Connection_confirmDataReceived reads again as well.
raiseDone ==
    LET s == [Compacted(self) EXCEPT !.tls_readagain = @ \/ (sc.tls /\ pc.full)]
        again == s.tls_readagain /\ (pc.by = "confirm" \/ s.handling = 0)
    IN  /\ Live
        /\ \/ pc.at = "done"
           \/ pc.at = "raise" /\ (self.handling # 0 \/ self.rdbufused = 0)
        /\ self' = IF again /\ pc.by = "doread" THEN s ELSE wantreadwrite(s)
        /\ pc' = IF again THEN [at |-> "again"] ELSE Loop
        /\ UNCHANGED <<sc, net, app>>

readAgain == Live /\ pc.at = "again" /\ doread(self)

-----------------------------------------------------------------------------
(* Deleting *)

\* Only what is scheduled for deletion by deleteConnection is freed at once;
\* every id that is left is confirmed.
PSC_Connection_destroy(s) ==
    LET left == Ids(s, [i \in DOMAIN s.writenotify |-> i])
                \o [i \in DOMAIN s.writerecs |-> s.writerecs[i].id]
        a == [app EXCEPT !.confirmed = @ \o Raised(s, left)]
        ntimers == (IF s.connectTimer THEN 1 ELSE 0) + (IF s.tlsConnectTimer THEN 1 ELSE 0)
    IN  IF s.deleteScheduled = 1 THEN self' = s /\ app' = a
        ELSE /\ self' = [s EXCEPT !.rdreg = @ /\ s.deleteScheduled # 0, !.wrreg = FALSE,
                                  !.timer = IF ntimers = 0 THEN @ ELSE "freed"]
             /\ app' = [a EXCEPT !.closed = IF s.deleteScheduled = 0 THEN @ + 1 ELSE @,
                                 !.failed = @ \/ (s.deleteScheduled = 0 /\ Pending(s)),
                                 !.freed = TRUE,
                                 !.badfree = \/ @ \/ ntimers = 2
                                             \/ ntimers = 1 /\ s.timer # "live"]

\* With TLS the peer's answer to the shutdown is waited for.
deleteConnection ==
    IF Pending(self) THEN UNCHANGED <<self, app>>
    ELSE \/ PSC_Connection_destroy([self EXCEPT !.deleteScheduled = 2])
         \/ /\ sc.tls /\ ~self.connectTimer /\ self.tls_connect_st = "no"
            /\ self' = [self EXCEPT !.tls_shutdown_st = "read", !.rdreg = TRUE]
            /\ UNCHANGED app

-----------------------------------------------------------------------------
(* What the service loop does.  A paused connection handles no readyRead and *)
(* no eventsDone event, a pipe to read from no readyWrite event.             *)

Registered == (IF self.rdreg THEN {"rd"} ELSE {}) \cup (IF self.wrreg THEN {"wr"} ELSE {})

\* The wait returns: for this connection, or something else.
wake == /\ Live /\ pc = Wait /\ pc' = Loop
        /\ ev' \in SUBSET Registered
        /\ UNCHANGED <<self, sc, net, app>>

\* An event that was reported and has no handler any more.
unhandled ==
    /\ Live /\ pc = Loop
    /\ \E e \in ev : /\ (e = "rd" /\ self.paused # 0) \/ (e = "wr" /\ sc.mode = "piperd")
                     /\ ev' = ev \ {e}
    /\ UNCHANGED <<self, sc, pc, net, app>>

\* readyRead, which comes after readyWrite.
readConnection ==
    /\ Live /\ pc = Loop /\ ev = {"rd"} /\ self.paused = 0
    /\ ev' = {}
    /\ CASE self.tls_shutdown_st = "read" ->
               deleteConnection /\ pc' = Loop /\ UNCHANGED <<sc, net>>
         [] self.tls_shutdown_st = "no" /\ self.tls_connect_st = "read" ->
               dohandshake(self, app)
         [] /\ self.tls_shutdown_st = "no" /\ self.tls_connect_st # "read"
            /\ self.tls_write_st = "read" -> dowrite(self) /\ pc' = Loop /\ UNCHANGED sc
         [] OTHER ->
               IF self.handling # 0
               THEN /\ self' = wantreadwrite([self EXCEPT !.tls_read_st = "no"])
                    /\ pc' = Loop
                    /\ UNCHANGED <<sc, net, app>>
               ELSE doread(self)

\* readyWrite.
writeConnection ==
    /\ Live /\ pc = Loop /\ "wr" \in ev /\ sc.mode # "piperd"
    /\ ev' = ev \ {"wr"}
    /\ \/ connectDone
       \/ /\ ~self.connectTimer
          /\ CASE self.tls_connect_st = "write" -> dohandshake(self, app)
               [] self.tls_connect_st # "write" /\ self.tls_read_st = "write" ->
                     doread(self)
               [] OTHER ->
                     IF ~Pending(self)
                     THEN /\ self' = wantreadwrite([self EXCEPT !.tls_write_st = "no"])
                          /\ pc' = Loop
                          /\ UNCHANGED <<sc, net, app>>
                     ELSE dowrite(self) /\ pc' = Loop /\ UNCHANGED sc

\* eventsDone: data queued since is written without waiting for the event, ...
tryWrite ==
    /\ Live /\ pc = Loop /\ ev = {}
    /\ IF self.paused = 0 /\ sc.mode # "piperd" /\ ~self.wrreg /\ Pending(self)
       THEN dowrite(self) ELSE UNCHANGED <<self, net, app>>
    /\ pc' = [at |-> "delete"] /\ UNCHANGED sc

\* ... and a closed connection is deleted.  Then the service waits again.
eventsDone_delete ==
    /\ Live /\ pc.at = "delete"
    /\ IF self.deleteScheduled = 1 THEN deleteConnection ELSE UNCHANGED <<self, app>>
    /\ pc' = Wait
    /\ UNCHANGED <<sc, net>>

-----------------------------------------------------------------------------
(* What the application calls, from a dataReceived handler or elsewhere *)

May(op) == Live /\ op \in sc.ops /\ pc.at \in {"loop", "handler"}

PSC_Connection_pause ==
    /\ May("pause") /\ self.paused < 2
    /\ self' = LET s == [self EXCEPT !.paused = @ + 1]
               IN  IF self.paused = 0 THEN wantreadwrite(s) ELSE s
    /\ UNCHANGED <<sc, pc, net, app>>

PSC_Connection_resume ==
    /\ May("pause") /\ self.paused # 0
    /\ self' = LET s == [self EXCEPT !.paused = @ - 1]
               IN  IF s.paused = 0 THEN wantreadwrite(s) ELSE s
    /\ UNCHANGED <<sc, pc, net, app>>

\* The handler keeps the buffer; paused, there is no handler.
PSC_EADataReceived_markHandling ==
    /\ May("mark") /\ pc.at = "handler" /\ self.paused = 0 /\ self.handling < 2
    /\ self' = [self EXCEPT !.handling = @ + 1]
    /\ UNCHANGED <<sc, pc, net, app>>

\* Called once the handler that keeps the buffer has returned.
PSC_Connection_confirmDataReceived ==
    /\ May("mark") /\ pc = Loop /\ self.handling # 0
    /\ self' = [self EXCEPT !.handling = @ - 1]
    /\ pc' = IF self.handling = 1 THEN [at |-> "raise", by |-> "confirm", full |-> FALSE]
             ELSE pc
    /\ UNCHANGED <<sc, net, app>>

PSC_Connection_receiveBinary(expected) ==
    /\ May("binary") /\ expected <= RDBUFSZ
    /\ self' = [self EXCEPT !.rdlocator = FALSE, !.rdexpect = expected]
    /\ UNCHANGED <<sc, pc, net, app>>

PSC_Connection_receiveLine ==
    /\ May("line")
    /\ self' = [self EXCEPT !.rdlocator = TRUE]
    /\ UNCHANGED <<sc, pc, net, app>>

UserClose == May("close") /\ Close(self) /\ UNCHANGED <<sc, pc, net>>

\* By the server's connection pool.
destroyPoolConn ==
    /\ May("destroy") /\ pc = Loop /\ self.deleteScheduled = 0
    /\ PSC_Connection_destroy(self)
    /\ UNCHANGED <<sc, pc, net>>

Raising == raisereceivedevents \/ handlerReturns \/ raiseDone \/ readAgain
EventsDone == tryWrite \/ eventsDone_delete
Handling == readConnection \/ writeConnection \/ unhandled
UserCalls == \/ PSC_Connection_sendAsync \/ PSC_Connection_pause
             \/ PSC_Connection_resume \/ PSC_EADataReceived_markHandling
             \/ PSC_Connection_confirmDataReceived
             \/ \E n \in 0 .. RDBUFSZ : PSC_Connection_receiveBinary(n)
             \/ PSC_Connection_receiveLine \/ UserClose \/ destroyPoolConn

ConnNext == \/ wake \/ Handling
            \/ (Raising \/ EventsDone \/ Timeout \/ UserCalls) /\ UNCHANGED ev

ConnSpec == ConnInit /\ [][ConnNext]_cvars

-----------------------------------------------------------------------------
(* Properties *)

St == {"no", "read", "write"}
ConnTypeOK ==
    /\ sc \in Scenarios
    /\ self.connectTimer \in BOOLEAN /\ self.tlsConnectTimer \in BOOLEAN
    /\ self.timer \in {"none", "live", "freed"}
    /\ {self.tls_connect_st, self.tls_read_st, self.tls_write_st,
        self.tls_shutdown_st} \subseteq St
    /\ self.paused \in 0 .. 2 /\ self.handling \in 0 .. 2
    /\ self.deleteScheduled \in 0 .. 2
    /\ Len(self.writerecs) <= NWRITERECS
    /\ Len(self.wrbuf) <= WRBUFSZ /\ self.wrbufpos \in 0 .. WRBUFSZ
    /\ self.rdbuf \in [0 .. RDBUFSZ -> Bytes]
    /\ self.rdbufused \in 0 .. RDBUFSZ /\ self.rdbufpos \in 0 .. self.rdbufused

AllSent == FlattenSeq([i \in DOMAIN app.sent |-> Payload(app.sent[i])])
Unwritten == SubSeq(self.wrbuf, self.wrbufpos + 1, Len(self.wrbuf))
             \o Data(self.writerecs)

\* The peer gets what was passed to PSC_Connection_sendAsync, in order and
\* without gaps, however requests are cut at the end of the write buffer and
\* whatever part of the buffer each write takes (dowrite).
WireInOrder == /\ IsPrefix(net.wire, AllSent)
               /\ ~app.failed => net.wire \o Unwritten = AllSent

\* While the connection lives, an id comes back through dataSent only after
\* the last byte of its request was written.
ConfirmedMeansWritten ==
    Live => \A k \in Range(app.confirmed) :
               <<k, sc.out[k]>> \in Range(net.wire)

\* No request is confirmed twice.
ConfirmedOnce == IsInjective(app.confirmed)

\* PSC_Connection_close lets queued data go out first: unless an error or
\* PSC_Connection_destroy took it away, a connection is deleted only after
\* everything was written.
FlushedBeforeFree == app.freed /\ ~app.failed => net.wire = AllSent

InBuffer ==
    LET from == self.rdbufpos + (IF pc.at = "handler" THEN pc.len ELSE 0)
        byte(i) == IF i = from /\ self.rdtextsave # NUL THEN self.rdtextsave
                   ELSE self.rdbuf[i]
    IN  [k \in 1 .. self.rdbufused - from |-> byte(from + k - 1)]
NoNul(s) == SelectSeq(s, LAMBDA b : b # NUL)

\* The messages of dataReceived, what is in the buffer and what is still to
\* come make up the peer's stream: nothing is lost, repeated or reordered by
\* cutting it into messages, ending texts in place, moving the rest to the
\* start of the buffer or changing the receive mode (NUL bytes aside, which
\* text mode skips, and what a pause made the loop drop).
ReceivedInOrder ==
    ~app.dropped => NoNul(app.received \o InBuffer \o net.in) = NoNul(sc.in)

\* A read is only ever waited for with room in the buffer: a read without room
\* would be taken for the end of the stream, and close the connection.
RoomToRead == pc = Wait /\ self.rdreg /\ self.handling = 0 => Room(self) > 0

\* While a handler holds the data (PSC_EADataReceived_markHandling), the
\* buffer keeps it.
HandledDataIntact ==
    self.handling # 0 /\ pc.at \in {"loop", "wait"} =>
        \A i \in DOMAIN app.given.msg :
           self.rdbuf[app.given.pos + i - 1] = app.given.msg[i]

\* Once the connected event was raised, data can be sent.
ReadyWhenConnected == app.connected # 0 /\ Live =>
                        ~self.connectTimer /\ ~self.tlsConnectTimer

\* The closed event is raised once, by whichever of timeout, error, end of
\* stream, application and pool comes first, and before the end.
ClosedOnce == app.closed <= 1 /\ (app.freed => app.closed = 1)

\* The peer gets the data in the order it was given, none twice; dataSent is raised
\* only for data that was written; a closed connection is freed after its data was
\* written, and closed is raised once.
WrittenInOrder == WireInOrder /\ ConfirmedMeansWritten /\ FlushedBeforeFree /\ ClosedOnce

\* The application gets what the peer sent, in order, and a connection that waits
\* for data has room for it.
ReadInOrder == ReceivedInOrder /\ RoomToRead

-----------------------------------------------------------------------------
(* The inductive invariant of the proof of WrittenInOrder *)

OutBytes == Nat \X Nat

\* A queued request: its data, or the rest of it, ends with its last byte.
WriteRecords == {r \in [id : 1 .. Len(sc.out), data : Seq(OutBytes)] :
                   r.data # <<>> /\ r.data[Len(r.data)] = <<r.id, sc.out[r.id]>>}

ConnFields == DOMAIN PSC_Connection_create([mode |-> "normal", tls |-> FALSE, client |-> FALSE])
AppFields == {"sent", "confirmed", "received", "given", "connected", "closed", "failed",
              "freed", "dropped", "badfree"}

\* A request to be confirmed, at its last byte in the buffer b.
NoteOK(r, b) == /\ r.id \in 1 .. Len(sc.out) /\ r.pos > 0
                /\ b # <<>> => r.pos <= Len(b) /\ b[r.pos] = <<r.id, sc.out[r.id]>>

\* What is queued and in the write buffer s; what was written of it, w contains.
BufferOK(s, w) ==
    /\ DOMAIN s = ConnFields
    /\ s.wrbuf \in Seq(OutBytes) /\ s.wrbufpos \in Nat
    /\ s.writerecs \in Seq(WriteRecords) /\ s.writenotify \in Seq([id : Nat, pos : Nat])
    /\ \A i \in DOMAIN s.writenotify :
          s.writenotify[i].id # 0 => NoteOK(s.writenotify[i], s.wrbuf)
    /\ s.wrbuf # <<>> => /\ s.wrbufpos <= Len(s.wrbuf)
                         /\ \A i \in 1 .. s.wrbufpos : s.wrbuf[i] \in Range(w)
    /\ s.wrbuf = <<>> => s.wrbufpos = 0 \/ s.writerecs = <<>>

LeftIn(s) == SubSeq(s.wrbuf, s.wrbufpos + 1, Len(s.wrbuf)) \o Data(s.writerecs)

\* Everything sent is on the wire or still in s, unless an error dropped it.
StreamOK(s) == IF app.failed THEN IsPrefix(net.wire, AllSent)
               ELSE net.wire \o LeftIn(s) = AllSent

\* The requests whose last byte was written.
Complete == {k \in 1 .. Len(sc.out) : <<k, sc.out[k]>> \in Range(net.wire)}

ConnInv ==
    /\ sc \in Scenarios /\ DOMAIN net = {"in", "wire"} /\ DOMAIN app = AppFields
    /\ net.wire \in Seq(OutBytes) /\ app.sent \in Seq(1 .. Len(sc.out))
    /\ app.failed \in BOOLEAN /\ app.freed \in BOOLEAN /\ app.closed \in Nat
    /\ BufferOK(self, net.wire) /\ StreamOK(self)
    /\ Live => /\ app.confirmed \in Seq(Complete)
               /\ app.failed => ~Pending(self) /\ self.deleteScheduled # 0
               /\ app.closed = IF self.deleteScheduled = 0 THEN 0 ELSE 1
               /\ self.tls_shutdown_st # "no" => self.deleteScheduled # 0
               /\ self.deleteScheduled = 0 /\ self.wrbuf = <<>> => self.wrbufpos = 0
    /\ app.freed => app.closed = 1 /\ (app.failed \/ ~Pending(self))

-----------------------------------------------------------------------------
(* Liveness *)

\* Liveness is about the connections that send and do nothing else.
Sends == sc.live

\* What was passed to PSC_Connection_sendAsync is written unless the connection
\* fails or is paused: with TLS without waiting for events of others, without it
\* if the service gets other events again and again.
QueuedIsWritten == Sends /\ Pending(self) ~> ~Pending(self) \/ self.paused # 0 \/ app.freed

\* A closed connection is deleted in the end, unless it is paused: after its
\* data was written and its peer agreed to the end.
ClosedIsFreed == Sends /\ app.closed # 0 ~> app.freed \/ self.paused # 0

\* The service thread runs; a socket that is waited for becomes ready to be
\* written, and with TLS to be read when the library waits for the peer; and
\* writes and the end of TLS make progress when tried again and again.
TLSWaits == "read" \in {self.tls_connect_st, self.tls_write_st, self.tls_shutdown_st}
Awaited == Registered \ (IF TLSWaits THEN {} ELSE {"rd"})
Advance == Pending(self) /\ (~Pending(self)' \/ net'.wire # net.wire)
FreesNow == ~Pending(self) /\ app'.freed
ConnFairness ==
    /\ WF_cvars(Sends /\ (Raising \/ EventsDone) /\ UNCHANGED ev)
    /\ WF_cvars(Sends /\ Handling)
    /\ SF_cvars(Sends /\ wake /\ Awaited # {} /\ ev' = Awaited)
    /\ SF_cvars(Sends /\ (Handling \/ (tryWrite /\ UNCHANGED ev)) /\ Advance)
    /\ SF_cvars(Sends /\ (Handling \/ (eventsDone_delete /\ UNCHANGED ev)) /\ FreesNow)

\* Without TLS, a write of a part of the buffer by tryWrite asks for no write event:
\* the rest is tried again when an event of something else ends the wait.  The code
\* does not bring one about, so this is not among the fairness of its threads.
OthersWake == WF_cvars(Sends /\ ~sc.tls /\ wake)

ConnFairSpec == ConnSpec /\ ConnFairness

====
