------------------------------ MODULE Client ------------------------------
(***************************************************************************)
(* Creating connections as a client (client.c): the addresses a name       *)
(* resolves to are tried in order, leaving out the blacklisted ones; this  *)
(* is done at once, or, with PSC_Connection_createTcpClientAsync, by a job *)
(* of the thread pool and a callback.  Requests share one options object,  *)
(* the blacklist and the TLS context.  All steps but doResolve are made on *)
(* one service thread.                                                     *)
(***************************************************************************)
EXTENDS Naturals, FiniteSets, SequencesExt

CONSTANTS Requests,       \* client connections the user asks for, one at a time each
          Addrs,          \* the addresses that can be connected to
          Results,        \* what a name may resolve to: sequences of addresses
          ProtoOf,        \* the protocol of each address
          Options,        \* the options objects: [tls, cert, proto, hits]
          BLACKLISTSIZE,
          NoAddr

ClientAssumption == /\ IsFiniteSet(Requests) /\ NoAddr \notin Addrs
                    /\ BLACKLISTSIZE \in Nat \ {0}
                    /\ \A o \in Options : o.hits \in Nat
                    /\ Results \subseteq Seq(Addrs)

VARIABLES opts,       \* the struct PSC_TcpClientOpts
          blacklist,  \* BLACKLISTSIZE entries
          tls_ctx,    \* [made, ref]: the context and tls_ctx_ref
          req,        \* per request: what it has got so far
          owed        \* history: how often each address is still to be avoided,
                      \* and whether it was avoided, or not, against that

clvars == <<opts, blacklist, tls_ctx, req, owed>>

Unlisted == [addr |-> NoAddr, hits |-> 0]
NoRequest == [at |-> "idle", res0 |-> <<>>, cert |-> "none", addr |-> NoAddr,
              failed |-> {}, calls |-> 0]

ClientInit ==
    /\ \E o \in Options : opts = [o |-> o, refcnt |-> 1, user |-> TRUE]
    /\ blacklist = [i \in 1 .. BLACKLISTSIZE |-> Unlisted]
    /\ tls_ctx = [made |-> FALSE, ref |-> 0]
    /\ req = [r \in Requests |-> NoRequest]
    /\ owed = [hits |-> [a \in Addrs |-> 0], wrong |-> FALSE]

-----------------------------------------------------------------------------
(* The blacklist *)

\* The first free entry is used; with none, nothing happens.
PSC_Connection_blacklistAddress(hits, a) ==
    LET free == {i \in DOMAIN blacklist : blacklist[i].addr = NoAddr}
    IN  IF free = {} THEN UNCHANGED <<blacklist, owed>>
        ELSE /\ blacklist' = [blacklist EXCEPT ![Min(free)] = [addr |-> a, hits |-> hits]]
             /\ owed' = [owed EXCEPT !.hits[a] = Max({@, hits})]

\* blacklistcheck on an address that is listed: every entry of it counts the
\* hit, and goes with the last one.
Hit(bl, a) == [i \in DOMAIN bl |->
                 IF bl[i].addr # a THEN bl[i]
                 ELSE IF bl[i].hits = 1 THEN Unlisted ELSE [bl[i] EXCEPT !.hits = @ - 1]]

-----------------------------------------------------------------------------
(* Connecting *)

\* One address: s is the state of the loop, out[a] what socket and connect give.
\* failed are the addresses that were considered in vain; with a descriptor too
\* large for the service no other address would do.
Skip(s, a) == [s EXCEPT !.bl = Hit(@, a), !.failed = @ \cup {a},
                        !.owed.hits[a] = IF @ = 0 THEN 0 ELSE @ - 1,
                        !.owed.wrong = @ \/ s.owed.hits[a] = 0]

WrongProto(a) == opts.o.proto # "any" /\ ProtoOf[a] # opts.o.proto
Listed(s, a) == \E i \in DOMAIN s.bl : s.bl[i].addr = a
Connected(s, a) == [s EXCEPT !.left = TRUE, !.addr = a,
                             !.owed.wrong = @ \/ s.owed.hits[a] # 0]

\* Mutant: the loop ends with the first address that fails.
TryAddr_break(s, a, out) ==
    IF s.left \/ WrongProto(a) THEN s
    ELSE IF Listed(s, a) THEN Skip(s, a)
    ELSE IF out[a] = "ok" THEN Connected(s, a)
    ELSE [s EXCEPT !.left = TRUE, !.failed = @ \cup {a}]

TryAddr(s, a, out) ==
    IF s.left \/ WrongProto(a) THEN s
    ELSE IF Listed(s, a) THEN Skip(s, a)
    ELSE CASE out[a] = "ok"      -> Connected(s, a)
           [] out[a] = "fails"   -> [s EXCEPT !.failed = @ \cup {a}]
           [] out[a] = "invalid" -> [s EXCEPT !.left = TRUE, !.failed = Addrs]

\* Mutant: the context is not counted for another connection.
gettlsctx_shared == tls_ctx' = [made |-> TRUE, ref |-> IF tls_ctx.made THEN tls_ctx.ref
                                                       ELSE tls_ctx.ref + 1]

\* A context can be had (without one the connection is made without TLS, and still
\* drops a reference in the end).
gettlsctx == tls_ctx' = [made |-> TRUE, ref |-> tls_ctx.ref + 1]

PSC_Connection_unreftlsctx ==
    tls_ctx' = IF tls_ctx.ref = 1 THEN [made |-> FALSE, ref |-> 0]
               ELSE [tls_ctx EXCEPT !.ref = @ - 1]

\* The loop over the addresses: addr is the one connected to, if any.
TryFirst == [bl |-> blacklist, owed |-> owed, left |-> FALSE, addr |-> NoAddr, failed |-> {}]
TryAll(res0, out) ==
    LET tried[i \in 0 .. Len(res0)] ==
            IF i = 0 THEN TryFirst ELSE TryAddr(tried[i - 1], res0[i], out)
    IN  tried[Len(res0)]

\* The connection takes the certificate and the key; without one they are freed.
\* (PSC_Connection_create makes one: without a timer for it, it returns NULL, which is
\* not looked at.)
createFromAddrinfo(r, res0, cert, calls) ==
    \E out \in [Addrs -> {"ok", "fails", "invalid"}] :
       LET s == TryAll(res0, out)
           ok == s.addr # NoAddr
           c == IF cert = "read" THEN "freed" ELSE cert
       IN  /\ blacklist' = s.bl
           /\ owed' = s.owed
           /\ req' = [req EXCEPT ![r] =
                 IF ok THEN [NoRequest EXCEPT !.at = "connecting", !.addr = s.addr,
                                              !.cert = c, !.calls = calls]
                 ELSE [NoRequest EXCEPT !.at = "failed", !.res0 = res0, !.failed = s.failed,
                                        !.cert = c, !.calls = calls]]
           /\ IF ok /\ opts.o.tls THEN gettlsctx ELSE UNCHANGED tls_ctx

-----------------------------------------------------------------------------
(* Requests *)

\* fetchCert: the certificate after it, and whether it succeeded.  A key that
\* cannot be read leaves a pointer to the certificate that was freed.
fetchCert == IF ~opts.o.cert THEN {[cert |-> "none", ok |-> TRUE]}
             ELSE {[cert |-> "read", ok |-> TRUE], [cert |-> "none", ok |-> FALSE],
                   [cert |-> "freed", ok |-> FALSE]}

\* The names a request may resolve to; none is an error.
resolveAddress == Results \cup {<<>>}

\* A pointer to something freed is freed again.
Freed(cert) == CASE cert = "read" -> "freed" [] cert = "freed" -> "twice" [] OTHER -> cert

PSC_Connection_createTcpClient(r) ==
    /\ opts.user /\ req[r].at = "idle"
    /\ \E c \in fetchCert, res0 \in resolveAddress :
          IF c.ok /\ res0 # <<>> THEN createFromAddrinfo(r, res0, c.cert, 0)
          ELSE /\ req' = [req EXCEPT ![r].at = "failed",
                                     ![r].cert = IF c.ok THEN Freed(c.cert) ELSE c.cert]
               /\ UNCHANGED <<blacklist, tls_ctx, owed>>
    /\ UNCHANGED opts

\* The result of PSC_ThreadPool_enqueue is not looked at: without room in the queue
\* the request is lost, with its hold on the options.
PSC_Connection_createTcpClientAsync(r) ==
    /\ opts.user /\ req[r].at = "idle"
    /\ \E at \in {"queued", "lost"} : req' = [req EXCEPT ![r].at = at]
    /\ opts' = [opts EXCEPT !.refcnt = @ + 1]
    /\ UNCHANGED <<blacklist, tls_ctx, owed>>

\* On a pool thread.  Nobody else has the job, and it has no timeout: it is not canceled.
doResolve(r) ==
    /\ req[r].at = "queued"
    /\ \E c \in fetchCert, res0 \in resolveAddress :
          req' = [req EXCEPT ![r].at = "resolved", ![r].cert = c.cert,
                             ![r].res0 = IF c.ok THEN res0 ELSE <<>>]
    /\ UNCHANGED <<opts, blacklist, tls_ctx, owed>>

PSC_TcpClientOpts_destroy == [opts EXCEPT !.refcnt = @ - 1]

\* The job has finished; the callback gets the connection or NULL.
clientResolveDone(r) ==
    /\ req[r].at = "resolved"
    /\ IF req[r].res0 # <<>> THEN createFromAddrinfo(r, req[r].res0, req[r].cert, req[r].calls + 1)
       ELSE /\ req' = [req EXCEPT ![r].at = "failed", ![r].cert = Freed(@),
                                  ![r].calls = @ + 1]
            /\ UNCHANGED <<blacklist, tls_ctx, owed>>
    /\ opts' = PSC_TcpClientOpts_destroy

\* The user is done with the options.
UserDestroysOpts ==
    /\ opts.user
    /\ opts' = [PSC_TcpClientOpts_destroy EXCEPT !.user = FALSE]
    /\ UNCHANGED <<blacklist, tls_ctx, req, owed>>

-----------------------------------------------------------------------------
(* The connection (module Connection), as far as client.c sees it *)

\* PSC_Connection_close, with blacklist after a failure, and the deletion.
ConnectionCloses(r, failed) ==
    /\ req[r].at = "connecting"
    /\ IF failed /\ opts.o.hits # 0
       THEN PSC_Connection_blacklistAddress(opts.o.hits, req[r].addr)
       ELSE UNCHANGED <<blacklist, owed>>
    /\ IF opts.o.tls THEN PSC_Connection_unreftlsctx ELSE UNCHANGED tls_ctx
    /\ req' = [req EXCEPT ![r] = NoRequest]
    /\ UNCHANGED opts

\* The user sees that there is no connection, and may ask again.
AskAgain(r) ==
    /\ req[r].at = "failed" /\ req' = [req EXCEPT ![r] = NoRequest]
    /\ UNCHANGED <<opts, blacklist, tls_ctx, owed>>

ClientNext ==
    \/ UserDestroysOpts
    \/ \E r \in Requests :
          \/ PSC_Connection_createTcpClient(r) \/ PSC_Connection_createTcpClientAsync(r)
          \/ doResolve(r) \/ clientResolveDone(r) \/ AskAgain(r)
          \/ \E failed \in BOOLEAN : ConnectionCloses(r, failed)

ClientSpec == ClientInit /\ [][ClientNext]_clvars

\* The pool and the service run.
ClientFairness == \A r \in Requests : WF_clvars(doResolve(r)) /\ WF_clvars(clientResolveDone(r))
ClientFairSpec == ClientSpec /\ ClientFairness

-----------------------------------------------------------------------------
(* Properties *)

\* The options live as long as a request or the user needs them, and no longer, but
\* for the requests that are lost, which hold them for ever: the count is the number
\* of those.
Asked == {r \in Requests : req[r].at \in {"queued", "resolved", "lost"}}
OptionsHeld == opts.refcnt = Cardinality(Asked) + (IF opts.user THEN 1 ELSE 0)

\* The TLS context is there for as long as a TLS client connection is, and
\* freed with the last one.
TlsUsers == {r \in Requests : req[r].at = "connecting" /\ opts.o.tls}
TlsContextHeld == (tls_ctx.made <=> TlsUsers # {}) /\ tls_ctx.ref = Cardinality(TlsUsers)

HeldWhileNeeded == OptionsHeld /\ TlsContextHeld

\* A blacklisted address is passed over exactly as often as was asked for:
\* neither tried earlier, nor avoided longer, in whatever order connections
\* to it fail and others are created.
AvoidedAsAsked == ~owed.wrong

\* Creating a connection fails for want of an address only when every address
\* the name resolved to was tried, avoided or of the wrong protocol (or the
\* process has no descriptor to spare).
AllAddressesTried ==
    \A r \in Requests : req[r].at = "failed" =>
        \A a \in Range(req[r].res0) :
            a \in req[r].failed \/ WrongProto(a)

\* A blacklisted address is passed over as often as was asked for, and creating a
\* connection fails only after all other addresses were tried.
AddressesTried == AvoidedAsAsked /\ AllAddressesTried

\* A request that the pool accepted is called back, once; one that it did not never is,
\* although PSC_Connection_createTcpClientAsync returned 0 for it.
CalledBack == \A r \in Requests :
                 /\ req[r].at = "queued" ~> req[r].calls = 1
                 /\ [](req[r].calls <= 1)

-----------------------------------------------------------------------------
(* The inductive invariant *)

ClientTypeOK ==
    /\ opts \in [o : Options, refcnt : Nat, user : BOOLEAN]
    /\ tls_ctx \in [made : BOOLEAN, ref : Nat]
    /\ DOMAIN req = Requests /\ \A r \in Requests : DOMAIN req[r] = DOMAIN NoRequest

HeldInv == ClientTypeOK /\ HeldWhileNeeded

\* The entries of an address that is to be avoided count down together: none has
\* more hits left than are owed, and one has as many.
Listings == [1 .. BLACKLISTSIZE -> [addr : Addrs \cup {NoAddr}, hits : Nat]]
Debts == [hits : [Addrs -> Nat], wrong : {FALSE}]
OwedFits(bl, ow) ==
    \A a \in Addrs :
        /\ \A i \in 1 .. BLACKLISTSIZE : (bl[i].addr = a => bl[i].hits \in 1 .. ow.hits[a])
        /\ ow.hits[a] # 0 =>
              \E i \in 1 .. BLACKLISTSIZE : bl[i].addr = a /\ bl[i].hits = ow.hits[a]

\* What is tried is an address, and a request has results only between its lookup
\* and its end.
TriedInv ==
    /\ DOMAIN opts = {"o", "refcnt", "user"} /\ opts.o \in Options
    /\ blacklist \in Listings /\ owed \in Debts /\ OwedFits(blacklist, owed)
    /\ DOMAIN req = Requests
    /\ \A r \in Requests :
          /\ DOMAIN req[r] = DOMAIN NoRequest /\ req[r].res0 \in Seq(Addrs)
          /\ req[r].at \in {"resolved", "failed"} \/ req[r].res0 = <<>>
          /\ req[r].at = "connecting" => req[r].addr \in Addrs
    /\ AllAddressesTried
=============================================================================
