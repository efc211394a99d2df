--------------------------- MODULE RefcountProofs ---------------------------
(***************************************************************************)
(* Proofs about what is counted by its users: the options and the TLS      *)
(* context of client connections (Client), for any finite set of requests, *)
(* and the pool of timers (Timer), for any finite set of timers.  Then     *)
(* that a client tries its addresses as asked, and that a rate limit       *)
(* (RateLimit) counts the actions of its window exactly.                   *)
(***************************************************************************)
EXTENDS Client, Timer, RateLimit, Induction, FiniteSetTheorems, SequenceTheorems, TLAPS

-----------------------------------------------------------------------------
(* Client *)

\* A step of one request changes who needs the options, and the TLS context, by that
\* request at most.
LEMMA OneRequest ==
  ASSUME ClientAssumption, NEW r \in Requests, opts'.o = opts.o,
         \A k \in Requests \ {r} : req'[k] = req[k]
  PROVE  /\ Asked' = IF req'[r].at \in {"queued", "resolved", "lost"} THEN Asked \cup {r}
                     ELSE Asked \ {r}
         /\ TlsUsers' = IF req'[r].at = "connecting" /\ opts.o.tls THEN TlsUsers \cup {r}
                        ELSE TlsUsers \ {r}
         /\ IsFiniteSet(Asked) /\ IsFiniteSet(TlsUsers)
<1>1. Asked' = IF req'[r].at \in {"queued", "resolved", "lost"} THEN Asked \cup {r} ELSE Asked \ {r}
  BY DEF Asked
<1>2. TlsUsers' = IF req'[r].at = "connecting" /\ opts.o.tls THEN TlsUsers \cup {r}
                  ELSE TlsUsers \ {r}
  BY DEF TlsUsers
<1>3. Asked \subseteq Requests /\ TlsUsers \subseteq Requests
  BY DEF Asked, TlsUsers
<1> QED
  BY <1>1, <1>2, <1>3, FS_Subset DEF ClientAssumption

\* So the numbers change by one at most.
LEMMA OneCounted ==
  ASSUME ClientAssumption, NEW r \in Requests, opts'.o = opts.o,
         \A k \in Requests \ {r} : req'[k] = req[k]
  PROVE  /\ Cardinality(Asked) \in Nat /\ Cardinality(TlsUsers) \in Nat
         /\ Cardinality(Asked)' = Cardinality(Asked)
                + (IF req'[r].at \in {"queued", "resolved", "lost"} THEN 1 ELSE 0)
                - (IF req[r].at \in {"queued", "resolved", "lost"} THEN 1 ELSE 0)
         /\ Cardinality(TlsUsers)' = Cardinality(TlsUsers)
                + (IF req'[r].at = "connecting" /\ opts.o.tls THEN 1 ELSE 0)
                - (IF req[r].at = "connecting" /\ opts.o.tls THEN 1 ELSE 0)
<1>1. IsFiniteSet(Asked) /\ IsFiniteSet(TlsUsers)
  BY OneRequest
<1>2. Cardinality(Asked) \in Nat /\ Cardinality(TlsUsers) \in Nat
  BY <1>1, FS_CardinalityType
<1>3. r \in Asked <=> req[r].at \in {"queued", "resolved", "lost"}
  BY DEF Asked
<1>4. r \in TlsUsers <=> req[r].at = "connecting" /\ opts.o.tls
  BY DEF TlsUsers
<1>5. /\ Cardinality(Asked \cup {r}) = IF r \in Asked THEN Cardinality(Asked)
                                      ELSE Cardinality(Asked) + 1
      /\ Cardinality(Asked \ {r}) = IF r \in Asked THEN Cardinality(Asked) - 1
                                    ELSE Cardinality(Asked)
  BY <1>1, FS_AddElement, FS_RemoveElement
<1>6. /\ Cardinality(TlsUsers \cup {r}) = IF r \in TlsUsers THEN Cardinality(TlsUsers)
                                         ELSE Cardinality(TlsUsers) + 1
      /\ Cardinality(TlsUsers \ {r}) = IF r \in TlsUsers THEN Cardinality(TlsUsers) - 1
                                       ELSE Cardinality(TlsUsers)
  BY <1>1, FS_AddElement, FS_RemoveElement
<1>7. Asked' = IF req'[r].at \in {"queued", "resolved", "lost"} THEN Asked \cup {r} ELSE Asked \ {r}
  BY OneRequest
<1>8. TlsUsers' = IF req'[r].at = "connecting" /\ opts.o.tls THEN TlsUsers \cup {r}
                  ELSE TlsUsers \ {r}
  BY OneRequest
<1>9. Cardinality(Asked)' = Cardinality(Asked)
                + (IF req'[r].at \in {"queued", "resolved", "lost"} THEN 1 ELSE 0)
                - (IF req[r].at \in {"queued", "resolved", "lost"} THEN 1 ELSE 0)
  BY <1>2, <1>3, <1>5, <1>7
<1>10. Cardinality(TlsUsers)' = Cardinality(TlsUsers)
                + (IF req'[r].at = "connecting" /\ opts.o.tls THEN 1 ELSE 0)
                - (IF req[r].at = "connecting" /\ opts.o.tls THEN 1 ELSE 0)
  BY <1>2, <1>4, <1>6, <1>8
<1> QED
  BY <1>2, <1>9, <1>10
\* The TLS context exists while its count is not 0.
LEMMA TlsByCount ==
  ASSUME ClientAssumption
  PROVE  /\ TlsContextHeld <=> /\ tls_ctx.ref = Cardinality(TlsUsers)
                               /\ tls_ctx.made <=> Cardinality(TlsUsers) # 0
         /\ TlsContextHeld' <=> /\ tls_ctx'.ref = Cardinality(TlsUsers)'
                                /\ tls_ctx'.made <=> Cardinality(TlsUsers)' # 0
<1>1. TlsUsers \subseteq Requests /\ TlsUsers' \subseteq Requests
  BY DEF TlsUsers
<1>2. IsFiniteSet(TlsUsers) /\ IsFiniteSet(TlsUsers')
  BY <1>1, FS_Subset DEF ClientAssumption
<1>3. /\ Cardinality(TlsUsers) = 0 <=> TlsUsers = {}
      /\ Cardinality(TlsUsers') = 0 <=> TlsUsers' = {}
  BY <1>2, FS_EmptySet
<1> QED
  BY <1>3 DEF TlsContextHeld

\* createFromAddrinfo gives the request a connection, which takes the TLS context, or
\* none.
LEMMA CreatedOrNot ==
  ASSUME ClientTypeOK, NEW r \in Requests, NEW res0, NEW cert, NEW calls,
         createFromAddrinfo(r, res0, cert, calls)
  PROVE  /\ DOMAIN req' = Requests /\ DOMAIN req'[r] = DOMAIN NoRequest
         /\ \A k \in Requests \ {r} : req'[k] = req[k]
         /\ \/ req'[r].at = "connecting" /\ opts.o.tls /\ gettlsctx
            \/ req'[r].at = "connecting" /\ ~opts.o.tls /\ UNCHANGED tls_ctx
            \/ req'[r].at = "failed" /\ UNCHANGED tls_ctx
<1>1. PICK out \in [Addrs -> {"ok", "fails", "invalid"}] :
        LET s == TryAll(res0, out)
            ok == s.addr # NoAddr
            c == IF cert = "read" THEN "freed" ELSE cert
        IN  /\ req' = [req EXCEPT ![r] =
                  IF ok THEN [NoRequest EXCEPT !.at = "connecting", !.addr = s.addr,
                                               !.cert = c, !.calls = calls]
                  ELSE [NoRequest EXCEPT !.at = "failed", !.res0 = res0, !.failed = s.failed,
                                         !.cert = c, !.calls = calls]]
            /\ IF ok /\ opts.o.tls THEN gettlsctx ELSE UNCHANGED tls_ctx
  BY DEF createFromAddrinfo
<1>2. PICK s : s = TryAll(res0, out)
  OBVIOUS
<1>3. PICK c : c = IF cert = "read" THEN "freed" ELSE cert
  OBVIOUS
<1>4. CASE s.addr # NoAddr
  <2>1. PICK o : o = [NoRequest EXCEPT !.at = "connecting", !.addr = s.addr, !.cert = c,
                                       !.calls = calls]
    OBVIOUS
  <2>2. o.at = "connecting" /\ DOMAIN o = DOMAIN NoRequest
    BY <2>1 DEF NoRequest
  <2>3. req' = [req EXCEPT ![r] = o]
    BY <1>1, <1>2, <1>3, <1>4, <2>1
  <2>4. IF opts.o.tls THEN gettlsctx ELSE UNCHANGED tls_ctx
    BY <1>1, <1>2, <1>4
  <2> QED
    BY <2>2, <2>3, <2>4 DEF ClientTypeOK
<1>5. CASE s.addr = NoAddr
  <2>1. PICK o : o = [NoRequest EXCEPT !.at = "failed", !.res0 = res0, !.failed = s.failed,
                                       !.cert = c, !.calls = calls]
    OBVIOUS
  <2>2. o.at = "failed" /\ DOMAIN o = DOMAIN NoRequest
    BY <2>1 DEF NoRequest
  <2>3. req' = [req EXCEPT ![r] = o]
    BY <1>1, <1>2, <1>3, <1>5, <2>1
  <2>4. UNCHANGED tls_ctx
    BY <1>1, <1>2, <1>5
  <2> QED
    BY <2>2, <2>3, <2>4 DEF ClientTypeOK
<1> QED
  BY <1>4, <1>5

\* One place of a record changes, the others stay.
LEMMA PlaceChanges ==
  ASSUME ClientTypeOK, NEW r \in Requests, NEW x
  PROVE  /\ "at" \in DOMAIN NoRequest
         /\ req' = [req EXCEPT ![r] = x] /\ DOMAIN x = DOMAIN NoRequest =>
              /\ DOMAIN req' = Requests
              /\ \A k \in Requests : DOMAIN req'[k] = DOMAIN NoRequest
              /\ req'[r] = x
              /\ \A k \in Requests \ {r} : req'[k] = req[k]
<1>1. "at" \in DOMAIN NoRequest
  BY DEF NoRequest
<1> QED
  BY <1>1 DEF ClientTypeOK

\* A step of one request that counts it in and out where its place demands it keeps
\* the counts exact.
LEMMA OneStepHeld ==
  ASSUME ClientAssumption, HeldInv, NEW r \in Requests,
         DOMAIN req' = Requests, DOMAIN req'[r] = DOMAIN NoRequest,
         \A k \in Requests \ {r} : req'[k] = req[k],
         opts' = [opts EXCEPT !.refcnt = opts.refcnt
                    + (IF req'[r].at \in {"queued", "resolved", "lost"} THEN 1 ELSE 0)
                    - (IF req[r].at \in {"queued", "resolved", "lost"} THEN 1 ELSE 0)],
         \/ /\ (req[r].at = "connecting" /\ opts.o.tls)
                 <=> (req'[r].at = "connecting" /\ opts.o.tls)
            /\ UNCHANGED tls_ctx
         \/ req[r].at # "connecting" /\ req'[r].at = "connecting" /\ opts.o.tls /\ gettlsctx
         \/ /\ req[r].at = "connecting" /\ req'[r].at # "connecting" /\ opts.o.tls
            /\ PSC_Connection_unreftlsctx
  PROVE  HeldInv'
<1>1. /\ opts \in [o : Options, refcnt : Nat, user : BOOLEAN]
      /\ tls_ctx \in [made : BOOLEAN, ref : Nat]
  BY DEF HeldInv, ClientTypeOK
<1>2. opts'.o = opts.o /\ opts'.user = opts.user
  BY <1>1
<1>3. /\ Cardinality(Asked) \in Nat /\ Cardinality(TlsUsers) \in Nat
      /\ Cardinality(Asked)' = Cardinality(Asked)
                + (IF req'[r].at \in {"queued", "resolved", "lost"} THEN 1 ELSE 0)
                - (IF req[r].at \in {"queued", "resolved", "lost"} THEN 1 ELSE 0)
      /\ Cardinality(TlsUsers)' = Cardinality(TlsUsers)
                + (IF req'[r].at = "connecting" /\ opts.o.tls THEN 1 ELSE 0)
                - (IF req[r].at = "connecting" /\ opts.o.tls THEN 1 ELSE 0)
  BY <1>2, OneCounted
<1>4. Cardinality(Asked)' \in Nat /\ Cardinality(TlsUsers)' \in Nat
  <2>1. Asked' \subseteq Requests /\ TlsUsers' \subseteq Requests
    BY DEF Asked, TlsUsers
  <2>2. IsFiniteSet(Asked') /\ IsFiniteSet(TlsUsers')
    BY <2>1, FS_Subset DEF ClientAssumption
  <2> QED
    BY <2>2, FS_CardinalityType
<1>5. OptionsHeld' /\ opts' \in [o : Options, refcnt : Nat, user : BOOLEAN]
  <2>1. opts.refcnt = Cardinality(Asked) + (IF opts.user THEN 1 ELSE 0)
    BY DEF HeldInv, HeldWhileNeeded, OptionsHeld
  <2>2. opts'.refcnt = opts.refcnt
                    + (IF req'[r].at \in {"queued", "resolved", "lost"} THEN 1 ELSE 0)
                    - (IF req[r].at \in {"queued", "resolved", "lost"} THEN 1 ELSE 0)
    BY <1>1
  <2>3. opts'.refcnt = Cardinality(Asked)' + (IF opts'.user THEN 1 ELSE 0)
    BY <1>1, <1>2, <1>3, <2>1, <2>2
  <2>4. opts'.refcnt \in Nat
    BY <1>4, <2>3
  <2>5. opts' = [opts EXCEPT !.refcnt = opts'.refcnt]
    BY <1>1, <2>2
  <2> QED
    BY <1>1, <2>3, <2>4, <2>5 DEF OptionsHeld
<1>6. TlsContextHeld' /\ tls_ctx' \in [made : BOOLEAN, ref : Nat]
  <2>1. /\ tls_ctx.ref = Cardinality(TlsUsers)
        /\ tls_ctx.made <=> Cardinality(TlsUsers) # 0
    BY TlsByCount DEF HeldInv, HeldWhileNeeded
  <2>2. CASE /\ (req[r].at = "connecting" /\ opts.o.tls)
                  <=> (req'[r].at = "connecting" /\ opts.o.tls)
             /\ UNCHANGED tls_ctx
    <3>1. Cardinality(TlsUsers)' = Cardinality(TlsUsers)
      BY <1>3, <2>2
    <3> QED
      BY <1>1, <2>1, <2>2, <3>1, TlsByCount
  <2>3. CASE req[r].at # "connecting" /\ req'[r].at = "connecting" /\ opts.o.tls /\ gettlsctx
    <3>1. Cardinality(TlsUsers)' = Cardinality(TlsUsers) + 1
      BY <1>3, <2>3
    <3>2. tls_ctx' = [made |-> TRUE, ref |-> tls_ctx.ref + 1]
      BY <2>3 DEF gettlsctx
    <3>3. tls_ctx'.made = TRUE /\ tls_ctx'.ref = tls_ctx.ref + 1
      BY <3>2
    <3> QED
      BY <1>1, <1>3, <2>1, <3>1, <3>2, <3>3, TlsByCount
  <2>4. CASE /\ req[r].at = "connecting" /\ req'[r].at # "connecting" /\ opts.o.tls
             /\ PSC_Connection_unreftlsctx
    <3>1. Cardinality(TlsUsers)' = Cardinality(TlsUsers) - 1
      BY <1>3, <2>4
    <3>2. CASE tls_ctx.ref = 1
      <4>1. tls_ctx' = [made |-> FALSE, ref |-> 0]
        BY <2>4, <3>2 DEF PSC_Connection_unreftlsctx
      <4>2. tls_ctx'.made = FALSE /\ tls_ctx'.ref = 0
        BY <4>1
      <4> QED
        BY <2>1, <3>1, <3>2, <4>1, <4>2, TlsByCount
    <3>3. CASE tls_ctx.ref # 1
      <4>1. tls_ctx' = [tls_ctx EXCEPT !.ref = tls_ctx.ref - 1]
        BY <2>4, <3>3 DEF PSC_Connection_unreftlsctx
      <4>2. tls_ctx'.ref = Cardinality(TlsUsers)'
        BY <1>1, <2>1, <3>1, <4>1
      <4>3. tls_ctx.ref - 1 \in Nat \ {0}
        BY <1>1, <1>4, <2>1, <3>1, <3>3
      <4>4. tls_ctx' \in [made : BOOLEAN, ref : Nat] /\ tls_ctx'.made = tls_ctx.made
        BY <1>1, <4>1, <4>3
      <4> QED
        BY <2>1, <3>1, <4>2, <4>3, <4>4, TlsByCount
    <3> QED
      BY <3>2, <3>3
  <2> QED
    BY <2>2, <2>3, <2>4
<1>7. \A k \in Requests : DOMAIN req'[k] = DOMAIN NoRequest
  BY DEF HeldInv, ClientTypeOK
<1> QED
  BY <1>5, <1>6, <1>7 DEF HeldInv, HeldWhileNeeded, ClientTypeOK

\* The places of a request, and the counts that go with them, action by action.
LEMMA HeldStep == ClientAssumption /\ HeldInv /\ [ClientNext]_clvars => HeldInv'
<1> SUFFICES ASSUME ClientAssumption, HeldInv, [ClientNext]_clvars PROVE HeldInv'
  OBVIOUS
<1>0. /\ ClientTypeOK /\ opts.refcnt \in Nat /\ "at" \in DOMAIN NoRequest
      /\ opts \in [o : Options, refcnt : Nat, user : BOOLEAN]
  BY DEF HeldInv, ClientTypeOK, NoRequest
<1>00. NoRequest.at = "idle"
  BY DEF NoRequest
<1>1. ASSUME UserDestroysOpts PROVE HeldInv'
  <2>1. UNCHANGED <<tls_ctx, req>> /\ opts.user
    BY <1>1 DEF UserDestroysOpts
  <2>2. opts' = [opts EXCEPT !.refcnt = opts.refcnt - 1, !.user = FALSE]
    BY <1>0, <1>1 DEF UserDestroysOpts, PSC_TcpClientOpts_destroy
  <2>3. opts.refcnt = Cardinality(Asked) + 1
    BY <2>1 DEF HeldInv, HeldWhileNeeded, OptionsHeld
  <2>4. Cardinality(Asked) \in Nat
    <3>1. IsFiniteSet(Asked)
      BY FS_Subset DEF ClientAssumption, Asked
    <3> QED
      BY <3>1, FS_CardinalityType
  <2>5. /\ opts'.o = opts.o /\ opts'.user = FALSE
        /\ opts'.refcnt = opts.refcnt - 1 /\ opts.refcnt - 1 \in Nat
    BY <1>0, <2>2, <2>3, <2>4
  <2>6. opts' \in [o : Options, refcnt : Nat, user : BOOLEAN]
    BY <1>0, <2>2, <2>5
  <2>7. Asked' = Asked /\ TlsUsers' = TlsUsers
    BY <2>1, <2>5 DEF Asked, TlsUsers
  <2>8. OptionsHeld'
    BY <2>3, <2>4, <2>5, <2>7 DEF OptionsHeld
  <2>9. TlsContextHeld'
    BY <2>1, <2>7 DEF HeldInv, HeldWhileNeeded, TlsContextHeld
  <2> QED
    BY <2>1, <2>6, <2>8, <2>9 DEF HeldInv, HeldWhileNeeded, ClientTypeOK
<1>2. ASSUME NEW r \in Requests, PSC_Connection_createTcpClient(r) PROVE HeldInv'
  <2>1. req[r].at = "idle" /\ UNCHANGED opts
    BY <1>2 DEF PSC_Connection_createTcpClient
  <2>2. PICK c \in fetchCert, res0 \in resolveAddress :
          IF c.ok /\ res0 # <<>> THEN createFromAddrinfo(r, res0, c.cert, 0)
          ELSE /\ req' = [req EXCEPT ![r].at = "failed",
                                     ![r].cert = IF c.ok THEN Freed(c.cert) ELSE c.cert]
               /\ UNCHANGED <<blacklist, tls_ctx, owed>>
    BY <1>2 DEF PSC_Connection_createTcpClient
  <2>3. CASE c.ok /\ res0 # <<>>
    <3>1. createFromAddrinfo(r, res0, c.cert, 0)
      BY <2>2, <2>3
    <3>2. /\ DOMAIN req' = Requests /\ DOMAIN req'[r] = DOMAIN NoRequest
          /\ \A k \in Requests \ {r} : req'[k] = req[k]
          /\ \/ req'[r].at = "connecting" /\ opts.o.tls /\ gettlsctx
             \/ req'[r].at = "connecting" /\ ~opts.o.tls /\ UNCHANGED tls_ctx
             \/ req'[r].at = "failed" /\ UNCHANGED tls_ctx
      BY <1>0, <3>1, CreatedOrNot
    <3>3. opts' = [opts EXCEPT !.refcnt = opts.refcnt
                    + (IF req'[r].at \in {"queued", "resolved", "lost"} THEN 1 ELSE 0)
                    - (IF req[r].at \in {"queued", "resolved", "lost"} THEN 1 ELSE 0)]
      BY <1>0, <2>1, <3>2
    <3> QED
      BY <2>1, <3>2, <3>3, OneStepHeld
  <2>4. CASE ~(c.ok /\ res0 # <<>>)
    <3>1. PICK x : x = [req[r] EXCEPT !.at = "failed",
                                      !.cert = IF c.ok THEN Freed(c.cert) ELSE c.cert]
      OBVIOUS
    <3>2. req' = [req EXCEPT ![r] = x] /\ UNCHANGED tls_ctx
      BY <2>2, <2>4, <3>1
    <3>3. DOMAIN x = DOMAIN NoRequest /\ x.at = "failed"
      BY <1>0, <3>1 DEF ClientTypeOK
    <3>4. /\ DOMAIN req' = Requests /\ req'[r] = x
          /\ \A k \in Requests \ {r} : req'[k] = req[k]
      BY <1>0, <3>2, <3>3, PlaceChanges
    <3>5. opts' = [opts EXCEPT !.refcnt = opts.refcnt
                    + (IF req'[r].at \in {"queued", "resolved", "lost"} THEN 1 ELSE 0)
                    - (IF req[r].at \in {"queued", "resolved", "lost"} THEN 1 ELSE 0)]
      BY <1>0, <2>1, <3>3, <3>4
    <3> QED
      BY <2>1, <3>2, <3>3, <3>4, <3>5, OneStepHeld
  <2> QED
    BY <2>3, <2>4
<1>3. ASSUME NEW r \in Requests, PSC_Connection_createTcpClientAsync(r) PROVE HeldInv'
  <2>0. PICK at \in {"queued", "lost"} : req' = [req EXCEPT ![r].at = at]
    BY <1>3 DEF PSC_Connection_createTcpClientAsync
  <2>1. PICK x : x = [req[r] EXCEPT !.at = at]
    OBVIOUS
  <2>2. /\ req[r].at = "idle" /\ req' = [req EXCEPT ![r] = x] /\ UNCHANGED tls_ctx
        /\ opts' = [opts EXCEPT !.refcnt = opts.refcnt + 1]
    BY <1>3, <2>0, <2>1 DEF PSC_Connection_createTcpClientAsync
  <2>3. DOMAIN x = DOMAIN NoRequest /\ x.at \in {"queued", "lost"}
    BY <1>0, <2>1 DEF ClientTypeOK
  <2>4. /\ DOMAIN req' = Requests /\ req'[r] = x
        /\ \A k \in Requests \ {r} : req'[k] = req[k]
    BY <1>0, <2>2, <2>3, PlaceChanges
  <2>5. opts' = [opts EXCEPT !.refcnt = opts.refcnt
                    + (IF req'[r].at \in {"queued", "resolved", "lost"} THEN 1 ELSE 0)
                    - (IF req[r].at \in {"queued", "resolved", "lost"} THEN 1 ELSE 0)]
    BY <1>0, <2>2, <2>3, <2>4
  <2> QED
    BY <2>2, <2>3, <2>4, <2>5, OneStepHeld
<1>4. ASSUME NEW r \in Requests, doResolve(r) PROVE HeldInv'
  <2>1. PICK c \in fetchCert, res0 \in resolveAddress :
          req' = [req EXCEPT ![r].at = "resolved", ![r].cert = c.cert,
                             ![r].res0 = IF c.ok THEN res0 ELSE <<>>]
    BY <1>4 DEF doResolve
  <2>2. PICK x : x = [req[r] EXCEPT !.at = "resolved", !.cert = c.cert,
                                    !.res0 = IF c.ok THEN res0 ELSE <<>>]
    OBVIOUS
  <2>3. req' = [req EXCEPT ![r] = x]
    BY <2>1, <2>2
  <2>4. req[r].at = "queued" /\ UNCHANGED <<opts, tls_ctx>>
    BY <1>4 DEF doResolve
  <2>5. DOMAIN x = DOMAIN NoRequest /\ x.at = "resolved"
    BY <1>0, <2>2 DEF ClientTypeOK
  <2>6. /\ DOMAIN req' = Requests /\ req'[r] = x
        /\ \A k \in Requests \ {r} : req'[k] = req[k]
    BY <1>0, <2>3, <2>5, PlaceChanges
  <2>7. opts' = [opts EXCEPT !.refcnt = opts.refcnt
                    + (IF req'[r].at \in {"queued", "resolved", "lost"} THEN 1 ELSE 0)
                    - (IF req[r].at \in {"queued", "resolved", "lost"} THEN 1 ELSE 0)]
    BY <1>0, <2>4, <2>5, <2>6
  <2> QED
    BY <2>4, <2>5, <2>6, <2>7, OneStepHeld
<1>5. ASSUME NEW r \in Requests, clientResolveDone(r) PROVE HeldInv'
  <2>1. req[r].at = "resolved" /\ opts' = [opts EXCEPT !.refcnt = opts.refcnt - 1]
    BY <1>5 DEF clientResolveDone, PSC_TcpClientOpts_destroy
  <2>2. CASE req[r].res0 # <<>>
    <3>1. createFromAddrinfo(r, req[r].res0, req[r].cert, req[r].calls + 1)
      BY <1>5, <2>2 DEF clientResolveDone
    <3>2. /\ DOMAIN req' = Requests /\ DOMAIN req'[r] = DOMAIN NoRequest
          /\ \A k \in Requests \ {r} : req'[k] = req[k]
          /\ \/ req'[r].at = "connecting" /\ opts.o.tls /\ gettlsctx
             \/ req'[r].at = "connecting" /\ ~opts.o.tls /\ UNCHANGED tls_ctx
             \/ req'[r].at = "failed" /\ UNCHANGED tls_ctx
      BY <1>0, <3>1, CreatedOrNot
    <3>3. opts' = [opts EXCEPT !.refcnt = opts.refcnt
                    + (IF req'[r].at \in {"queued", "resolved", "lost"} THEN 1 ELSE 0)
                    - (IF req[r].at \in {"queued", "resolved", "lost"} THEN 1 ELSE 0)]
      BY <1>0, <2>1, <3>2
    <3> QED
      BY <2>1, <3>2, <3>3, OneStepHeld
  <2>3. CASE req[r].res0 = <<>>
    <3>1. PICK x : x = [req[r] EXCEPT !.at = "failed", !.cert = Freed(req[r].cert),
                                      !.calls = req[r].calls + 1]
      OBVIOUS
    <3>2. req' = [req EXCEPT ![r] = x] /\ UNCHANGED tls_ctx
      BY <1>5, <2>3, <3>1 DEF clientResolveDone
    <3>3. DOMAIN x = DOMAIN NoRequest /\ x.at = "failed"
      BY <1>0, <3>1 DEF ClientTypeOK
    <3>4. /\ DOMAIN req' = Requests /\ req'[r] = x
          /\ \A k \in Requests \ {r} : req'[k] = req[k]
      BY <1>0, <3>2, <3>3, PlaceChanges
    <3>5. opts' = [opts EXCEPT !.refcnt = opts.refcnt
                    + (IF req'[r].at \in {"queued", "resolved", "lost"} THEN 1 ELSE 0)
                    - (IF req[r].at \in {"queued", "resolved", "lost"} THEN 1 ELSE 0)]
      BY <1>0, <2>1, <3>3, <3>4
    <3> QED
      BY <2>1, <3>2, <3>3, <3>4, <3>5, OneStepHeld
  <2> QED
    BY <2>2, <2>3
<1>6. ASSUME NEW r \in Requests, AskAgain(r) PROVE HeldInv'
  <2>1. req[r].at = "failed" /\ req' = [req EXCEPT ![r] = NoRequest] /\ UNCHANGED <<opts, tls_ctx>>
    BY <1>6 DEF AskAgain
  <2>2. /\ DOMAIN req' = Requests /\ req'[r] = NoRequest
        /\ \A k \in Requests \ {r} : req'[k] = req[k]
    BY <1>0, <2>1, PlaceChanges
  <2>3. opts' = [opts EXCEPT !.refcnt = opts.refcnt
                    + (IF req'[r].at \in {"queued", "resolved", "lost"} THEN 1 ELSE 0)
                    - (IF req[r].at \in {"queued", "resolved", "lost"} THEN 1 ELSE 0)]
    BY <1>0, <1>00, <2>1, <2>2
  <2> QED
    BY <1>00, <2>1, <2>2, <2>3, OneStepHeld
<1>7. ASSUME NEW r \in Requests, NEW failed \in BOOLEAN, ConnectionCloses(r, failed)
      PROVE  HeldInv'
  <2>1. /\ req[r].at = "connecting" /\ req' = [req EXCEPT ![r] = NoRequest] /\ UNCHANGED opts
        /\ IF opts.o.tls THEN PSC_Connection_unreftlsctx ELSE UNCHANGED tls_ctx
    BY <1>7 DEF ConnectionCloses
  <2>2. /\ DOMAIN req' = Requests /\ req'[r] = NoRequest
        /\ \A k \in Requests \ {r} : req'[k] = req[k]
    BY <1>0, <2>1, PlaceChanges
  <2>3. opts' = [opts EXCEPT !.refcnt = opts.refcnt
                    + (IF req'[r].at \in {"queued", "resolved", "lost"} THEN 1 ELSE 0)
                    - (IF req[r].at \in {"queued", "resolved", "lost"} THEN 1 ELSE 0)]
    BY <1>0, <1>00, <2>1, <2>2
  <2> QED
    BY <1>00, <2>1, <2>2, <2>3, OneStepHeld
<1>8. ASSUME UNCHANGED clvars PROVE HeldInv'
  BY <1>8 DEF clvars, HeldInv, ClientTypeOK, HeldWhileNeeded, OptionsHeld, TlsContextHeld,
              Asked, TlsUsers
<1> QED
  BY <1>1, <1>2, <1>3, <1>4, <1>5, <1>6, <1>7, <1>8 DEF ClientNext

\* client.c: however requests, failures and the user's destroy follow each other, the
\* options live exactly as long as a request, one that is lost included, or the user holds
\* them, and the TLS context as long as there is a TLS client connection, for any finite
\* set of requests.
THEOREM ClientHolds == ClientAssumption => (ClientSpec => []HeldWhileNeeded)
<1> SUFFICES ASSUME ClientAssumption PROVE ClientSpec => []HeldWhileNeeded
  OBVIOUS
<1>1. ClientInit => HeldInv
  <2> SUFFICES ASSUME ClientInit PROVE HeldInv
    OBVIOUS
  <2>1. PICK o \in Options : opts = [o |-> o, refcnt |-> 1, user |-> TRUE]
    BY DEF ClientInit
  <2>2. /\ opts \in [o : Options, refcnt : Nat, user : BOOLEAN]
        /\ opts.refcnt = 1 /\ opts.user = TRUE
    BY <2>1
  <2>3. tls_ctx \in [made : BOOLEAN, ref : Nat] /\ tls_ctx.made = FALSE /\ tls_ctx.ref = 0
    BY DEF ClientInit
  <2>4. DOMAIN req = Requests /\ \A r \in Requests : req[r] = NoRequest /\ NoRequest.at = "idle"
    BY DEF ClientInit, NoRequest
  <2>5. Asked = {} /\ TlsUsers = {}
    BY <2>4 DEF Asked, TlsUsers
  <2>6. Cardinality(Asked) = 0 /\ Cardinality(TlsUsers) = 0
    BY <2>5, FS_EmptySet
  <2>7. OptionsHeld
    BY <2>2, <2>6 DEF OptionsHeld
  <2>8. TlsContextHeld
    BY <2>3, <2>5, <2>6 DEF TlsContextHeld
  <2> QED
    BY <2>2, <2>3, <2>4, <2>7, <2>8 DEF HeldInv, HeldWhileNeeded, ClientTypeOK
<1>2. HeldInv => HeldWhileNeeded
  BY DEF HeldInv
<1> QED
  BY <1>1, <1>2, HeldStep, PTL DEF ClientSpec

-----------------------------------------------------------------------------
(* Timer *)

\* The list of unused timers without its first, and with one more.
LEMMA UnusedList ==
  ASSUME NEW s \in Seq(Timers), IsInjective(s)
  PROVE  /\ s # <<>> => /\ Head(s) \in ToSet(s) /\ Tail(s) \in Seq(Timers)
                        /\ IsInjective(Tail(s)) /\ ToSet(Tail(s)) = ToSet(s) \ {Head(s)}
         /\ \A t \in Timers \ ToSet(s) : /\ Append(s, t) \in Seq(Timers)
                                         /\ IsInjective(Append(s, t))
                                         /\ ToSet(Append(s, t)) = ToSet(s) \cup {t}
<1>0. Len(s) \in Nat /\ DOMAIN s = 1 .. Len(s)
  OBVIOUS
<1>1. ASSUME s # <<>>
      PROVE  /\ Head(s) \in ToSet(s) /\ Tail(s) \in Seq(Timers)
             /\ IsInjective(Tail(s)) /\ ToSet(Tail(s)) = ToSet(s) \ {Head(s)}
  <2>1. /\ Head(s) = s[1] /\ 1 \in DOMAIN s /\ Tail(s) \in Seq(Timers)
        /\ DOMAIN Tail(s) = 1 .. Len(s) - 1
        /\ \A k \in 1 .. Len(s) - 1 : Tail(s)[k] = s[k + 1]
    BY <1>1
  <2>2. Head(s) \in ToSet(s)
    BY <2>1 DEF ToSet
  <2>3. IsInjective(Tail(s))
    BY <1>0, <2>1 DEF IsInjective
  <2>4. ASSUME NEW x \in ToSet(Tail(s)) PROVE x \in ToSet(s) \ {Head(s)}
    <3>1. PICK k \in 1 .. Len(s) - 1 : x = s[k + 1]
      BY <2>1 DEF ToSet
    <3>2. k + 1 \in DOMAIN s /\ k + 1 # 1
      BY <1>0
    <3> QED
      BY <2>1, <3>1, <3>2 DEF ToSet, IsInjective
  <2>5. ASSUME NEW x \in ToSet(s), x # Head(s) PROVE x \in ToSet(Tail(s))
    <3>1. PICK k \in DOMAIN s : x = s[k]
      BY DEF ToSet
    <3>2. k - 1 \in 1 .. Len(s) - 1 /\ (k - 1) + 1 = k
      BY <1>0, <2>1, <2>5, <3>1
    <3>3. Tail(s)[k - 1] = x
      BY <2>1, <3>1, <3>2
    <3> QED
      BY <2>1, <3>2, <3>3 DEF ToSet
  <2> QED
    BY <2>1, <2>2, <2>3, <2>4, <2>5
<1>2. ASSUME NEW t \in Timers, t \notin ToSet(s)
      PROVE  /\ Append(s, t) \in Seq(Timers) /\ IsInjective(Append(s, t))
             /\ ToSet(Append(s, t)) = ToSet(s) \cup {t}
  <2>1. /\ Append(s, t) \in Seq(Timers) /\ DOMAIN Append(s, t) = 1 .. Len(s) + 1
        /\ \A k \in 1 .. Len(s) : Append(s, t)[k] = s[k]
        /\ Append(s, t)[Len(s) + 1] = t
    OBVIOUS
  <2>2. \A k \in DOMAIN s : s[k] # t
    BY <1>2 DEF ToSet
  <2>3. IsInjective(Append(s, t))
    BY <1>0, <2>1, <2>2 DEF IsInjective
  <2>4. ToSet(Append(s, t)) = ToSet(s) \cup {t}
    BY <1>0, <2>1 DEF ToSet
  <2> QED
    BY <2>1, <2>3, <2>4
<1> QED
  BY <1>1, <1>2

\* At most one timer expires at a time.
LEMMA RunIs ==
  ASSUME TimerTypeOK
  PROVE  run # <<>> => /\ run = <<run[1]>>
                       /\ run[1] \in [t : Timers, left : {0, 1}, calls : BOOLEAN]
  BY DEF TimerTypeOK

\* The timers in use can be counted; with a count of 1 there is one.
LEMMA InUse ==
  ASSUME TimerAssumption, NEW t \in Timers, timer[t].life = "used"
  PROVE  /\ IsFiniteSet(Used) /\ t \in Used
         /\ Cardinality(Used) \in Nat \ {0}
         /\ Cardinality(Used) = 1 => Used = {t}
<1>1. IsFiniteSet(Used) /\ t \in Used
  BY FS_Subset DEF TimerAssumption, Used
<1>2. Cardinality(Used) \in Nat /\ Cardinality(Used \ {t}) = Cardinality(Used) - 1
  BY <1>1, FS_CardinalityType, FS_RemoveElement
<1>3. /\ IsFiniteSet(Used \ {t}) /\ Cardinality(Used \ {t}) \in Nat
      /\ Cardinality(Used \ {t}) = 0 <=> Used \ {t} = {}
  BY <1>1, FS_Subset, FS_CardinalityType, FS_EmptySet
<1> QED
  BY <1>1, <1>2, <1>3

\* While the application has control no handler is about to be called.
LEMMA NoneAboutToCall ==
  ASSUME TimerTypeOK, TimersFit, InUser
  PROVE  \A t \in Timers : ~AboutToCall(t)
  BY DEF InUser, TimersFit, TimerFits, AboutToCall, Expires

\* What a change of a timer's parts leaves.
LEMMA TimerParts ==
  ASSUME timer \in [Timers -> TimerStates], NEW t \in Timers
  PROVE  /\ \A u \in Timers : /\ timer[u].job \in {0, 1} /\ timer[u].periodic = 0
                               /\ timer[u].life \in {"none", "used", "pooled", "freed"}
         /\ \A j \in {0, 1} : LET s == [timer EXCEPT ![t].job = j] IN
              /\ s \in [Timers -> TimerStates] /\ s[t].job = j /\ s[t].life = timer[t].life
              /\ \A u \in Timers \ {t} : s[u] = timer[u]
         /\ \A m \in {0, 1} : LET s == [timer EXCEPT ![t].ms = m] IN
              /\ s \in [Timers -> TimerStates]
              /\ \A u \in Timers : s[u].job = timer[u].job /\ s[u].life = timer[u].life
         /\ LET s == [timer EXCEPT ![t].life = "pooled"] IN
              /\ s \in [Timers -> TimerStates] /\ s[t].life = "pooled" /\ s[t].job = timer[t].job
              /\ \A u \in Timers \ {t} : s[u] = timer[u]
         /\ LET s == [timer EXCEPT ![t] = enableTimer] IN
              /\ s \in [Timers -> TimerStates] /\ s[t].life = "used" /\ s[t].job = 0
              /\ \A u \in Timers \ {t} : s[u] = timer[u]
<1>1. ASSUME NEW u \in Timers PROVE timer[u] \in TimerStates
  OBVIOUS
<1>2. /\ timer[t].job \in {0, 1} /\ timer[t].ms \in {0, 1} /\ timer[t].periodic = 0
      /\ timer[t].life \in {"none", "used", "pooled", "freed"}
  BY <1>1 DEF TimerStates
<1>3. ASSUME NEW j \in {0, 1}
      PROVE  /\ [timer[t] EXCEPT !.job = j] \in TimerStates
             /\ [timer[t] EXCEPT !.job = j].job = j
             /\ [timer[t] EXCEPT !.job = j].life = timer[t].life
  BY <1>1 DEF TimerStates
<1>4. ASSUME NEW m \in {0, 1}
      PROVE  /\ [timer[t] EXCEPT !.ms = m] \in TimerStates
             /\ [timer[t] EXCEPT !.ms = m].job = timer[t].job
             /\ [timer[t] EXCEPT !.ms = m].life = timer[t].life
  BY <1>1 DEF TimerStates
<1>5. /\ [timer[t] EXCEPT !.life = "pooled"] \in TimerStates
      /\ [timer[t] EXCEPT !.life = "pooled"].life = "pooled"
      /\ [timer[t] EXCEPT !.life = "pooled"].job = timer[t].job
  BY <1>1 DEF TimerStates
<1>6. enableTimer \in TimerStates /\ enableTimer.life = "used" /\ enableTimer.job = 0
  BY DEF TimerStates, enableTimer
<1>7. \A u \in Timers : /\ timer[u].job \in {0, 1} /\ timer[u].periodic = 0
                         /\ timer[u].life \in {"none", "used", "pooled", "freed"}
  BY <1>1 DEF TimerStates
<1> QED
  BY <1>1, <1>3, <1>4, <1>5, <1>6, <1>7

\* What a change of an expectation's parts leaves.
LEMMA StopParts ==
  ASSUME user \in [Timers -> Expectations], NEW t \in Timers
  PROVE  LET s == [user EXCEPT ![t].runs = "no"] IN
              /\ s \in [Timers -> Expectations] /\ s[t].runs = "no"
              /\ s[t].left = user[t].left /\ s[t].unasked = user[t].unasked
              /\ \A u \in Timers \ {t} : s[u] = user[u]
<1>1. user[t] \in Expectations
  OBVIOUS
<1>2. /\ [user[t] EXCEPT !.runs = "no"] \in Expectations
      /\ [user[t] EXCEPT !.runs = "no"].runs = "no"
      /\ [user[t] EXCEPT !.runs = "no"].left = user[t].left
      /\ [user[t] EXCEPT !.runs = "no"].unasked = user[t].unasked
  BY <1>1 DEF Expectations
<1> QED
  BY <1>2

\* Types, and where an expiration is, action by action.
LEMMA TimerFitsStep ==
  ASSUME TimerAssumption, Uses \subseteq {"destroy"}, TimerInv, [TimerNext]_tvars
  PROVE  TimerTypeOK' /\ TimersFit'
<1> USE DEF TimerInv
<1>0. /\ TimerTypeOK /\ TimersFit
      /\ run # <<>> => /\ run = <<run[1]>>
                       /\ run[1] \in [t : Timers, left : {0, 1}, calls : BOOLEAN]
  BY RunIs
<1>1. ASSUME PSC_Timer_create PROVE TimerTypeOK' /\ TimersFit'
  <2>1. PICK t \in Timers : /\ timer[t].life \in {"none", "pooled"}
                            /\ timer' = [timer EXCEPT ![t] = enableTimer]
                            /\ \/ user' = [user EXCEPT ![t] =
                                       [Quiet EXCEPT !.left = kernel[t] # Disarmed]]
                               \/ timer[t].life = "none" /\ UNCHANGED user
    <3>1. CASE pooled # <<>>
      <4>1. Head(pooled) \in ToSet(pooled)
        BY <3>1, UnusedList DEF TimerTypeOK, PoolExact
      <4>2. Head(pooled) \in Timers /\ timer[Head(pooled)].life = "pooled"
        BY <4>1 DEF PoolExact
      <4> QED
        BY <1>1, <3>1, <4>2 DEF PSC_Timer_create
    <3>2. CASE pooled = <<>>
      BY <1>1, <3>2 DEF PSC_Timer_create
    <3> QED
      BY <3>1, <3>2
  <2>2. InUser /\ UNCHANGED <<kernel, run>> /\ refcnt' = refcnt + 1
    BY <1>1 DEF PSC_Timer_create
  <2>3. \A u \in Timers : ~AboutToCall(u)
    BY <1>0, <2>2, NoneAboutToCall
  <2>4. pooled' \in Seq(Timers)
    BY <1>1, UnusedList DEF PSC_Timer_create, TimerTypeOK, PoolExact
  <2>5. TimerTypeOK'
    <3>1. timer' \in [Timers -> TimerStates]
      BY <2>1, TimerParts DEF TimerTypeOK
    <3>2. user' \in [Timers -> Expectations]
      <4>1. [Quiet EXCEPT !.left = kernel[t] # Disarmed] \in Expectations
        BY DEF Quiet, Expectations
      <4> QED
        BY <2>1, <4>1 DEF TimerTypeOK
    <3> QED
      BY <2>2, <2>4, <3>1, <3>2 DEF TimerTypeOK
  <2>6. ASSUME NEW u \in Timers PROVE TimerFits(u)'
    <3>1. (Expires(u)' <=> Expires(u)) /\ ~AboutToCall(u)'
      BY <2>2, <2>3 DEF Expires, AboutToCall
    <3>2. CASE u = t
      <4>1. timer'[t].life = "used" /\ timer'[t].job = 0
        BY <2>1 DEF TimerTypeOK, enableTimer
      <4>2. user'[t].runs = "no" /\ ~user'[t].unasked /\ (ToCome(t) => user'[t].left)
        <5>1. ToCome(t) => kernel[t] # Disarmed
          BY DEF ToCome, Disarmed
        <5>2. CASE user' = [user EXCEPT ![t] = [Quiet EXCEPT !.left = kernel[t] # Disarmed]]
          BY <5>1, <5>2 DEF TimerTypeOK, Quiet
        <5>3. CASE timer[t].life = "none" /\ UNCHANGED user
          BY <5>3 DEF TimerTypeOK, TimersFit, TimerFits
        <5> QED
          BY <2>1, <5>2, <5>3
      <4>3. ToCome(t)' <=> ToCome(t)
        BY <2>2 DEF ToCome
      <4>4. /\ kernel[t].armed = "once" => kernel[t].times = 0
            /\ ToCome(t) => ~Expires(t)
            /\ Expires(t) => (run[1].calls => run[1].left = 0)
        BY DEF TimersFit, TimerFits
      <4> QED
        BY <2>2, <3>1, <3>2, <4>1, <4>2, <4>3, <4>4 DEF TimerFits
    <3>3. CASE u # t
      <4>1. timer'[u] = timer[u] /\ user'[u] = user[u]
        BY <2>1, <3>3 DEF TimerTypeOK
      <4> QED
        BY <2>2, <2>3, <3>1, <4>1 DEF TimersFit, TimerFits, ToCome
    <3> QED
      BY <3>2, <3>3
  <2> QED
    BY <2>5, <2>6 DEF TimersFit
<1>2. ASSUME NEW t \in Timers, NEW p \in BOOLEAN, PSC_Timer_start(t, p)
      PROVE  TimerTypeOK' /\ TimersFit'
  <2>1. /\ InUser /\ timer[t].life = "used" /\ ~p /\ ~Expires(t)
        /\ UNCHANGED <<pooled, refcnt, run>>
    BY <1>2 DEF PSC_Timer_start, Used, Expires
  <2>2. \A u \in Timers : ~AboutToCall(u)
    BY <1>0, <2>1, NoneAboutToCall
  <2>3. \A u \in Timers : (Expires(u)' <=> Expires(u)) /\ ~AboutToCall(u)'
    BY <2>1, <2>2 DEF Expires, AboutToCall
  <2>4. CASE timer[t].ms = 0
    <3>1. UNCHANGED tvars
      BY <1>2, <2>1, <2>4 DEF PSC_Timer_start, tvars
    <3> QED
      BY <1>0, <2>3, <2>2, <3>1 DEF tvars, TimerTypeOK, TimersFit, TimerFits, ToCome
  <2>5. CASE timer[t].ms # 0 /\ timer[t].job # 0
    <3>1. timer[t].job = 1 /\ user[t].runs = "once" /\ ~user[t].left
      BY <2>1, TimerParts, <2>2, <2>5 DEF TimerTypeOK, TimersFit, TimerFits
    <3>2. user' = [user EXCEPT ![t].runs = "once", ![t].left = user[t].left /\ timer[t].job # 0]
      BY <1>2, <2>1, <2>5 DEF PSC_Timer_start
    <3>3. UNCHANGED <<timer, kernel>>
      BY <1>2, <2>5 DEF PSC_Timer_start
    <3>4. user' = user
      <4>1. user[t] \in Expectations
        BY DEF TimerTypeOK
      <4>2. (user[t].left /\ timer[t].job # 0) = user[t].left
        BY <3>1, <4>1 DEF Expectations
      <4> QED
        BY <3>1, <3>2, <4>1, <4>2 DEF TimerTypeOK, Expectations
    <3> QED
      BY <1>0, <2>1, <2>2, <2>3, <3>3, <3>4 DEF TimerTypeOK, TimersFit, TimerFits, ToCome
  <2>6. CASE timer[t].ms # 0 /\ timer[t].job = 0
    <3>1. /\ timer' = [timer EXCEPT ![t].job = 1]
          /\ kernel' = [kernel EXCEPT ![t] = [armed |-> "once", times |-> 0]]
      BY <1>2, <2>1, <2>6 DEF PSC_Timer_start
    <3>2. PICK v : v = [user[t] EXCEPT !.runs = "once", !.left = FALSE]
      OBVIOUS
    <3>3. v \in Expectations /\ v.runs = "once" /\ ~v.left /\ v.unasked = user[t].unasked
      <4>1. user[t] \in Expectations
        BY DEF TimerTypeOK
      <4> QED
        BY <3>2, <4>1 DEF Expectations
    <3>4. user' = [user EXCEPT ![t] = v]
      <4>1. user' = [user EXCEPT ![t].runs = "once", ![t].left = user[t].left /\ timer[t].job # 0]
        BY <1>2, <2>1, <2>6 DEF PSC_Timer_start
      <4>2. (user[t].left /\ timer[t].job # 0) = FALSE
        BY <2>6
      <4>3. user' = [user EXCEPT ![t].runs = "once", ![t].left = FALSE]
        BY <4>1, <4>2, Zenon
      <4> QED
        BY <3>2, <4>3 DEF TimerTypeOK
    <3>5. TimerTypeOK'
      <4>1. timer' \in [Timers -> TimerStates]
        BY <3>1, TimerParts DEF TimerTypeOK
      <4>2. kernel' \in [Timers -> [armed : {"no", "once"}, times : {0, 1}]]
        BY <3>1 DEF TimerTypeOK
      <4>3. user' \in [Timers -> Expectations]
        BY <3>3, <3>4 DEF TimerTypeOK
      <4> QED
        BY <2>1, <4>1, <4>2, <4>3 DEF TimerTypeOK
    <3>6. ASSUME NEW u \in Timers PROVE TimerFits(u)'
      <4>1. CASE u = t
        <5>1. /\ timer'[t].life = "used" /\ timer'[t].job = 1
              /\ kernel'[t].armed = "once" /\ kernel'[t].times = 0
              /\ user'[t] = v
          BY <2>1, <3>1, <3>4 DEF TimerTypeOK
        <5>2. ~user[t].unasked
          BY DEF TimersFit, TimerFits
        <5> QED
          BY <2>1, <2>3, <3>3, <4>1, <5>1, <5>2 DEF TimerFits, ToCome
      <4>2. CASE u # t
        <5>1. timer'[u] = timer[u] /\ kernel'[u] = kernel[u] /\ user'[u] = user[u]
          BY <3>1, <3>4, <4>2 DEF TimerTypeOK
        <5> QED
          BY <2>1, <2>2, <2>3, <5>1 DEF TimersFit, TimerFits, ToCome
      <4> QED
        BY <4>1, <4>2
    <3> QED
      BY <3>5, <3>6 DEF TimersFit
  <2> QED
    BY <2>4, <2>5, <2>6
<1>3. ASSUME NEW t \in Timers, PSC_Timer_stop(t) PROVE TimerTypeOK' /\ TimersFit'
  <2>1. InUser /\ timer[t].life = "used" /\ UNCHANGED <<pooled, refcnt, run>>
    BY <1>3 DEF PSC_Timer_stop, Used
  <2>2. user' = [user EXCEPT ![t].runs = "no"]
    BY <1>3 DEF PSC_Timer_stop
  <2>3. \A u \in Timers : ~AboutToCall(u)
    BY <1>0, <2>1, NoneAboutToCall
  <2>4. \A u \in Timers : (Expires(u)' <=> Expires(u)) /\ ~AboutToCall(u)'
    BY <2>1, <2>3 DEF Expires, AboutToCall
  <2>5. user' \in [Timers -> Expectations] /\ \A u \in Timers \ {t} : user'[u] = user[u]
    BY <2>2 DEF TimerTypeOK, Expectations
  <2>6. user'[t].runs = "no" /\ user'[t].left = user[t].left /\ user'[t].unasked = user[t].unasked
    BY <2>2 DEF TimerTypeOK, Expectations
  <2>7. CASE timer[t].job = 0
    <3>1. UNCHANGED <<timer, kernel>>
      BY <1>3, <2>7 DEF PSC_Timer_stop
    <3>2. TimerTypeOK'
      BY <2>1, <2>5, <3>1 DEF TimerTypeOK
    <3>3. ASSUME NEW u \in Timers PROVE TimerFits(u)'
      <4>1. CASE u = t
        BY <2>1, <2>3, <2>4, <2>6, <2>7, <3>1, <4>1 DEF TimersFit, TimerFits, ToCome
      <4>2. CASE u # t
        BY <2>1, <2>3, <2>4, <2>5, <3>1, <4>2 DEF TimersFit, TimerFits, ToCome
      <4> QED
        BY <4>1, <4>2
    <3> QED
      BY <3>2, <3>3 DEF TimersFit
  <2>8. CASE timer[t].job # 0
    <3>1. /\ timer' = [timer EXCEPT ![t].job = 0]
          /\ kernel' = [kernel EXCEPT ![t] = [armed |-> "no", times |-> 0]]
      BY <1>3, <2>8 DEF PSC_Timer_stop, Disarmed
    <3>0. timer' \in [Timers -> TimerStates] /\ kernel' \in [Timers -> [armed : {"no", "once"}, times : {0, 1}]]
      BY <3>1, TimerParts DEF TimerTypeOK
    <3>2. TimerTypeOK'
      BY <2>1, <2>5, <3>1, <3>0 DEF TimerTypeOK
    <3>3. ASSUME NEW u \in Timers PROVE TimerFits(u)'
      <4>1. CASE u = t
        <5>1. /\ timer'[t].life = "used" /\ timer'[t].job = 0
              /\ kernel'[t].armed = "no" /\ kernel'[t].times = 0
          BY <2>1, <3>1 DEF TimerTypeOK
        <5> QED
          BY <2>1, <2>3, <2>4, <2>6, <4>1, <5>1 DEF TimersFit, TimerFits, ToCome
      <4>2. CASE u # t
        <5>1. timer'[u] = timer[u] /\ kernel'[u] = kernel[u]
          BY <3>1, <4>2 DEF TimerTypeOK
        <5> QED
          BY <2>1, <2>3, <2>4, <2>5, <4>2, <5>1 DEF TimersFit, TimerFits, ToCome
      <4> QED
        BY <4>1, <4>2
    <3> QED
      BY <3>2, <3>3 DEF TimersFit
  <2> QED
    BY <2>7, <2>8
<1>4. ASSUME NEW t \in Timers, PSC_Timer_destroy(t) PROVE TimerTypeOK' /\ TimersFit'
  <2>1. /\ InUser /\ timer[t].life = "used"
        /\ run # <<>> => refcnt # 1
        /\ refcnt' = refcnt - 1 /\ UNCHANGED run
        /\ user' = [user EXCEPT ![t] = Quiet]
    BY <1>4 DEF PSC_Timer_destroy, Used
  <2>2. /\ \A u \in Timers : ~AboutToCall(u) /\ ~AboutToCall(u)'
        /\ \A u \in Timers : Expires(u)' <=> Expires(u)
    BY <1>0, <2>1, NoneAboutToCall DEF Expires, AboutToCall
  <2>3. user' \in [Timers -> Expectations]
    <3>1. Quiet \in Expectations
      BY DEF Quiet, Expectations
    <3> QED
      BY <2>1, <3>1 DEF TimerTypeOK
  <2>4. /\ \A u \in Timers \ {t} : user'[u] = user[u]
        /\ user'[t].runs = "no" /\ ~user'[t].unasked /\ ~user'[t].left
    BY <2>1 DEF TimerTypeOK, Quiet
  <2>5. refcnt' \in Nat /\ (refcnt = 1 => Used = {t})
    BY <1>0, <2>1, InUse DEF TimerTypeOK, PoolExact
  <2>6. CASE refcnt = 1
    <3>1. /\ timer' = [u \in Timers |-> IF timer[u].life = "none" THEN Fresh
                                        ELSE [Fresh EXCEPT !.life = "freed"]]
          /\ kernel' = [u \in Timers |-> [armed |-> "no", times |-> 0]] /\ pooled' = <<>>
      BY <1>4, <2>6 DEF PSC_Timer_destroy, Disarmed
    <3>2. run = <<>>
      BY <2>1, <2>6
    <3>3. timer' \in [Timers -> TimerStates]
      BY <3>1 DEF TimerStates, Fresh
    <3>4. kernel' \in [Timers -> [armed : {"no", "once"}, times : {0, 1}]]
      BY <3>1
    <3>5. TimerTypeOK'
      <4>1. pooled' \in Seq(Timers) /\ run' = <<>>
        BY <2>1, <3>1, <3>2
      <4> QED
        BY <2>3, <2>5, <3>3, <3>4, <4>1 DEF TimerTypeOK
    <3>6. ASSUME NEW u \in Timers PROVE TimerFits(u)'
      <4>1. /\ timer'[u].life = IF timer[u].life = "none" THEN "none" ELSE "freed"
            /\ kernel'[u].armed = "no" /\ kernel'[u].times = 0
        BY <3>1 DEF TimerTypeOK, Fresh
      <4>2. user'[u].runs = "no" /\ ~user'[u].unasked
        <5>1. CASE u = t
          BY <2>4, <5>1
        <5>2. CASE u # t
          BY <2>4, <2>5, <2>6, <5>2 DEF TimersFit, TimerFits, Used
        <5> QED
          BY <5>1, <5>2
      <4>3. ~Expires(u)'
        BY <2>1, <3>2 DEF Expires
      <4> QED
        BY <2>2, <4>1, <4>2, <4>3 DEF TimerFits, ToCome
    <3> QED
      BY <3>5, <3>6 DEF TimersFit
  <2>7. CASE refcnt # 1
    <3>1. /\ timer' = [timer EXCEPT ![t].life = "pooled"] /\ UNCHANGED kernel
          /\ pooled' = Append(pooled, t)
      BY <1>4, <2>7 DEF PSC_Timer_destroy
    <3>2. TimerTypeOK'
      <4>1. timer' \in [Timers -> TimerStates]
        BY <3>1, TimerParts DEF TimerTypeOK
      <4>2. pooled' \in Seq(Timers)
        BY <3>1 DEF TimerTypeOK
      <4> QED
        BY <2>1, <2>3, <2>5, <3>1, <4>1, <4>2 DEF TimerTypeOK
    <3>3. ASSUME NEW u \in Timers PROVE TimerFits(u)'
      <4>1. CASE u = t
        <5>1. timer'[t].life = "pooled"
          BY <3>1 DEF TimerTypeOK
        <5> QED
          BY <2>1, <2>2, <2>4, <3>1, <4>1, <5>1 DEF TimersFit, TimerFits, ToCome
      <4>2. CASE u # t
        <5>1. timer'[u] = timer[u]
          BY <3>1, <4>2 DEF TimerTypeOK
        <5> QED
          BY <2>1, <2>2, <2>4, <3>1, <4>2, <5>1 DEF TimersFit, TimerFits, ToCome
      <4> QED
        BY <4>1, <4>2
    <3> QED
      BY <3>2, <3>3 DEF TimersFit
  <2> QED
    BY <2>6, <2>7
<1>5. ASSUME NEW t \in Timers, tick(t) PROVE TimerTypeOK' /\ TimersFit'
  <2>1. kernel[t].armed = "once" /\ kernel[t].times = 0
    BY <1>0, <1>5 DEF tick, TimerTypeOK, TimersFit, TimerFits, ToCome
  <2>2. PICK k : k = [kernel[t] EXCEPT !.times = 1, !.armed = "no"]
    OBVIOUS
  <2>3. k \in [armed : {"no", "once"}, times : {0, 1}] /\ k.armed = "no" /\ k.times = 1
    <3>1. kernel[t] \in [armed : {"no", "once"}, times : {0, 1}]
      BY DEF TimerTypeOK
    <3> QED
      BY <2>2, <3>1
  <2>4. kernel' = [kernel EXCEPT ![t] = k]
    <3>1. kernel[t].times + 1 = 1
      BY <2>1
    <3>2. kernel' = [kernel EXCEPT ![t].times = 1, ![t].armed = "no"]
      BY <1>5, <2>1, <3>1, Zenon DEF tick
    <3> QED
      BY <2>2, <3>2 DEF TimerTypeOK
  <2>5. UNCHANGED <<timer, pooled, refcnt, run, user>>
    BY <1>5 DEF tick
  <2>6. TimerTypeOK'
    BY <2>3, <2>4, <2>5 DEF TimerTypeOK
  <2>7. \A u \in Timers : (Expires(u)' <=> Expires(u)) /\ (AboutToCall(u)' <=> AboutToCall(u))
    BY <2>5 DEF Expires, AboutToCall
  <2>8. TimersFit'
    BY <2>1, <2>3, <2>4, <2>5, <2>7 DEF TimersFit, TimerFits, ToCome, TimerTypeOK
  <2> QED
    BY <2>6, <2>8
<1>6. ASSUME NEW t \in Timers, expired(t) PROVE TimerTypeOK' /\ TimersFit'
  <2>1. kernel[t].times = 1 /\ kernel[t].armed = "no" /\ run = <<>>
    BY <1>0, <1>6 DEF expired, TimerTypeOK, TimersFit, TimerFits, ToCome
  <2>2. PICK r : r = [t |-> t, left |-> 1, calls |-> FALSE]
    OBVIOUS
  <2>3. /\ r \in [t : Timers, left : {0, 1}, calls : BOOLEAN]
        /\ r.t = t /\ r.left = 1 /\ ~r.calls
    BY <2>2
  <2>4. run' = <<r>> /\ UNCHANGED <<timer, pooled, refcnt, user>>
    BY <1>6, <2>1, <2>2 DEF expired
  <2>5. run' # <<>> /\ run'[1] = r
    BY <2>4
  <2>6. kernel' = [kernel EXCEPT ![t].times = 0]
    BY <1>6 DEF expired
  <2>7. TimerTypeOK'
    BY <2>3, <2>4, <2>6 DEF TimerTypeOK
  <2>8. \A u \in Timers : /\ ~Expires(u) /\ ~AboutToCall(u)
                          /\ (Expires(u)' <=> u = t) /\ (AboutToCall(u)' <=> u = t)
    BY <2>1, <2>3, <2>5 DEF Expires, AboutToCall
  <2>9. TimersFit'
    BY <2>1, <2>3, <2>4, <2>5, <2>6, <2>8 DEF TimersFit, TimerFits, ToCome, TimerTypeOK
  <2> QED
    BY <2>7, <2>9
<1>7. ASSUME expired_raise PROVE TimerTypeOK' /\ TimersFit'
  <2>1. PICK t \in Timers : t = run[1].t
    BY <1>0, <1>7 DEF expired_raise
  <2>2. run # <<>> /\ run[1].left = 1 /\ Expires(t) /\ AboutToCall(t) /\ ~run[1].calls
    BY <1>0, <1>7, <2>1 DEF expired_raise, Expires, AboutToCall
  <2>3. /\ timer[t].life \in {"used", "pooled"} /\ ~user[t].unasked /\ ~ToCome(t)
        /\ t \in Used <=> timer[t].life = "used"
        /\ user[t].runs = "once" <=> timer[t].life = "used" /\ ~user[t].left
    BY <2>2 DEF TimersFit, TimerFits, Used
  <2>4. UNCHANGED <<timer, kernel, pooled, refcnt>>
    BY <1>7 DEF expired_raise
  <2>5. PICK r : r = [run[1] EXCEPT !.left = 0, !.calls = t \in Used]
    OBVIOUS
  <2>6. /\ r \in [t : Timers, left : {0, 1}, calls : BOOLEAN]
        /\ r.t = t /\ r.left = 0
    <3>1. run[1] \in [t : Timers, left : {0, 1}, calls : BOOLEAN] /\ (t \in Used) \in BOOLEAN
      BY <1>0, <2>2
    <3> QED
      BY <2>1, <2>5, <3>1
  <2>7. run' = <<r>>
    <3>1. run[1].left - 1 = 0
      BY <2>2
    <3>2. run' = <<[run[1] EXCEPT !.left = run[1].left - 1, !.calls = run[1].t \in Used]>>
      BY <1>7 DEF expired_raise
    <3> QED
      BY <2>1, <2>5, <3>1, <3>2, Zenon
  <2>8. run' # <<>> /\ run'[1] = r
    BY <2>7
  <2>9. \A u \in Timers : /\ (Expires(u) <=> u = t) /\ (AboutToCall(u) <=> u = t)
                          /\ (Expires(u)' <=> u = t) /\ ~AboutToCall(u)'
    BY <2>1, <2>2, <2>6, <2>8 DEF Expires, AboutToCall
  <2>10. PICK v : v = [user[t] EXCEPT !.unasked = FALSE, !.stray = user[t].stray \/ user[t].left,
                                      !.left = FALSE, !.runs = "no"]
    OBVIOUS
  <2>11. v \in Expectations /\ v.runs = "no" /\ ~v.unasked /\ ~v.left
    <3>1. user[t] \in Expectations
      BY DEF TimerTypeOK
    <3> QED
      BY <2>10, <3>1 DEF Expectations
  <2>12. /\ user' \in [Timers -> Expectations] /\ \A u \in Timers \ {t} : user'[u] = user[u]
         /\ user'[t].runs = "no" /\ ~user'[t].unasked
    <3>1. CASE t \in Used
      <4>1. user' = [user EXCEPT ![t].unasked = user[t].unasked \/ (user[t].runs = "no" /\ ~user[t].left),
                                 ![t].stray = user[t].stray \/ user[t].left,
                                 ![t].left = FALSE,
                                 ![t].runs = IF user[t].runs = "once" THEN "no" ELSE user[t].runs]
        BY <1>7, <2>1, <3>1 DEF expired_raise
      <4>2. /\ (user[t].unasked \/ (user[t].runs = "no" /\ ~user[t].left)) = FALSE
            /\ (IF user[t].runs = "once" THEN "no" ELSE user[t].runs) = "no"
        <5>1. user[t].runs \in {"no", "once"}
          BY DEF TimerTypeOK, Expectations
        <5> QED
          BY <2>3, <3>1, <5>1
      <4>3. user' = [user EXCEPT ![t].unasked = FALSE, ![t].stray = user[t].stray \/ user[t].left,
                                 ![t].left = FALSE, ![t].runs = "no"]
        BY <4>1, <4>2, Zenon
      <4>4. user' = [user EXCEPT ![t] = v]
        BY <2>10, <4>3 DEF TimerTypeOK
      <4> QED
        BY <2>11, <4>4 DEF TimerTypeOK
    <3>2. CASE t \notin Used
      <4>1. user' = user
        BY <1>7, <2>1, <3>2 DEF expired_raise
      <4> QED
        BY <2>3, <3>2, <4>1 DEF TimerTypeOK, TimersFit, TimerFits
    <3> QED
      BY <3>1, <3>2
  <2>13. TimerTypeOK'
    BY <2>4, <2>6, <2>7, <2>12 DEF TimerTypeOK
  <2>14. ASSUME NEW u \in Timers PROVE TimerFits(u)'
    <3>1. (ToCome(u)' <=> ToCome(u)) /\ timer'[u] = timer[u] /\ kernel'[u] = kernel[u]
      BY <2>4 DEF ToCome
    <3>2. CASE u = t
      <4>1. run'[1].left = 0
        BY <2>6, <2>8
      <4>2. /\ kernel[t].armed = "once" => kernel[t].times = 0
            /\ ~(timer[t].life = "used" /\ timer[t].job = 1 /\ ~Expires(t))
        BY <2>2 DEF TimersFit, TimerFits
      <4> QED
        BY <2>3, <2>9, <2>12, <3>1, <3>2, <4>1, <4>2 DEF TimerFits
    <3>3. CASE u # t
      <4>1. ~Expires(u) /\ ~AboutToCall(u) /\ ~Expires(u)' /\ ~AboutToCall(u)' /\ user'[u] = user[u]
        BY <2>9, <2>12, <3>3
      <4> QED
        BY <3>1, <4>1 DEF TimersFit, TimerFits
    <3> QED
      BY <3>2, <3>3
  <2> QED
    BY <2>13, <2>14 DEF TimersFit
<1>8. ASSUME handlerDone PROVE TimerTypeOK' /\ TimersFit'
  <2>1. run # <<>> /\ run[1].calls /\ UNCHANGED <<timer, kernel, pooled, refcnt, user>>
    BY <1>8 DEF handlerDone
  <2>2. PICK r : r = [run[1] EXCEPT !.calls = FALSE]
    OBVIOUS
  <2>3. /\ r \in [t : Timers, left : {0, 1}, calls : BOOLEAN]
        /\ r.t = run[1].t /\ r.left = run[1].left /\ ~r.calls
    BY <1>0, <2>1, <2>2
  <2>4. run' = <<r>>
    BY <1>8, <2>2 DEF handlerDone
  <2>5. run' # <<>> /\ run'[1] = r
    BY <2>4
  <2>6. \A u \in Timers : (Expires(u)' <=> Expires(u)) /\ (AboutToCall(u)' <=> AboutToCall(u))
    BY <2>1, <2>3, <2>5 DEF Expires, AboutToCall
  <2>7. TimerTypeOK'
    BY <2>1, <2>3, <2>4 DEF TimerTypeOK
  <2>8. TimersFit'
    BY <2>1, <2>3, <2>5, <2>6 DEF TimersFit, TimerFits, ToCome
  <2> QED
    BY <2>7, <2>8
<1>9. ASSUME expired_end PROVE TimerTypeOK' /\ TimersFit'
  <2>1. PICK t \in Timers : t = run[1].t
    BY <1>0, <1>9 DEF expired_end
  <2>2. /\ run # <<>> /\ run[1].left = 0 /\ Expires(t) /\ run' = <<>>
        /\ UNCHANGED <<kernel, pooled, refcnt, user>>
    BY <1>9, <2>1 DEF expired_end, Expires
  <2>3. timer[t].periodic = 0
    BY TimerParts DEF TimerTypeOK
  <2>4. timer' = [timer EXCEPT ![t].job = 0]
    BY <1>9, <2>1, <2>3 DEF expired_end
  <2>5. \A u \in Timers : (Expires(u) <=> u = t) /\ ~AboutToCall(u) /\ ~Expires(u)'
                          /\ ~AboutToCall(u)'
    BY <2>1, <2>2 DEF Expires, AboutToCall
  <2>6. TimerTypeOK'
    BY <1>0, <2>2, <2>4, TimerParts DEF TimerTypeOK
  <2>7. TimersFit'
    BY <2>2, <2>4, <2>5 DEF TimersFit, TimerFits, ToCome, TimerTypeOK
  <2> QED
    BY <2>6, <2>7
<1>10. ASSUME UNCHANGED tvars PROVE TimerTypeOK' /\ TimersFit'
  BY <1>0, <1>10 DEF tvars, TimerTypeOK, TimersFit, TimerFits, ToCome, Expires, AboutToCall
<1>11. ASSUME NEW t \in Timers, NEW ms \in {0, 1}, PSC_Timer_setMs(t, ms)
       PROVE  TimerTypeOK' /\ TimersFit'
  <2>1. timer' = [timer EXCEPT ![t].ms = ms] /\ UNCHANGED <<kernel, pooled, refcnt, run, user>>
    BY <1>11 DEF PSC_Timer_setMs
  <2>2. TimerTypeOK'
    BY <1>0, <2>1, TimerParts DEF TimerTypeOK
  <2>3. \A u \in Timers : timer'[u].life = timer[u].life /\ timer'[u].job = timer[u].job
    BY <1>0, <2>1 DEF TimerTypeOK
  <2>4. TimersFit'
    BY <1>0, <2>1, <2>3 DEF TimersFit, TimerFits, ToCome, Expires, AboutToCall
  <2> QED
    BY <2>2, <2>4
<1> QED
  BY <1>1, <1>2, <1>3, <1>4, <1>5, <1>6, <1>7, <1>8, <1>9, <1>10, <1>11 DEF TimerNext

\* The pool does not change with what happens inside a timer.
LEMMA SameLives ==
  ASSUME PoolExact, UNCHANGED <<pooled, refcnt>>,
         \A u \in Timers : timer'[u].life = timer[u].life
  PROVE  PoolExact'
<1>1. Used' = Used
  BY DEF Used
<1>2. {t \in Timers : timer[t].life = "pooled"}' = {t \in Timers : timer[t].life = "pooled"}
  OBVIOUS
<1> QED
  BY <1>1, <1>2 DEF PoolExact

\* The pool stays exact, action by action.
LEMMA PoolStep ==
  ASSUME TimerAssumption, Uses \subseteq {"destroy"}, TimerInv, [TimerNext]_tvars
  PROVE  PoolExact'
<1>0. /\ TimerTypeOK /\ PoolExact /\ pooled \in Seq(Timers) /\ IsInjective(pooled)
      /\ run # <<>> => run[1].t \in Timers
  BY RunIs DEF TimerInv, TimerTypeOK, PoolExact
<1>1. ASSUME PSC_Timer_create PROVE PoolExact'
  <2>1. refcnt' = refcnt + 1 /\ refcnt' # 0
    BY <1>0, <1>1 DEF PSC_Timer_create, TimerTypeOK
  <2>2. PICK t \in Timers : /\ timer[t].life \in {"none", "pooled"}
                            /\ timer' = [timer EXCEPT ![t] = enableTimer]
                            /\ \/ /\ timer[t].life = "pooled" /\ pooled # <<>>
                                  /\ t = Head(pooled) /\ pooled' = Tail(pooled)
                               \/ timer[t].life = "none" /\ UNCHANGED pooled
    <3>1. CASE pooled # <<>>
      <4>1. Head(pooled) \in Timers /\ timer[Head(pooled)].life = "pooled"
        BY <1>0, <3>1, UnusedList DEF PoolExact
      <4> QED
        BY <1>1, <3>1, <4>1 DEF PSC_Timer_create
    <3>2. CASE pooled = <<>>
      BY <1>1, <3>2 DEF PSC_Timer_create
    <3> QED
      BY <3>1, <3>2
  <2>3. /\ timer'[t].life = "used"
        /\ \A u \in Timers \ {t} : timer'[u] = timer[u]
    BY <1>0, <2>2 DEF TimerTypeOK, enableTimer
  <2>4. Used' = Used \cup {t} /\ t \notin Used
    BY <2>2, <2>3 DEF Used
  <2>5. refcnt' = Cardinality(Used')
    <3>1. IsFiniteSet(Used)
      BY FS_Subset DEF TimerAssumption, Used
    <3> QED
      BY <1>0, <2>1, <2>4, <3>1, FS_AddElement DEF PoolExact
  <2>6. {u \in Timers : timer'[u].life = "pooled"}
          = {u \in Timers : timer[u].life = "pooled"} \ {t}
    BY <2>3
  <2>7. IsInjective(pooled') /\ ToSet(pooled') = ToSet(pooled) \ {t}
    <3>1. CASE pooled # <<>> /\ t = Head(pooled) /\ pooled' = Tail(pooled)
      BY <1>0, <3>1, UnusedList
    <3>2. CASE timer[t].life = "none" /\ UNCHANGED pooled
      <4>1. t \notin ToSet(pooled)
        BY <1>0, <3>2 DEF PoolExact
      <4> QED
        BY <1>0, <3>2, <4>1
    <3> QED
      BY <2>2, <3>1, <3>2
  <2> QED
    BY <1>0, <2>1, <2>5, <2>6, <2>7 DEF PoolExact
<1>2. ASSUME NEW t \in Timers, PSC_Timer_destroy(t) PROVE PoolExact'
  <2>1. timer[t].life = "used" /\ refcnt' = refcnt - 1
    BY <1>2 DEF PSC_Timer_destroy, Used
  <2>2. /\ IsFiniteSet(Used) /\ t \in Used /\ refcnt \in Nat \ {0} /\ refcnt = Cardinality(Used)
        /\ refcnt = 1 => Used = {t}
    BY <1>0, <2>1, InUse DEF PoolExact
  <2>3. CASE refcnt = 1
    <3>1. /\ timer' = [u \in Timers |-> IF timer[u].life = "none" THEN Fresh
                                        ELSE [Fresh EXCEPT !.life = "freed"]]
          /\ pooled' = <<>>
      BY <1>2, <2>3 DEF PSC_Timer_destroy
    <3>2. \A u \in Timers : timer'[u].life \in {"none", "freed"}
      BY <1>0, <3>1 DEF TimerTypeOK, Fresh
    <3>3. Used' = {} /\ {u \in Timers : timer'[u].life = "pooled"} = {}
      BY <3>2 DEF Used
    <3>4. Cardinality(Used') = 0
      BY <3>3, FS_EmptySet
    <3>5. IsInjective(pooled') /\ ToSet(pooled') = {}
      BY <3>1 DEF IsInjective, ToSet
    <3> QED
      BY <2>1, <2>3, <3>1, <3>3, <3>4, <3>5 DEF PoolExact
  <2>4. CASE refcnt # 1
    <3>1. timer' = [timer EXCEPT ![t].life = "pooled"] /\ pooled' = Append(pooled, t)
      BY <1>2, <2>4 DEF PSC_Timer_destroy
    <3>2. /\ timer'[t].life = "pooled"
          /\ \A u \in Timers \ {t} : timer'[u] = timer[u]
      BY <1>0, <3>1 DEF TimerTypeOK
    <3>3. Used' = Used \ {t}
      BY <3>2 DEF Used
    <3>4. refcnt' = Cardinality(Used') /\ refcnt' # 0
      <4>1. Cardinality(Used \ {t}) = refcnt - 1
        BY <2>2, FS_RemoveElement
      <4> QED
        BY <2>1, <2>2, <2>4, <3>3, <4>1
    <3>5. {u \in Timers : timer'[u].life = "pooled"}
            = {u \in Timers : timer[u].life = "pooled"} \cup {t}
      BY <3>2
    <3>6. t \notin ToSet(pooled)
      BY <1>0, <2>1 DEF PoolExact
    <3>7. IsInjective(pooled') /\ ToSet(pooled') = ToSet(pooled) \cup {t}
      BY <1>0, <3>1, <3>6, UnusedList
    <3> QED
      BY <1>0, <3>4, <3>5, <3>7 DEF PoolExact
  <2> QED
    BY <2>3, <2>4
<1>3. ASSUME NEW t \in Timers, NEW p \in BOOLEAN, PSC_Timer_start(t, p) \/ PSC_Timer_stop(t)
      PROVE  PoolExact'
  <2>1. UNCHANGED <<pooled, refcnt>>
    BY <1>3 DEF PSC_Timer_start, PSC_Timer_stop
  <2>2. \/ UNCHANGED timer
        \/ timer' = [timer EXCEPT ![t].job = 0] \/ timer' = [timer EXCEPT ![t].job = 1]
    BY <1>3 DEF PSC_Timer_start, PSC_Timer_stop
  <2>3. \A u \in Timers : timer'[u].life = timer[u].life
    <3>1. timer \in [Timers -> TimerStates]
      BY <1>0 DEF TimerTypeOK
    <3>2. \A j \in {0, 1} : \A u \in Timers : [timer EXCEPT ![t].job = j][u].life = timer[u].life
      BY <3>1, TimerParts
    <3>3. CASE UNCHANGED timer
      BY <3>3
    <3>4. ASSUME NEW j \in {0, 1}, timer' = [timer EXCEPT ![t].job = j]
          PROVE  \A u \in Timers : timer'[u].life = timer[u].life
      BY <3>2, <3>4, Zenon
    <3> QED
      BY <2>2, <3>3, <3>4, Zenon
  <2> QED
    BY <1>0, <2>1, <2>3, SameLives
<1>4. ASSUME NEW t \in Timers, tick(t) \/ expired(t) PROVE PoolExact'
  BY <1>0, <1>4, SameLives DEF tick, expired
<1>5. ASSUME expired_raise \/ handlerDone PROVE PoolExact'
  BY <1>0, <1>5, SameLives DEF expired_raise, handlerDone
<1>6. ASSUME expired_end PROVE PoolExact'
  <2>1. PICK t \in Timers : t = run[1].t
    BY <1>0, <1>6 DEF expired_end
  <2>2. timer' = [timer EXCEPT ![t].job = 0] /\ UNCHANGED <<pooled, refcnt>>
    BY <1>0, <1>6, <2>1, TimerParts DEF expired_end, TimerTypeOK
  <2>3. \A u \in Timers : timer'[u].life = timer[u].life
    BY <1>0, <2>2 DEF TimerTypeOK
  <2> QED
    BY <1>0, <2>2, <2>3, SameLives
<1>7. ASSUME NEW t \in Timers, NEW ms \in {0, 1}, PSC_Timer_setMs(t, ms) PROVE PoolExact'
  <2>1. timer' = [timer EXCEPT ![t].ms = ms] /\ UNCHANGED <<pooled, refcnt>>
    BY <1>7 DEF PSC_Timer_setMs
  <2>2. \A u \in Timers : timer'[u].life = timer[u].life
    BY <1>0, <2>1 DEF TimerTypeOK
  <2> QED
    BY <1>0, <2>1, <2>2, SameLives
<1>8. ASSUME UNCHANGED tvars PROVE PoolExact'
  BY <1>0, <1>8, SameLives DEF tvars
<1> QED
  BY <1>1, <1>2, <1>3, <1>4, <1>5, <1>6, <1>7, <1>8 DEF TimerNext

\* timer.c, for what the library does with its timers: whatever timers are created, set,
\* started, stopped and destroyed, also while they run and in their handlers, a timer that
\* was started expires unless it is stopped, no other does, except once one whose place a
\* timer destroyed while it ran had before, an armed one can be stopped, and the pool has
\* each unused timer once and ends with the last, for any finite set of timers.
THEOREM TimersAlwaysExact ==
    TimerAssumption /\ Uses \subseteq {"destroy"} => (TimerSpec => []TimersExact)
<1> SUFFICES ASSUME TimerAssumption, Uses \subseteq {"destroy"} PROVE TimerSpec => []TimersExact
  OBVIOUS
<1>1. TimerInit => TimerInv
  <2> SUFFICES ASSUME TimerInit PROVE TimerInv
    OBVIOUS
  <2>1. /\ \A t \in Timers : /\ timer[t].life = "none" /\ kernel[t].armed = "no"
                             /\ kernel[t].times = 0 /\ user[t].runs = "no" /\ ~user[t].unasked
        /\ run = <<>> /\ pooled = <<>> /\ refcnt = 0
    BY DEF TimerInit, Fresh, Disarmed, Quiet
  <2>2. TimerTypeOK
    <3>1. timer \in [Timers -> TimerStates]
      BY DEF TimerInit, Fresh, TimerStates
    <3>2. kernel \in [Timers -> [armed : {"no", "once"}, times : {0, 1}]]
      BY DEF TimerInit, Disarmed
    <3>3. user \in [Timers -> Expectations]
      BY DEF TimerInit, Quiet, Expectations
    <3> QED
      BY <2>1, <3>1, <3>2, <3>3 DEF TimerTypeOK
  <2>3. TimersFit
    BY <2>1 DEF TimersFit, TimerFits, ToCome, Expires, AboutToCall
  <2>4. PoolExact
    <3>1. Used = {} /\ {t \in Timers : timer[t].life = "pooled"} = {}
      BY <2>1 DEF Used
    <3>2. Cardinality(Used) = 0
      BY <3>1, FS_EmptySet
    <3>3. IsInjective(pooled) /\ ToSet(pooled) = {}
      BY <2>1 DEF IsInjective, ToSet
    <3> QED
      BY <2>1, <3>1, <3>2, <3>3 DEF PoolExact
  <2> QED
    BY <2>2, <2>3, <2>4 DEF TimerInv
<1>2. TimerInv /\ [TimerNext]_tvars => TimerInv'
  BY TimerFitsStep, PoolStep DEF TimerInv
<1>3. TimerInv => TimersExact
  <2> SUFFICES ASSUME TimerInv PROVE TimersExact
    OBVIOUS
  <2>1. StartedWillExpire
    BY DEF StartedWillExpire, TimerInv, TimerTypeOK, Expectations, TimersFit, TimerFits, ToCome,
           AboutToCall, Expires, Used
  <2>2. NoEventUnasked
    BY DEF NoEventUnasked, TimerInv, TimersFit, TimerFits, Used
  <2>3. ArmedCanBeStopped
    BY DEF ArmedCanBeStopped, TimerInv, TimerTypeOK, TimersFit, TimerFits, ToCome, Used
  <2> QED
    BY <2>1, <2>2, <2>3 DEF TimersExact, TimerInv
<1> QED
  BY <1>1, <1>2, <1>3, PTL DEF TimerSpec

-----------------------------------------------------------------------------
(* The addresses a client tries *)

\* The states of the loop over the addresses in which what is owed fits the list.
TryStates == {s \in [bl : Listings, owed : Debts, left : BOOLEAN, addr : Addrs \cup {NoAddr},
                     failed : SUBSET Addrs] : OwedFits(s.bl, s.owed)}
Outcomes == [Addrs -> {"ok", "fails", "invalid"}]

\* An address on the list is owed at least one hit, any other one none.
LEMMA ListedOwed ==
  ASSUME ClientAssumption, NEW s \in TryStates, NEW a \in Addrs
  PROVE  Listed(s, a) <=> s.owed.hits[a] # 0
<1>1. /\ s.bl \in Listings /\ s.owed \in Debts /\ OwedFits(s.bl, s.owed) /\ DOMAIN s.bl = 1 .. BLACKLISTSIZE
  BY DEF TryStates, Listings
<1>2. s.owed.hits[a] \in Nat
  BY <1>1 DEF Debts
<1> QED
  BY <1>1, <1>2 DEF OwedFits, Listed

\* A hit is counted for an address that is on the list.
LEMMA SkipFits ==
  ASSUME ClientAssumption, NEW s \in TryStates, NEW a \in Addrs, Listed(s, a)
  PROVE  Skip(s, a) \in TryStates /\ Skip(s, a).left = s.left
         /\ Skip(s, a).failed = s.failed \cup {a} /\ Skip(s, a).addr = s.addr
<1> DEFINE t == Skip(s, a)
<1>1. /\ s.bl \in Listings /\ s.owed \in Debts /\ OwedFits(s.bl, s.owed)
      /\ DOMAIN s.bl = 1 .. BLACKLISTSIZE /\ s.left \in BOOLEAN /\ s.addr \in Addrs \cup {NoAddr}
      /\ s.failed \in SUBSET Addrs /\ DOMAIN s = {"bl", "owed", "left", "addr", "failed"}
  BY DEF TryStates, Listings
<1>2. s.owed.hits[a] \in Nat \ {0} /\ s.owed.hits \in [Addrs -> Nat] /\ s.owed.wrong = FALSE
  BY <1>1, ListedOwed DEF Debts
<1>3. /\ t.bl = Hit(s.bl, a) /\ t.failed = s.failed \cup {a} /\ t.left = s.left /\ t.addr = s.addr
      /\ t.owed = [hits |-> [s.owed.hits EXCEPT ![a] = s.owed.hits[a] - 1], wrong |-> FALSE]
      /\ DOMAIN t = {"bl", "owed", "left", "addr", "failed"}
  <2>1. /\ t.bl = Hit(s.bl, a) /\ t.failed = s.failed \cup {a} /\ t.left = s.left
        /\ t.addr = s.addr /\ DOMAIN t = DOMAIN s
    BY <1>1 DEF Skip
  <2>2. t.owed = [hits |-> [s.owed.hits EXCEPT ![a] = s.owed.hits[a] - 1], wrong |-> FALSE]
    BY <1>1, <1>2 DEF Skip, TryStates, Debts
  <2> HIDE DEF t
  <2> QED
    BY <1>1, <2>1, <2>2
<1>4. t.owed \in Debts
  <2>1. s.owed.hits[a] - 1 \in Nat
    BY <1>2
  <2> HIDE DEF t
  <2> QED BY <1>2, <1>3, <2>1 DEF Debts
<1>5. ASSUME NEW i \in 1 .. BLACKLISTSIZE
      PROVE  /\ t.bl[i] \in [addr : Addrs \cup {NoAddr}, hits : Nat]
             /\ s.bl[i].addr # a => t.bl[i] = s.bl[i]
             /\ s.bl[i].addr = a /\ s.bl[i].hits = 1 => t.bl[i].addr = NoAddr
             /\ s.bl[i].addr = a /\ s.bl[i].hits # 1 => t.bl[i].addr = a /\ t.bl[i].hits = s.bl[i].hits - 1
             /\ s.bl[i].addr = a => s.bl[i].hits \in 1 .. s.owed.hits[a]
  <2>1. s.bl[i] \in [addr : Addrs \cup {NoAddr}, hits : Nat]
    BY <1>1 DEF Listings
  <2>2. t.bl[i] = (IF s.bl[i].addr # a THEN s.bl[i]
                   ELSE IF s.bl[i].hits = 1 THEN Unlisted ELSE [s.bl[i] EXCEPT !.hits = s.bl[i].hits - 1])
    BY <1>1, <1>3 DEF Hit
  <2>3. s.bl[i].addr = a => s.bl[i].hits \in 1 .. s.owed.hits[a]
    BY <1>1 DEF OwedFits
  <2> HIDE DEF t
  <2> QED
    BY <1>2, <2>1, <2>2, <2>3 DEF Unlisted
<1>6. t.bl \in Listings
  <2>1. DOMAIN t.bl = 1 .. BLACKLISTSIZE /\ t.bl = [i \in 1 .. BLACKLISTSIZE |-> t.bl[i]]
    BY <1>1, <1>3 DEF Hit
  <2> HIDE DEF t
  <2> QED
    BY <1>5, <2>1 DEF Listings
<1>7. OwedFits(t.bl, t.owed)
  <2> HIDE DEF t
  <2> SUFFICES ASSUME NEW b \in Addrs
               PROVE  /\ \A i \in 1 .. BLACKLISTSIZE : (t.bl[i].addr = b => t.bl[i].hits \in 1 .. t.owed.hits[b])
                      /\ t.owed.hits[b] # 0 => \E i \in 1 .. BLACKLISTSIZE :
                            t.bl[i].addr = b /\ t.bl[i].hits = t.owed.hits[b]
    BY DEF OwedFits
  <2>1. NoAddr # b
    BY DEF ClientAssumption
  <2>2. /\ \A i \in 1 .. BLACKLISTSIZE : (s.bl[i].addr = b => s.bl[i].hits \in 1 .. s.owed.hits[b])
        /\ s.owed.hits[b] # 0 => \E i \in 1 .. BLACKLISTSIZE :
                            s.bl[i].addr = b /\ s.bl[i].hits = s.owed.hits[b]
    BY <1>1 DEF OwedFits
  <2>3. CASE b # a
    <3>1. t.owed.hits[b] = s.owed.hits[b]
      BY <1>2, <1>3, <2>3
    <3>2. \A i \in 1 .. BLACKLISTSIZE : /\ t.bl[i].addr = b <=> s.bl[i].addr = b
                                        /\ s.bl[i].addr = b => t.bl[i] = s.bl[i]
      BY <1>5, <2>1, <2>3
    <3> QED
      BY <2>2, <3>1, <3>2
  <2>4. CASE b = a
    <3>1. t.owed.hits[b] = s.owed.hits[a] - 1
      BY <1>2, <1>3, <2>4
    <3>2. ASSUME NEW i \in 1 .. BLACKLISTSIZE, t.bl[i].addr = b
          PROVE  s.bl[i].addr = a /\ s.bl[i].hits # 1 /\ t.bl[i].hits = s.bl[i].hits - 1
      BY <1>5, <2>1, <2>4, <3>2
    <3>3. PICK k \in 1 .. BLACKLISTSIZE : s.bl[k].addr = a /\ s.bl[k].hits = s.owed.hits[a]
      BY <1>2, <2>2, <2>4
    <3>4. t.owed.hits[b] # 0 => t.bl[k].addr = b /\ t.bl[k].hits = t.owed.hits[b]
      BY <1>2, <1>5, <2>4, <3>1, <3>3
    <3> QED
      BY <1>2, <1>5, <3>1, <3>2, <3>4
  <2> QED
    BY <2>3, <2>4
<1>8. t \in [bl : Listings, owed : Debts, left : BOOLEAN, addr : Addrs \cup {NoAddr},
                     failed : SUBSET Addrs]
  <2>1. t = [bl |-> t.bl, owed |-> t.owed, left |-> t.left, addr |-> t.addr, failed |-> t.failed]
    <3>1. t = [x \in DOMAIN t |-> t[x]]
      BY DEF Skip
    <3> HIDE DEF t
    <3> QED
      BY <1>3, <3>1
  <2> HIDE DEF t
  <2> QED
    BY <1>1, <1>3, <1>4, <1>6, <2>1
<1> QED
  <2> HIDE DEF t
  <2>1. t \in TryStates
    BY <1>7, <1>8 DEF TryStates
  <2> QED
    BY <1>3, <2>1 DEF t

\* One round of the loop.
LEMMA RoundFits ==
  ASSUME ClientAssumption, NEW s \in TryStates, NEW a \in Addrs, NEW out \in Outcomes,
         NEW t, t = TryAddr(s, a, out)
  PROVE  /\ t \in TryStates
         /\ s.left => t = s
         /\ ~s.left /\ t.left => t.addr # NoAddr \/ t.failed = Addrs
         /\ ~s.left /\ ~t.left => s.failed \subseteq t.failed /\ (a \in t.failed \/ WrongProto(a))
<1>1. /\ s.bl \in Listings /\ s.owed \in Debts /\ OwedFits(s.bl, s.owed)
      /\ s.left \in BOOLEAN /\ s.addr \in Addrs \cup {NoAddr}
      /\ s.failed \in SUBSET Addrs /\ DOMAIN s = {"bl", "owed", "left", "addr", "failed"}
  BY DEF TryStates
<1>2. CASE s.left \/ WrongProto(a)
  <2>1. t = s
    BY <1>2 DEF TryAddr
  <2> QED
    BY <1>2, <2>1
<1>3. CASE ~s.left /\ ~WrongProto(a) /\ Listed(s, a)
  <2>1. t = Skip(s, a)
    BY <1>3 DEF TryAddr
  <2> QED
    BY <1>3, <2>1, SkipFits
<1>4. CASE ~s.left /\ ~WrongProto(a) /\ ~Listed(s, a) /\ out[a] = "ok"
  <2>1. t = Connected(s, a)
    BY <1>4 DEF TryAddr
  <2>2. s.owed.hits[a] = 0 /\ s.owed.wrong = FALSE
    BY <1>1, <1>4, ListedOwed DEF Debts
  <2>3. t = [s EXCEPT !.left = TRUE, !.addr = a]
    <3>1. [s.owed EXCEPT !.wrong = @ \/ s.owed.hits[a] # 0] = s.owed
      BY <1>1, <2>2 DEF Debts
    <3> QED
      BY <1>1, <2>1, <3>1 DEF Connected
  <2>4. t.left /\ t.addr = a /\ t.addr # NoAddr
    BY <1>1, <2>3 DEF ClientAssumption
  <2> QED
    BY <1>1, <1>4, <2>3, <2>4 DEF TryStates
<1>5. CASE ~s.left /\ ~WrongProto(a) /\ ~Listed(s, a) /\ out[a] = "fails"
  <2>1. t = [s EXCEPT !.failed = s.failed \cup {a}]
    BY <1>5 DEF TryAddr
  <2> QED
    BY <1>1, <1>5, <2>1 DEF TryStates
<1>6. CASE ~s.left /\ ~WrongProto(a) /\ ~Listed(s, a) /\ out[a] = "invalid"
  <2>1. t = [s EXCEPT !.left = TRUE, !.failed = Addrs]
    BY <1>6 DEF TryAddr
  <2> QED
    BY <1>1, <1>6, <2>1 DEF TryStates
<1> QED
  BY <1>2, <1>3, <1>4, <1>5, <1>6 DEF Outcomes

\* The whole loop: it leaves the list as it should be, and without a connection it
\* has gone through all addresses.
LEMMA LoopFits ==
  ASSUME ClientAssumption, TriedInv, NEW res0 \in Seq(Addrs), NEW out \in Outcomes
  PROVE  LET s == TryAll(res0, out)
         IN  /\ s \in TryStates
             /\ s.addr = NoAddr =>
                   \A k \in 1 .. Len(res0) : res0[k] \in s.failed \/ WrongProto(res0[k])
<1> DEFINE n == Len(res0)
           tried[i \in 0 .. n] == IF i = 0 THEN TryFirst ELSE TryAddr(tried[i - 1], res0[i], out)
           F == [i \in 1 .. n |-> [s \in TryStates |-> TryAddr(s, res0[i], out)]]
<1>1. n \in Nat /\ \A i \in 1 .. n : res0[i] \in Addrs
  BY LenProperties, ElementOfSeq
<1>2. TryFirst \in TryStates /\ TryFirst.left = FALSE /\ TryFirst.failed = {}
  BY DEF TryFirst, TryStates, TriedInv
<1>3. F \in [1 .. n -> [TryStates -> TryStates]]
  BY <1>1, RoundFits
<1>4. PICK f \in [0 .. n -> TryStates] :
         f[0] = TryFirst /\ \A i \in 1 .. n : f[i] = F[i][f[i - 1]]
  <2>1. HasRun(n, TryStates, TryFirst, F)
    <3> HIDE DEF F, n, tried
    <3> QED
      BY <1>1, <1>2, <1>3, LoopRuns
  <2> QED
    BY <2>1 DEF HasRun, IsRun
<1>5. \A i \in 1 .. n : f[i] = TryAddr(f[i - 1], res0[i], out)
  <2> SUFFICES ASSUME NEW i \in 1 .. n PROVE F[i][f[i - 1]] = TryAddr(f[i - 1], res0[i], out)
    BY <1>4
  <2>1. f[i - 1] \in TryStates
    BY <1>1, <1>4
  <2> QED
    BY <2>1
<1>6. f = [i \in 0 .. n |-> IF i = 0 THEN TryFirst ELSE TryAddr(f[i - 1], res0[i], out)]
  <2> HIDE DEF n
  <2>1. \A i \in 0 .. n : f[i] = IF i = 0 THEN TryFirst ELSE TryAddr(f[i - 1], res0[i], out)
    BY <1>1, <1>4, <1>5
  <2> QED
    BY <1>4, <2>1
<1>7. tried = [i \in 0 .. n |-> IF i = 0 THEN TryFirst ELSE TryAddr(tried[i - 1], res0[i], out)]
  BY <1>6
<1>8. TryAll(res0, out) = tried[n]
  BY DEF TryAll
<1> HIDE DEF tried, F, n
<1>9. tried[0] = TryFirst /\ \A i \in 1 .. n : tried[i] = TryAddr(tried[i - 1], res0[i], out)
  <2>1. \A i \in 0 .. n : tried[i] = IF i = 0 THEN TryFirst ELSE TryAddr(tried[i - 1], res0[i], out)
    BY <1>7
  <2> QED
    BY <1>1, <2>1
<1> DEFINE Fits(i) == /\ tried[i] \in TryStates
                      /\ tried[i].left => tried[i].addr # NoAddr \/ tried[i].failed = Addrs
                      /\ ~tried[i].left => \A k \in 1 .. i : res0[k] \in tried[i].failed \/ WrongProto(res0[k])
           S == {i \in 0 .. n : Fits(i)}
<1>10. 0 \in S
  BY <1>1, <1>2, <1>9
<1>11. ASSUME NEW m \in 0 .. n - 1, m \in S PROVE m + 1 \in S
  <2>1. /\ m + 1 \in 1 .. n /\ (m + 1) - 1 = m /\ m + 1 \in 0 .. n
        /\ \A k \in 1 .. m + 1 : k \in 1 .. m \/ k = m + 1
    BY <1>1
  <2>2. tried[m + 1] = TryAddr(tried[m], res0[m + 1], out)
    BY <1>9, <2>1
  <2>3. Fits(m)
    BY <1>11
  <2>4. res0[m + 1] \in Addrs
    BY <1>1, <2>1
  <2>5. /\ tried[m + 1] \in TryStates
        /\ tried[m].left => tried[m + 1] = tried[m]
        /\ ~tried[m].left /\ tried[m + 1].left =>
              tried[m + 1].addr # NoAddr \/ tried[m + 1].failed = Addrs
        /\ ~tried[m].left /\ ~tried[m + 1].left =>
              /\ tried[m].failed \subseteq tried[m + 1].failed
              /\ res0[m + 1] \in tried[m + 1].failed \/ WrongProto(res0[m + 1])
    BY <2>2, <2>3, <2>4, RoundFits
  <2>6. Fits(m + 1)
    BY <2>1, <2>3, <2>5
  <2> QED
    BY <2>1, <2>6
<1>12. n \in S
  <2>1. n \in 0 .. n /\ \A m \in 0 .. n - 1 : m \in S => m + 1 \in S
    BY <1>1, <1>11
  <2> HIDE DEF S
  <2>2. \A m \in 0 .. n : m \in S
    BY <1>1, <1>10, <2>1, CountingUp, Zenon
  <2> QED
    BY <2>1, <2>2
<1>13. /\ tried[n] \in TryStates
       /\ tried[n].addr = NoAddr => \A k \in 1 .. n : res0[k] \in tried[n].failed \/ WrongProto(res0[k])
  BY <1>1, <1>12
<1> QED
  BY <1>8, <1>13 DEF n

\* Creating a connection from a list of addresses keeps what is owed, and fails
\* only after all of them.
LEMMA CreateTried ==
  ASSUME ClientAssumption, TriedInv, NEW r \in Requests, NEW res0 \in Seq(Addrs),
         NEW cert, NEW calls, createFromAddrinfo(r, res0, cert, calls),
         opts'.o = opts.o, DOMAIN opts' = {"o", "refcnt", "user"}
  PROVE  TriedInv'
<1>1. PICK out \in Outcomes :
        LET s == TryAll(res0, out)
            ok == s.addr # NoAddr
            c == IF cert = "read" THEN "freed" ELSE cert
        IN  /\ blacklist' = s.bl
            /\ owed' = s.owed
            /\ req' = [req EXCEPT ![r] =
                 IF ok THEN [NoRequest EXCEPT !.at = "connecting", !.addr = s.addr,
                                              !.cert = c, !.calls = calls]
                 ELSE [NoRequest EXCEPT !.at = "failed", !.res0 = res0, !.failed = s.failed,
                                        !.cert = c, !.calls = calls]]
  BY DEF createFromAddrinfo, Outcomes
<1> DEFINE s == TryAll(res0, out)
           q == req'[r]
<1>2. /\ s \in TryStates
      /\ s.addr = NoAddr => \A k \in 1 .. Len(res0) : res0[k] \in s.failed \/ WrongProto(res0[k])
  BY LoopFits
<1>3. blacklist' = s.bl /\ owed' = s.owed
  BY <1>1
<1>4. /\ DOMAIN req' = Requests /\ \A p \in Requests : p # r => req'[p] = req[p]
      /\ \/ /\ s.addr # NoAddr /\ q.at = "connecting" /\ q.addr = s.addr /\ q.res0 = <<>>
         \/ /\ s.addr = NoAddr /\ q.at = "failed" /\ q.res0 = res0 /\ q.failed = s.failed
      /\ DOMAIN q = DOMAIN NoRequest
  BY <1>1 DEF TriedInv, NoRequest
<1> HIDE DEF s, q
<1>5. blacklist' \in Listings /\ owed' \in Debts /\ OwedFits(blacklist', owed')
  BY <1>2, <1>3 DEF TryStates
<1>6. \A a \in Addrs : WrongProto(a)' <=> WrongProto(a)
  BY DEF WrongProto
<1>7. AllAddressesTried'
  <2> SUFFICES ASSUME NEW p \in Requests, req'[p].at = "failed", NEW a \in Range(req'[p].res0)
               PROVE  a \in req'[p].failed \/ WrongProto(a)'
    BY DEF AllAddressesTried
  <2>1. CASE p = r
    <3>1. q.res0 = res0 /\ q.failed = s.failed /\ s.addr = NoAddr
      BY <1>4, <2>1 DEF q
    <3>2. PICK k \in 1 .. Len(res0) : a = res0[k]
      BY <2>1, <3>1, LenProperties DEF Range, q
    <3> QED
      BY <1>2, <1>6, <2>1, <3>1, <3>2, ElementOfSeq DEF q
  <2>2. CASE p # r
    <3>1. req'[p] = req[p]
      BY <1>4, <2>2
    <3>2. a \in Addrs
      BY <3>1, RangeOfSeq DEF TriedInv, Range
    <3> QED
      BY <1>6, <3>1, <3>2 DEF TriedInv, AllAddressesTried
  <2> QED
    BY <2>1, <2>2
<1>8. \A p \in Requests : 
          /\ DOMAIN req'[p] = DOMAIN NoRequest /\ req'[p].res0 \in Seq(Addrs)
          /\ req'[p].at \in {"resolved", "failed"} \/ req'[p].res0 = <<>>
          /\ req'[p].at = "connecting" => req'[p].addr \in Addrs
  <2>1. s.addr \in Addrs \cup {NoAddr}
    BY <1>2 DEF TryStates
  <2> SUFFICES ASSUME NEW p \in Requests 
               PROVE /\ DOMAIN req'[p] = DOMAIN NoRequest /\ req'[p].res0 \in Seq(Addrs)
                     /\ req'[p].at \in {"resolved", "failed"} \/ req'[p].res0 = <<>>
                     /\ req'[p].at = "connecting" => req'[p].addr \in Addrs
    OBVIOUS
  <2>2. CASE p = r
    <3>1. req'[p] = q /\ <<>> \in Seq(Addrs)
      BY <2>2 DEF q
    <3>2. CASE s.addr # NoAddr /\ q.at = "connecting" /\ q.addr = s.addr /\ q.res0 = <<>>
      BY <1>4, <2>1, <3>1, <3>2
    <3>3. CASE q.at = "failed" /\ q.res0 = res0
      BY <1>4, <3>1, <3>3
    <3> QED
      BY <1>4, <3>2, <3>3
  <2>3. CASE p # r
    BY <1>4, <2>3 DEF TriedInv
  <2> QED
    BY <2>2, <2>3
<1>9. opts'.o \in Options
  BY DEF TriedInv
<1> QED
  BY <1>4, <1>5, <1>7, <1>8, <1>9 DEF TriedInv

\* A step of request r that leaves the list alone, and r without results or with
\* ones not tried yet.
LEMMA RequestTried ==
  ASSUME ClientAssumption, TriedInv, NEW r \in Requests, NEW q, UNCHANGED <<blacklist, owed>>,
         opts'.o = opts.o, DOMAIN opts' = {"o", "refcnt", "user"},
         req' = [req EXCEPT ![r] = q], DOMAIN q = DOMAIN NoRequest, q.res0 \in Seq(Addrs),
         q.at = "resolved" \/ q.res0 = <<>>, q.at # "connecting"
  PROVE  TriedInv'
<1>1. /\ DOMAIN req' = Requests /\ \A p \in Requests : p # r => req'[p] = req[p]
      /\ req'[r] = q
  BY DEF TriedInv
<1>2. \A a \in Addrs : WrongProto(a)' <=> WrongProto(a)
  BY DEF WrongProto
<1>3. AllAddressesTried'
  <2> SUFFICES ASSUME NEW p \in Requests, req'[p].at = "failed", NEW a \in Range(req'[p].res0)
               PROVE  a \in req'[p].failed \/ WrongProto(a)'
    BY DEF AllAddressesTried
  <2>1. p # r
    BY <1>1 DEF Range
  <2>2. req'[p] = req[p]
    BY <1>1, <2>1
  <2>3. a \in Addrs
    BY <2>2, RangeOfSeq DEF TriedInv, Range
  <2> QED
    BY <1>2, <2>2, <2>3 DEF TriedInv, AllAddressesTried
<1>4. \A p \in Requests :
          /\ DOMAIN req'[p] = DOMAIN NoRequest /\ req'[p].res0 \in Seq(Addrs)
          /\ req'[p].at \in {"resolved", "failed"} \/ req'[p].res0 = <<>>
          /\ req'[p].at = "connecting" => req'[p].addr \in Addrs
  BY <1>1 DEF TriedInv
<1> QED
  BY <1>1, <1>3, <1>4 DEF TriedInv

\* A connection to an address failed: the address is listed where there is room,
\* and owed the hits it was listed with, or more where it is already.
LEMMA ListTried ==
  ASSUME ClientAssumption, TriedInv, NEW hits \in Nat \ {0}, NEW a \in Addrs,
         PSC_Connection_blacklistAddress(hits, a)
  PROVE  blacklist' \in Listings /\ owed' \in Debts /\ OwedFits(blacklist', owed')
<1> DEFINE free == {i \in DOMAIN blacklist : blacklist[i].addr = NoAddr}
<1>1. /\ blacklist \in Listings /\ owed \in Debts /\ OwedFits(blacklist, owed)
      /\ DOMAIN blacklist = 1 .. BLACKLISTSIZE /\ owed.hits[a] \in Nat
      /\ owed.hits \in [Addrs -> Nat] /\ owed.wrong = FALSE /\ NoAddr \notin Addrs
      /\ BLACKLISTSIZE \in Nat
  BY DEF TriedInv, Listings, Debts, ClientAssumption
<1>2. CASE free = {}
  <2>1. UNCHANGED <<blacklist, owed>>
    BY <1>2 DEF PSC_Connection_blacklistAddress
  <2> QED
    BY <1>1, <2>1
<1>3. CASE free # {}
  <2> DEFINE k == Min(free)
             h == Max({owed.hits[a], hits})
  <2>1. /\ blacklist' = [blacklist EXCEPT ![k] = [addr |-> a, hits |-> hits]]
        /\ owed' = [owed EXCEPT !.hits[a] = h]
    BY <1>3 DEF PSC_Connection_blacklistAddress
  <2>2. k \in free
    <3>1. free \subseteq Nat
      BY <1>1
    <3> HIDE DEF free
    <3>2. \E x \in free : \A y \in free : x =< y
      BY <1>3, <3>1, LeastNatural
    <3> QED
      BY <3>2 DEF Min
  <2>3. h \in {owed.hits[a], hits} /\ h >= owed.hits[a] /\ h >= hits
    <3>1. \E x \in {owed.hits[a], hits} : \A y \in {owed.hits[a], hits} : x >= y
      BY <1>1
    <3> QED
      BY <3>1 DEF Max
  <2> HIDE DEF k, h
  <2>4. k \in 1 .. BLACKLISTSIZE /\ blacklist[k].addr = NoAddr
    BY <1>1, <2>2
  <2>5. /\ blacklist'[k] = [addr |-> a, hits |-> hits]
        /\ \A i \in 1 .. BLACKLISTSIZE : i # k => blacklist'[i] = blacklist[i]
        /\ blacklist' \in Listings
    BY <1>1, <2>1, <2>4 DEF Listings
  <2>6. h \in Nat /\ owed' = [hits |-> [owed.hits EXCEPT ![a] = h], wrong |-> FALSE]
    BY <1>1, <2>1, <2>3 DEF Debts
  <2>7. owed' \in Debts /\ owed'.hits[a] = h /\ \A b \in Addrs : b # a => owed'.hits[b] = owed.hits[b]
    BY <1>1, <2>6 DEF Debts
  <2>8. ASSUME NEW b \in Addrs
        PROVE  /\ \A i \in 1 .. BLACKLISTSIZE : (blacklist'[i].addr = b => blacklist'[i].hits \in 1 .. owed'.hits[b])
               /\ owed'.hits[b] # 0 =>
                     \E i \in 1 .. BLACKLISTSIZE : blacklist'[i].addr = b /\ blacklist'[i].hits = owed'.hits[b]
    <3>1. /\ \A i \in 1 .. BLACKLISTSIZE : (blacklist[i].addr = b => blacklist[i].hits \in 1 .. owed.hits[b])
          /\ owed.hits[b] # 0 =>
                \E i \in 1 .. BLACKLISTSIZE : blacklist[i].addr = b /\ blacklist[i].hits = owed.hits[b]
      BY <1>1 DEF OwedFits
    <3>2. CASE b # a
      <4>1. \A i \in 1 .. BLACKLISTSIZE : /\ blacklist'[i].addr = b <=> blacklist[i].addr = b
                                          /\ blacklist[i].addr = b => blacklist'[i] = blacklist[i]
        BY <1>1, <2>4, <2>5, <3>2
      <4> QED
        BY <2>7, <3>1, <3>2, <4>1
    <3>3. CASE b = a
      <4>1. \A i \in 1 .. BLACKLISTSIZE : (blacklist'[i].addr = b => blacklist'[i].hits \in 1 .. h)
        BY <1>1, <2>3, <2>5, <2>6, <3>1, <3>3
      <4>2. CASE h = hits
        BY <2>4, <2>5, <2>7, <3>3, <4>1, <4>2
      <4>3. CASE h # hits
        <5>1. h = owed.hits[a] /\ h # 0
          BY <1>1, <2>3, <4>3
        <5>2. PICK i \in 1 .. BLACKLISTSIZE : blacklist[i].addr = b /\ blacklist[i].hits = h
          BY <3>1, <3>3, <5>1
        <5>3. i # k
          BY <1>1, <2>4, <5>2
        <5> QED
          BY <2>5, <2>7, <3>3, <4>1, <5>2, <5>3
      <4> QED
        BY <4>2, <4>3
    <3> QED
      BY <3>2, <3>3
  <2> QED
    BY <2>5, <2>7, <2>8 DEF OwedFits
<1> QED
  BY <1>2, <1>3

\* Closing a connection forgets its request.
LEMMA CloseTried ==
  ASSUME ClientAssumption, TriedInv, NEW r \in Requests, NEW failed \in BOOLEAN,
         ConnectionCloses(r, failed)
  PROVE  TriedInv'
<1>1. /\ opts' = opts /\ req[r].at = "connecting" /\ req' = [req EXCEPT ![r] = NoRequest]
      /\ opts.o.hits \in Nat /\ req[r].addr \in Addrs
  BY DEF ConnectionCloses, TriedInv, ClientAssumption
<1>2. blacklist' \in Listings /\ owed' \in Debts /\ OwedFits(blacklist', owed')
  <2>1. CASE failed /\ opts.o.hits # 0
    <3>1. PSC_Connection_blacklistAddress(opts.o.hits, req[r].addr)
      BY <2>1 DEF ConnectionCloses
    <3> QED
      BY <1>1, <2>1, <3>1, ListTried
  <2>2. CASE ~(failed /\ opts.o.hits # 0)
    BY <2>2 DEF ConnectionCloses, TriedInv
  <2> QED
    BY <2>1, <2>2
<1>3. /\ DOMAIN req' = Requests /\ \A p \in Requests : p # r => req'[p] = req[p]
      /\ req'[r] = NoRequest
  BY <1>1 DEF TriedInv
<1>4. NoRequest.at = "idle" /\ NoRequest.res0 = <<>> /\ <<>> \in Seq(Addrs)
  BY DEF NoRequest
<1>5. AllAddressesTried'
  <2> SUFFICES ASSUME NEW p \in Requests, req'[p].at = "failed", NEW a \in Range(req'[p].res0)
               PROVE  a \in req'[p].failed \/ WrongProto(a)'
    BY DEF AllAddressesTried
  <2>1. req'[p] = req[p]
    BY <1>3, <1>4
  <2> QED
    BY <1>1, <2>1 DEF TriedInv, AllAddressesTried, WrongProto
<1>6. \A p \in Requests :
          /\ DOMAIN req'[p] = DOMAIN NoRequest /\ req'[p].res0 \in Seq(Addrs)
          /\ req'[p].at \in {"resolved", "failed"} \/ req'[p].res0 = <<>>
          /\ req'[p].at = "connecting" => req'[p].addr \in Addrs
  BY <1>3, <1>4 DEF TriedInv
<1> QED
  BY <1>1, <1>2, <1>3, <1>5, <1>6 DEF TriedInv

\* Every step of a client keeps the invariant.
LEMMA TriedStep == ClientAssumption /\ TriedInv /\ [ClientNext]_clvars => TriedInv'
<1> SUFFICES ASSUME ClientAssumption, TriedInv, [ClientNext]_clvars PROVE TriedInv'
  OBVIOUS
<1> USE DEF PSC_TcpClientOpts_destroy
<1>1. CASE UNCHANGED clvars
  <2>1. \A a : WrongProto(a)' <=> WrongProto(a)
    BY <1>1 DEF clvars, WrongProto
  <2> QED
    BY <1>1, <2>1 DEF clvars, TriedInv, AllAddressesTried
<1>2. CASE UserDestroysOpts
  <2>1. /\ UNCHANGED <<blacklist, req, owed>> /\ opts'.o = opts.o
        /\ DOMAIN opts' = {"o", "refcnt", "user"}
    BY <1>2 DEF UserDestroysOpts, TriedInv
  <2>2. \A a : WrongProto(a)' <=> WrongProto(a)
    BY <2>1 DEF WrongProto
  <2> QED
    BY <2>1, <2>2 DEF TriedInv, AllAddressesTried
<1>3. ASSUME NEW r \in Requests PROVE DOMAIN req[r] = DOMAIN NoRequest /\ req[r].res0 \in Seq(Addrs)
  BY DEF TriedInv
<1>4. resolveAddress \subseteq Seq(Addrs)
  <2>1. <<>> \in Seq(Addrs)
    OBVIOUS
  <2> QED
    BY <2>1, Zenon DEF resolveAddress, ClientAssumption
<1>5. ASSUME NEW r \in Requests, PSC_Connection_createTcpClient(r) PROVE TriedInv'
  <2>1. PICK c \in fetchCert, res0 \in resolveAddress :
          IF c.ok /\ res0 # <<>> THEN createFromAddrinfo(r, res0, c.cert, 0)
          ELSE /\ req' = [req EXCEPT ![r].at = "failed",
                                     ![r].cert = IF c.ok THEN Freed(c.cert) ELSE c.cert]
               /\ UNCHANGED <<blacklist, tls_ctx, owed>>
    BY <1>5 DEF PSC_Connection_createTcpClient
  <2>2. opts' = opts /\ DOMAIN opts = {"o", "refcnt", "user"} /\ req[r].at = "idle"
    BY <1>5 DEF PSC_Connection_createTcpClient, TriedInv
  <2>3. CASE createFromAddrinfo(r, res0, c.cert, 0)
    BY <1>4, <2>2, <2>3, CreateTried
  <2>4. CASE /\ req' = [req EXCEPT ![r].at = "failed",
                                   ![r].cert = IF c.ok THEN Freed(c.cert) ELSE c.cert]
             /\ UNCHANGED <<blacklist, tls_ctx, owed>>
    <3> DEFINE q == [req[r] EXCEPT !.at = "failed", !.cert = IF c.ok THEN Freed(c.cert) ELSE c.cert]
    <3>1. DOMAIN q = DOMAIN NoRequest /\ q.res0 = <<>> /\ q.at = "failed" /\ <<>> \in Seq(Addrs)
      BY <1>3, <2>2 DEF TriedInv, NoRequest
    <3>2. req' = [req EXCEPT ![r] = q]
      BY <2>4
    <3> HIDE DEF q
    <3> QED
      BY <2>2, <2>4, <3>1, <3>2, RequestTried
  <2> QED
    BY <2>1, <2>3, <2>4
<1>6. ASSUME NEW r \in Requests, PSC_Connection_createTcpClientAsync(r) PROVE TriedInv'
  <2>0. PICK at \in {"queued", "lost"} : req' = [req EXCEPT ![r].at = at]
    BY <1>6 DEF PSC_Connection_createTcpClientAsync
  <2> DEFINE q == [req[r] EXCEPT !.at = at]
  <2>1. /\ req' = [req EXCEPT ![r] = q] /\ UNCHANGED <<blacklist, owed>> /\ req[r].at = "idle"
        /\ opts'.o = opts.o /\ DOMAIN opts' = {"o", "refcnt", "user"}
    BY <1>6, <2>0 DEF PSC_Connection_createTcpClientAsync, TriedInv
  <2>2. DOMAIN q = DOMAIN NoRequest /\ q.res0 = <<>> /\ q.at \in {"queued", "lost"} /\ <<>> \in Seq(Addrs)
    BY <1>3, <2>1 DEF TriedInv, NoRequest
  <2> HIDE DEF q
  <2> QED
    BY <2>1, <2>2, RequestTried
<1>7. ASSUME NEW r \in Requests, doResolve(r) PROVE TriedInv'
  <2>1. PICK c \in fetchCert, res0 \in resolveAddress :
          req' = [req EXCEPT ![r].at = "resolved", ![r].cert = c.cert,
                             ![r].res0 = IF c.ok THEN res0 ELSE <<>>]
    BY <1>7 DEF doResolve
  <2> DEFINE q == [req[r] EXCEPT !.at = "resolved", !.cert = c.cert,
                                 !.res0 = IF c.ok THEN res0 ELSE <<>>]
  <2>2. /\ UNCHANGED <<blacklist, owed>> /\ opts' = opts /\ DOMAIN opts = {"o", "refcnt", "user"}
        /\ req' = [req EXCEPT ![r] = q]
    BY <1>7, <2>1 DEF doResolve, TriedInv
  <2>3. /\ DOMAIN q = DOMAIN NoRequest /\ q.res0 = (IF c.ok THEN res0 ELSE <<>>)
        /\ q.at = "resolved" /\ <<>> \in Seq(Addrs)
    BY <1>3 DEF TriedInv, NoRequest
  <2> HIDE DEF q
  <2> QED
    BY <1>4, <2>2, <2>3, RequestTried
<1>8. ASSUME NEW r \in Requests, clientResolveDone(r) PROVE TriedInv'
  <2>1. opts'.o = opts.o /\ DOMAIN opts' = {"o", "refcnt", "user"}
    BY <1>8 DEF clientResolveDone, TriedInv
  <2>2. CASE createFromAddrinfo(r, req[r].res0, req[r].cert, req[r].calls + 1)
    BY <1>3, <2>1, <2>2, CreateTried
  <2>3. CASE req[r].res0 = <<>>
    <3> DEFINE q == [req[r] EXCEPT !.at = "failed", !.cert = Freed(req[r].cert),
                                   !.calls = req[r].calls + 1]
    <3>1. req' = [req EXCEPT ![r] = q] /\ UNCHANGED <<blacklist, owed>>
      BY <1>8, <2>3 DEF clientResolveDone
    <3>2. DOMAIN q = DOMAIN NoRequest /\ q.res0 = <<>> /\ q.at = "failed" /\ <<>> \in Seq(Addrs)
      BY <1>3, <2>3 DEF NoRequest
    <3> HIDE DEF q
    <3> QED
      BY <2>1, <3>1, <3>2, RequestTried
  <2> QED
    BY <1>8, <2>2, <2>3 DEF clientResolveDone
<1>9. ASSUME NEW r \in Requests, AskAgain(r) PROVE TriedInv'
  <2>1. /\ req' = [req EXCEPT ![r] = NoRequest] /\ UNCHANGED <<opts, blacklist, owed>>
        /\ DOMAIN opts = {"o", "refcnt", "user"}
    BY <1>9 DEF AskAgain, TriedInv
  <2>2. NoRequest.res0 = <<>> /\ NoRequest.at = "idle" /\ <<>> \in Seq(Addrs)
    BY DEF NoRequest
  <2> QED
    BY <2>1, <2>2, RequestTried
<1> QED
  BY <1>1, <1>2, <1>5, <1>6, <1>7, <1>8, <1>9, CloseTried DEF ClientNext

\* client.c, createFromAddrinfo and blacklistcheck: for any requests, addresses, results
\* of lookups and sizes of the blacklist, in whatever order connections fail and
\* others are created, a listed address is passed over exactly as often as was asked
\* for, and no address is left out when creating a connection fails.
THEOREM ClientTries == ClientAssumption => (ClientSpec => []AddressesTried)
<1> SUFFICES ASSUME ClientAssumption PROVE ClientSpec => []AddressesTried
  OBVIOUS
<1>1. ClientInit => TriedInv
  <2> SUFFICES ASSUME ClientInit PROVE TriedInv
    OBVIOUS
  <2>1. /\ NoRequest.res0 = <<>> /\ NoRequest.at = "idle" /\ <<>> \in Seq(Addrs)
        /\ \A r \in Requests : req[r] = NoRequest
    BY DEF NoRequest, ClientInit
  <2>2. blacklist \in Listings /\ owed \in Debts
    BY DEF ClientInit, Listings, Debts, Unlisted
  <2>3. OwedFits(blacklist, owed)
    BY DEF ClientInit, OwedFits, Unlisted, ClientAssumption
  <2>4. AllAddressesTried
    BY <2>1 DEF AllAddressesTried
  <2>5. DOMAIN opts = {"o", "refcnt", "user"} /\ opts.o \in Options
    BY DEF ClientInit
  <2>6. DOMAIN req = Requests
    BY DEF ClientInit
  <2>7. ASSUME NEW r \in Requests
        PROVE  /\ DOMAIN req[r] = DOMAIN NoRequest /\ req[r].res0 \in Seq(Addrs)
               /\ req[r].res0 = <<>> /\ req[r].at # "connecting"
    BY <2>1
  <2> QED
    BY <2>2, <2>3, <2>4, <2>5, <2>6, <2>7 DEF TriedInv
<1>2. TriedInv => AddressesTried
  BY DEF TriedInv, AddressesTried, AvoidedAsAsked, Debts
<1> QED
  BY <1>1, <1>2, TriedStep, PTL DEF ClientSpec

-----------------------------------------------------------------------------
(* Sums over a set *)

\* The union of some of the sets of a family.
UnionOf(B, s) == UNION {B[p] : p \in s}

\* B is a family of finite sets, no two of which have something in common.
Disjoint(B, S) == /\ \A p \in S : IsFiniteSet(B[p])
                  /\ \A p, q \in S : p # q => B[p] \cap B[q] = {}

\* One more set of a family.
LEMMA UnionAdds ==
  ASSUME NEW S, IsFiniteSet(S), NEW B, Disjoint(B, S), NEW s \in SUBSET S, NEW x \in s,
         IsFiniteSet(UnionOf(B, s \ {x}))
  PROVE  /\ IsFiniteSet(UnionOf(B, s))
         /\ Cardinality(UnionOf(B, s)) = Cardinality(B[x]) + Cardinality(UnionOf(B, s \ {x}))
<1> DEFINE U == UnionOf(B, s \ {x})
<1>1. UnionOf(B, s) = B[x] \cup U
  BY DEF UnionOf
<1>2. B[x] \cap U = {}
  BY DEF Disjoint, UnionOf
<1>3. IsFiniteSet(B[x]) /\ IsFiniteSet(U)
  BY DEF Disjoint
<1> HIDE DEF U
<1>4. /\ IsFiniteSet(B[x] \cup U)
      /\ Cardinality(B[x] \cup U) = Cardinality(B[x]) + Cardinality(U) - Cardinality(B[x] \cap U)
  BY <1>3, FS_Union
<1>5. Cardinality(B[x]) \in Nat /\ Cardinality(U) \in Nat /\ Cardinality({}) = 0
  BY <1>3, FS_CardinalityType, FS_EmptySet
<1>6. Cardinality(B[x] \cup U) = Cardinality(B[x]) + Cardinality(U)
  <2>1. PICK a \in Nat : a = Cardinality(B[x])
    BY <1>5
  <2>2. PICK b \in Nat : b = Cardinality(U)
    BY <1>5
  <2>3. Cardinality(B[x] \cup U) = a + b - 0
    BY <1>2, <1>4, <1>5, <2>1, <2>2, Zenon
  <2>4. a + b - 0 = a + b
    OBVIOUS
  <2> QED
    BY <2>1, <2>2, <2>3, <2>4, Zenon
<1>7. IsFiniteSet(UnionOf(B, s)) /\ Cardinality(UnionOf(B, s)) = Cardinality(B[x]) + Cardinality(U)
  BY <1>1, <1>4, <1>6, Zenon
<1> QED
  BY <1>7 DEF U

\* The union of a finite family is finite.
LEMMA UnionFinite ==
  ASSUME NEW S, IsFiniteSet(S), NEW B, Disjoint(B, S)
  PROVE  \A s \in SUBSET S : IsFiniteSet(UnionOf(B, s))
<1> DEFINE n == Cardinality(S)
           T == {m \in 0 .. n : \A s \in SUBSET S : Cardinality(s) = m => IsFiniteSet(UnionOf(B, s))}
<1>1. n \in Nat
  BY FS_CardinalityType
<1>2. \A s \in SUBSET S : IsFiniteSet(s) /\ Cardinality(s) \in 0 .. n
  <2>1. ASSUME NEW s \in SUBSET S PROVE IsFiniteSet(s) /\ Cardinality(s) \in 0 .. n
    <3>1. IsFiniteSet(s) /\ Cardinality(s) <= n
      BY FS_Subset
    <3>2. Cardinality(s) \in Nat
      BY <3>1, FS_CardinalityType
    <3> QED
      BY <1>1, <3>1, <3>2
  <2> QED
    BY <2>1
<1>3. 0 \in T
  <2>1. ASSUME NEW s \in SUBSET S, Cardinality(s) = 0 PROVE IsFiniteSet(UnionOf(B, s))
    <3>1. s = {}
      BY <1>2, <2>1, FS_EmptySet
    <3>2. UnionOf(B, s) = {}
      BY <3>1 DEF UnionOf
    <3> QED
      BY <3>2, FS_EmptySet
  <2> QED
    BY <1>1, <2>1
<1>4. ASSUME NEW m \in 0 .. n - 1, m \in T PROVE m + 1 \in T
  <2>1. ASSUME NEW s \in SUBSET S, Cardinality(s) = m + 1 PROVE IsFiniteSet(UnionOf(B, s))
    <3>1. PICK x \in s : TRUE
      BY <1>1, <2>1, FS_EmptySet
    <3>2. IsFiniteSet(s \ {x}) /\ Cardinality(s \ {x}) = m
      BY <1>1, <1>2, <2>1, FS_RemoveElement
    <3>3. IsFiniteSet(UnionOf(B, s \ {x}))
      BY <1>4, <3>2
    <3> QED
      BY <3>3, UnionAdds
  <2> QED
    BY <1>1, <2>1
<1> HIDE DEF T
<1>5. \A m \in 0 .. n : m \in T
  BY <1>1, <1>3, <1>4, CountingUp
<1> QED
  BY <1>2, <1>5 DEF T

\* The sum of the numbers c of the elements of a set.
SumOf(c, S) == MapThenSumSet(LAMBDA p : c[p], S)

\* it adds up the numbers c of the elements of a set, in the order of CHOOSE.
AddsUp(it, c, S) ==
  it = [s \in SUBSET S |-> IF s = {} THEN 0
                           ELSE c[CHOOSE x \in s : TRUE] + it[s \ {CHOOSE x \in s : TRUE}]]

\* MapThenSumSet, with its fold.
LEMMA SumFolds ==
  ASSUME NEW c, NEW S
  PROVE  SumOf(c, S) = (CHOOSE it : AddsUp(it, c, S))[S]
  BY DEF SumOf, MapThenSumSet, MapThenFoldSet, AddsUp

\* The sizes of the unions add up.
LEMMA SizesAddUp ==
  ASSUME NEW S, IsFiniteSet(S), NEW B, Disjoint(B, S), NEW c, \A p \in S : c[p] = Cardinality(B[p])
  PROVE  AddsUp([s \in SUBSET S |-> Cardinality(UnionOf(B, s))], c, S)
<1> DEFINE g == [s \in SUBSET S |-> Cardinality(UnionOf(B, s))]
           h == [s \in SUBSET S |-> IF s = {} THEN 0
                           ELSE c[CHOOSE x \in s : TRUE] + g[s \ {CHOOSE x \in s : TRUE}]]
<1>1. ASSUME NEW s \in SUBSET S PROVE g[s] = h[s]
  <2>1. CASE s = {}
    <3>1. UnionOf(B, s) = {}
      BY <2>1 DEF UnionOf
    <3> QED
      BY <2>1, <3>1, FS_EmptySet
  <2>2. CASE s # {}
    <3>1. PICK x \in s : x = CHOOSE y \in s : TRUE
      BY <2>2
    <3>2. Cardinality(UnionOf(B, s)) = Cardinality(B[x]) + Cardinality(UnionOf(B, s \ {x}))
      BY UnionAdds, UnionFinite
    <3>3. h[s] = c[x] + g[s \ {x}]
      BY <2>2, <3>1
    <3>4. g[s \ {x}] = Cardinality(UnionOf(B, s \ {x})) /\ c[x] = Cardinality(B[x])
      OBVIOUS
    <3> QED
      BY <3>2, <3>3, <3>4
  <2> QED
    BY <2>1, <2>2
<1>2. g = h
  <2>1. g = [s \in SUBSET S |-> g[s]] /\ h = [s \in SUBSET S |-> h[s]]
    OBVIOUS
  <2> HIDE DEF g, h
  <2> QED
    BY <1>1, <2>1
<1>3. AddsUp(g, c, S)
  <2> HIDE DEF g
  <2> QED
    BY <1>2 DEF AddsUp
<1> QED
  BY <1>3

\* A sum is the size of the union of disjoint sets of the sizes that are added.
LEMMA SumIs ==
  ASSUME NEW S, IsFiniteSet(S), NEW B, Disjoint(B, S), NEW c, \A p \in S : c[p] = Cardinality(B[p])
  PROVE  SumOf(c, S) = Cardinality(UnionOf(B, S))
<1>1. PICK it : it = (CHOOSE f : AddsUp(f, c, S)) /\ AddsUp(it, c, S)
  BY SizesAddUp
<1> DEFINE n == Cardinality(S)
           T == {m \in 0 .. n : \A s \in SUBSET S : Cardinality(s) = m =>
                                   it[s] = Cardinality(UnionOf(B, s))}
<1>2. n \in Nat
  BY FS_CardinalityType
<1>3. /\ it[{}] = 0
      /\ \A s \in SUBSET S : s # {} => \E x \in s : it[s] = c[x] + it[s \ {x}]
  <2>1. ASSUME NEW s \in SUBSET S, s # {} PROVE \E x \in s : it[s] = c[x] + it[s \ {x}]
    <3>1. PICK x \in s : x = CHOOSE y \in s : TRUE
      BY <2>1
    <3>2. it[s] = c[x] + it[s \ {x}]
      BY <1>1, <2>1, <3>1 DEF AddsUp
    <3> QED
      BY <3>2
  <2>2. it[{}] = 0
    BY <1>1 DEF AddsUp
  <2> QED
    BY <2>1, <2>2
<1>4. 0 \in T
  <2>1. ASSUME NEW s \in SUBSET S, Cardinality(s) = 0 PROVE it[s] = Cardinality(UnionOf(B, s))
    <3>1. s = {}
      BY <2>1, FS_EmptySet, FS_Subset
    <3>2. UnionOf(B, s) = {}
      BY <3>1 DEF UnionOf
    <3> QED
      BY <1>3, <3>1, <3>2, FS_EmptySet
  <2> QED
    BY <1>2, <2>1
<1>5. ASSUME NEW m \in 0 .. n - 1, m \in T PROVE m + 1 \in T
  <2>1. ASSUME NEW s \in SUBSET S, Cardinality(s) = m + 1
        PROVE  it[s] = Cardinality(UnionOf(B, s))
    <3>1. s # {}
      BY <1>2, <2>1, FS_EmptySet
    <3>2. PICK x \in s : it[s] = c[x] + it[s \ {x}]
      BY <1>3, <3>1
    <3>3. Cardinality(s \ {x}) = m
      <4>1. IsFiniteSet(s)
        BY FS_Subset
      <4>2. Cardinality(s \ {x}) = (m + 1) - 1
        BY <2>1, <4>1, FS_RemoveElement
      <4> QED
        BY <4>2
    <3>4. it[s \ {x}] = Cardinality(UnionOf(B, s \ {x}))
      BY <1>5, <3>3
    <3>5. Cardinality(UnionOf(B, s)) = Cardinality(B[x]) + Cardinality(UnionOf(B, s \ {x}))
      BY UnionAdds, UnionFinite
    <3> QED
      BY <3>2, <3>4, <3>5
  <2> QED
    BY <1>2, <2>1
<1> HIDE DEF T
<1>6. n \in T
  <2>1. \A m \in 0 .. n : m \in T
    BY <1>2, <1>4, <1>5, CountingUp
  <2> QED
    BY <1>2, <2>1
<1>7. it[S] = Cardinality(UnionOf(B, S))
  BY <1>6 DEF T
<1> QED
  BY <1>1, <1>7, SumFolds

-----------------------------------------------------------------------------
(* RateLimit *)

\* The ring of a limit fits into the array of a counter entry and is as long as the
\* time of the limit: PSC_RateLimitOpts_addLimit.
THEOREM RateRingFits ==
  ASSUME RateLimitAssumption
  PROVE  /\ Res \in Nat \ {0} /\ NCounts \in 1 .. MAXCOUNTS
         /\ NCounts * Res >= Seconds
<1> DEFINE M == MAXCOUNTS
           S == Seconds
<1>1. M \in Nat \ {0} /\ S \in Nat \ {0}
  BY DEF RateLimitAssumption
<1>2. PICK r \in Nat, e \in 0 .. M - 1 : r = Res /\ S + M - 1 = M * r + e
  BY <1>1, Quotient DEF Res
<1>3. M * r >= S /\ r # 0
  <2>1. M * r \in Nat
    BY <1>1
  <2>2. M * r >= S
    BY <1>1, <1>2, <2>1
  <2> QED
    BY <1>1, <2>2
<1>4. PICK q \in Nat, f \in 0 .. r - 1 : q = NCounts /\ S + r - 1 = r * q + f
  BY <1>1, <1>2, <1>3, Quotient DEF NCounts
<1>5. r * q \in Nat /\ r * q >= S /\ r * q <= S + r - 1
  <2>1. r * q \in Nat
    OBVIOUS
  <2> QED
    BY <1>1, <1>3, <1>4, <2>1
<1>6. q # 0
  BY <1>1, <1>5
<1>7. q <= M
  <2>1. ASSUME q >= M + 1 PROVE FALSE
    <3>1. r * q >= r * (M + 1)
      BY <1>1, <1>3, <2>1
    <3>2. r * (M + 1) = M * r + r
      BY <1>1
    <3>3. M * r \in Nat
      BY <1>1
    <3> QED
      BY <1>1, <1>3, <1>5, <3>1, <3>2, <3>3
  <2> QED
    BY <1>1, <2>1
<1>8. q * r >= S
  <2>1. q * r = r * q
    OBVIOUS
  <2> QED
    BY <1>5, <2>1
<1> QED
  BY <1>1, <1>2, <1>3, <1>4, <1>6, <1>7, <1>8

\* The positions passed by in k steps from c.
Passed(n, c, k) == {(c + i) % n : i \in 1 .. k}

\* The ring is stepped on k times: the positions passed by are the oldest ones, and
\* then the youngest; the others get older.
LEMMA RingSteps ==
  ASSUME NEW n \in Nat \ {0}, NEW c \in 0 .. n - 1, NEW k \in Nat, NEW p \in 0 .. n - 1,
         NEW d, d = (c + k) % n
  PROVE  /\ d \in 0 .. n - 1
         /\ p \in Passed(n, c, k) <=> AgeIn(n, c, p) >= n - k
         /\ p \in Passed(n, c, k) <=> AgeIn(n, d, p) < k
         /\ p \notin Passed(n, c, k) => AgeIn(n, d, p) = AgeIn(n, c, p) + k
<1> DEFINE x == AgeIn(n, c, p)
           Met == \E i \in 1 .. k : p = (c + i) % n
<1>1. x \in 0 .. n - 1 /\ (p = c - x \/ p = c - x + n)
  BY DEF AgeIn
<1>2. d \in 0 .. n - 1
  BY ModNear
<1>3. (c + (n - x)) % n = p
  <2>1. PICK a \in Int : a = c + (n - x)
    BY <1>1
  <2>2. (a = p /\ 0 <= a /\ a < n) \/ (a = p + n /\ n <= a /\ a < n + n)
    <3> HIDE DEF x
    <3> QED
      BY <1>1, <2>1
  <2>3. a % n = p
    <3>1. CASE a = p /\ 0 <= a /\ a < n
      BY <3>1, ModNear
    <3>2. CASE a = p + n /\ n <= a /\ a < n + n
      <4>1. a % n = a - n
        BY <3>2, ModNear
      <4> QED
        BY <3>2, <4>1
    <3> QED
      BY <2>2, <3>1, <3>2
  <2> QED
    BY <2>1, <2>3, Zenon
<1>4. ASSUME x >= n - k PROVE Met
  <2>1. n - x \in 1 .. k
    <3> HIDE DEF x
    <3> QED
      BY <1>1, <1>4
  <2> QED
    BY <1>3, <2>1
<1>5. ASSUME k < n, NEW i \in 1 .. k, p = (c + i) % n PROVE x = n - i
  <2>1. (c + i < n /\ p = c + i) \/ (c + i >= n /\ p = c + i - n)
    <3>1. PICK a \in Int : a = c + i
      OBVIOUS
    <3>2. p = a % n
      BY <1>5, <3>1, Zenon
    <3>3. CASE a < n
      <4>1. 0 <= a
        BY <3>1
      <4>2. a % n = a
        BY <3>3, <4>1, ModNear
      <4> QED
        BY <3>1, <3>2, <3>3, <4>2
    <3>4. CASE a >= n
      <4>1. n <= a /\ a < n + n
        BY <1>5, <3>1, <3>4
      <4>2. a % n = a - n
        BY <4>1, ModNear
      <4> QED
        BY <3>1, <3>2, <3>4, <4>2
    <3> QED
      BY <3>1, <3>3, <3>4
  <2> QED
    BY <1>5, <2>1 DEF AgeIn
<1> HIDE DEF x
<1>6. ASSUME Met PROVE x >= n - k
  <2>1. CASE k >= n
    BY <1>1, <2>1
  <2>2. CASE k < n
    BY <1>1, <1>5, <1>6, <2>2
  <2> QED
    BY <2>1, <2>2
<1>7. AgeIn(n, d, p) \in 0 .. n - 1
  BY <1>2 DEF AgeIn
<1>8. /\ x >= n - k <=> AgeIn(n, d, p) < k
      /\ ~(x >= n - k) => AgeIn(n, d, p) = x + k
  <2>1. CASE k >= n
    BY <1>1, <1>7, <2>1
  <2>2. CASE k < n
    <3>1. d = c + k \/ d = c + k - n
      <4>1. PICK a \in Int : a = c + k
        OBVIOUS
      <4>2. d = a % n
        BY <4>1, Zenon
      <4>3. (0 <= a /\ a < n) \/ (n <= a /\ a < n + n)
        BY <2>2, <4>1
      <4>4. a % n = a \/ a % n = a - n
        BY <4>3, ModNear
      <4> QED
        BY <4>1, <4>2, <4>4
    <3> QED
      BY <1>2, <2>2, <3>1 DEF x, AgeIn
  <2> QED
    BY <2>1, <2>2
<1>9. Met <=> x >= n - k
  BY <1>4, <1>6
<1>11. p \in Passed(n, c, k) <=> Met
  BY DEF Passed
<1> HIDE DEF Met
<1>10. /\ Met <=> x >= n - k
       /\ Met <=> AgeIn(n, d, p) < k
       /\ ~Met => AgeIn(n, d, p) = x + k
  BY <1>8, <1>9
<1> QED
  BY <1>2, <1>10, <1>11 DEF x

\* Every age below n is the age of one position.
LEMMA Ages ==
  ASSUME NEW n \in Nat \ {0}, NEW c \in 0 .. n - 1
  PROVE  /\ \A p \in 0 .. n - 1 : AgeIn(n, c, p) \in 0 .. n - 1
         /\ \A p, q \in 0 .. n - 1 : AgeIn(n, c, p) = AgeIn(n, c, q) => p = q
         /\ \A x \in 0 .. n - 1 : \E p \in 0 .. n - 1 : AgeIn(n, c, p) = x
<1>1. \A p \in 0 .. n - 1 : AgeIn(n, c, p) \in 0 .. n - 1
  BY DEF AgeIn
<1>2. \A p, q \in 0 .. n - 1 : AgeIn(n, c, p) = AgeIn(n, c, q) => p = q
  BY DEF AgeIn
<1>3. ASSUME NEW x \in 0 .. n - 1 PROVE \E p \in 0 .. n - 1 : AgeIn(n, c, p) = x
  <2>1. CASE x <= c
    <3>1. c - x \in 0 .. n - 1 /\ AgeIn(n, c, c - x) = x
      BY <2>1 DEF AgeIn
    <3> QED
      BY <3>1
  <2>2. CASE x > c
    <3>1. c - x + n \in 0 .. n - 1 /\ AgeIn(n, c, c - x + n) = x
      BY <2>2 DEF AgeIn
    <3> QED
      BY <3>1
  <2> QED
    BY <2>1, <2>2
<1> QED
  BY <1>1, <1>2, <1>3

\* The sum of some counters of a ring is the number of actions they count.
LEMMA RingSum ==
  ASSUME NEW n \in Nat \ {0}, NEW c \in 0 .. n - 1, NEW s \in Nat, NEW A, NEW f,
         RingCounts(n, A, s, c, f), NEW P \in SUBSET (0 .. n - 1)
  PROVE  SumOf(f, P)
            = Cardinality({a \in A : \E p \in P : a[1] = s - AgeIn(n, c, p)})
<1> DEFINE B == [p \in P |-> InSlot(A, s - AgeIn(n, c, p))]
<1>1. IsFiniteSet(P)
  <2>1. IsFiniteSet(0 .. n - 1)
    BY FS_Interval
  <2> QED
    BY <2>1, FS_Subset
<1>2. \A p \in P : IsFiniteSet(B[p])
  <2>1. ASSUME NEW p \in P PROVE IsFiniteSet(B[p])
    <3>1. B[p] \subseteq A
      BY DEF InSlot
    <3>2. IsFiniteSet(A)
      BY DEF RingCounts
    <3> QED
      BY <3>1, <3>2, FS_Subset
  <2> QED
    BY <2>1
<1>3. ASSUME NEW p \in P, NEW q \in P, p # q PROVE B[p] \cap B[q] = {}
  <2>1. s - AgeIn(n, c, p) # s - AgeIn(n, c, q)
    <3>1. AgeIn(n, c, p) # AgeIn(n, c, q) /\ AgeIn(n, c, p) \in Int /\ AgeIn(n, c, q) \in Int
      BY <1>3, Ages
    <3> QED
      BY <3>1
  <2> QED
    BY <2>1 DEF InSlot
<1>4. Disjoint(B, P)
  BY <1>2, <1>3 DEF Disjoint
<1>5. \A p \in P : f[p] = Cardinality(B[p])
  BY DEF RingCounts
<1>6. UnionOf(B, P) = {a \in A : \E p \in P : a[1] = s - AgeIn(n, c, p)}
  BY DEF UnionOf, InSlot
<1> HIDE DEF B
<1>7. SumOf(f, P) = Cardinality(UnionOf(B, P))
  BY <1>1, <1>4, <1>5, SumIs
<1> QED
  BY <1>6, <1>7, Zenon

\* The sum of all counters.
LEMMA RingTotal ==
  ASSUME NEW n \in Nat \ {0}, NEW c \in 0 .. n - 1, NEW s \in Nat, NEW A, NEW f,
         RingCounts(n, A, s, c, f)
  PROVE  SumOf(f, 0 .. n - 1) = Cardinality(SinceIn(n, A, s))
<1> DEFINE S == {a \in A : \E p \in 0 .. n - 1 : a[1] = s - AgeIn(n, c, p)}
<1>1. ASSUME NEW a \in A PROVE a \in S <=> a[1] + n > s
  <2>1. a[1] \in Nat /\ a[1] <= s
    BY DEF RingCounts
  <2>2. ASSUME a[1] + n > s PROVE a \in S
    <3>1. s - a[1] \in 0 .. n - 1
      BY <2>1, <2>2
    <3>2. PICK p \in 0 .. n - 1 : AgeIn(n, c, p) = s - a[1]
      BY <3>1, Ages
    <3>3. a[1] = s - AgeIn(n, c, p)
      BY <2>1, <3>2
    <3> QED
      BY <3>3
  <2>3. ASSUME NEW p \in 0 .. n - 1, a[1] = s - AgeIn(n, c, p) PROVE a[1] + n > s
    <3>1. AgeIn(n, c, p) \in 0 .. n - 1
      BY Ages
    <3> QED
      BY <2>3, <3>1
  <2> QED
    BY <2>2, <2>3
<1>2. S = SinceIn(n, A, s)
  BY <1>1 DEF SinceIn
<1>3. SumOf(f, 0 .. n - 1) = Cardinality(S)
  BY RingSum
<1> QED
  BY <1>2, <1>3, Zenon

\* What is counted in the positions passed by, and what still counts then.
LeavesBehind(n, A, s, c, f, k) ==
  /\ SumOf(f, Passed(n, c, k)) \in Nat
  /\ Cardinality(SinceIn(n, A, s + k)) \in Nat
  /\ Cardinality(SinceIn(n, A, s))
        = SumOf(f, Passed(n, c, k)) + Cardinality(SinceIn(n, A, s + k))

\* What is counted in the positions passed by is what the window leaves behind.
LEMMA PassedSum ==
  ASSUME NEW n \in Nat \ {0}, NEW c \in 0 .. n - 1, NEW s \in Nat, NEW A, NEW f,
         RingCounts(n, A, s, c, f), NEW k \in Nat
  PROVE  LeavesBehind(n, A, s, c, f, k)
<1> DEFINE D == Passed(n, c, k)
           L == {a \in A : \E p \in D : a[1] = s - AgeIn(n, c, p)}
           N == SinceIn(n, A, s + k)
<1>1. D \in SUBSET (0 .. n - 1)
  <2>1. ASSUME NEW i \in 1 .. k PROVE (c + i) % n \in 0 .. n - 1
    <3>1. PICK a \in Int : a = c + i
      OBVIOUS
    <3>2. a % n \in 0 .. n - 1
      BY ModNear
    <3> QED
      BY <3>1, <3>2, Zenon
  <2> QED
    BY <2>1 DEF Passed
<1>2. \A p \in 0 .. n - 1 : p \in D <=> AgeIn(n, c, p) >= n - k
  <2>1. ASSUME NEW p \in 0 .. n - 1 PROVE p \in D <=> AgeIn(n, c, p) >= n - k
    <3>1. PICK d : d = (c + k) % n
      OBVIOUS
    <3> QED
      BY <3>1, RingSteps
  <2> QED
    BY <2>1
<1>3. SumOf(f, D) = Cardinality(L)
  BY <1>1, RingSum
<1>4. ASSUME NEW a \in A PROVE (a \in L) <=> (a[1] + n > s /\ ~(a[1] + n > s + k))
  <2>1. a[1] \in Nat /\ a[1] <= s
    BY DEF RingCounts
  <2>2. ASSUME a[1] + n > s, ~(a[1] + n > s + k) PROVE a \in L
    <3>1. s - a[1] \in 0 .. n - 1 /\ s - a[1] >= n - k
      BY <2>1, <2>2
    <3>2. PICK p \in 0 .. n - 1 : AgeIn(n, c, p) = s - a[1]
      BY <3>1, Ages
    <3>3. a[1] = s - AgeIn(n, c, p)
      BY <2>1, <3>2
    <3>4. p \in D
      BY <1>2, <3>1, <3>2
    <3> QED
      BY <3>3, <3>4
  <2>3. ASSUME a \in L PROVE a[1] + n > s /\ ~(a[1] + n > s + k)
    <3>1. PICK p \in D : a[1] = s - AgeIn(n, c, p)
      BY <2>3
    <3>2. AgeIn(n, c, p) \in 0 .. n - 1 /\ AgeIn(n, c, p) >= n - k
      BY <1>1, <1>2, Ages
    <3> QED
      BY <3>1, <3>2
  <2> QED
    BY <2>2, <2>3
<1>5. SinceIn(n, A, s) = L \cup N /\ L \cap N = {}
  <2>1. ASSUME NEW a \in A PROVE a[1] + n > s + k => a[1] + n > s
    BY DEF RingCounts
  <2>2. L \subseteq A
    OBVIOUS
  <2> HIDE DEF L
  <2> QED
    BY <1>4, <2>1, <2>2 DEF SinceIn
<1>6. IsFiniteSet(L) /\ IsFiniteSet(N)
  <2>1. L \subseteq A /\ N \subseteq A /\ IsFiniteSet(A)
    BY DEF SinceIn, RingCounts
  <2> HIDE DEF L, N
  <2> QED
    BY <2>1, FS_Subset
<1> HIDE DEF L, N, D
<1>7. Cardinality(L \cup N) = Cardinality(L) + Cardinality(N) - Cardinality(L \cap N)
  BY <1>6, FS_Union
<1>8. Cardinality(L \cap N) = 0
  BY <1>5, FS_EmptySet
<1>9. Cardinality(L) \in Nat /\ Cardinality(N) \in Nat
  BY <1>6, FS_CardinalityType
<1>10. Cardinality(L \cup N) = Cardinality(L) + Cardinality(N)
  BY <1>7, <1>8, <1>9
<1>11. /\ SumOf(f, D) \in Nat /\ Cardinality(N) \in Nat
       /\ Cardinality(SinceIn(n, A, s)) = SumOf(f, D) + Cardinality(N)
  BY <1>3, <1>5, <1>9, <1>10, Zenon
<1> QED
  BY <1>11, Zenon DEF D, N, LeavesBehind

\* The counters after k steps, those passed by being reset.
LEMMA PassedCounts ==
  ASSUME NEW n \in Nat \ {0}, NEW c \in 0 .. n - 1, NEW s \in Nat, NEW A, NEW f,
         RingCounts(n, A, s, c, f), NEW k \in Nat, NEW d, d = (c + k) % n,
         NEW g, \A p \in 0 .. n - 1 : g[p] = IF p \in Passed(n, c, k) THEN 0 ELSE f[p]
  PROVE  d \in 0 .. n - 1 /\ RingCounts(n, A, s + k, d, g)
<1>1. d \in 0 .. n - 1
  BY ModNear
<1>5. PICK z \in Nat : z = s + k
  OBVIOUS
<1>2. ASSUME NEW p \in 0 .. n - 1 PROVE g[p] = Cardinality(InSlot(A, z - AgeIn(n, d, p)))
  <2> DEFINE Met == p \in Passed(n, c, k)
  <2>2. /\ Met <=> AgeIn(n, d, p) < k
        /\ ~Met => AgeIn(n, d, p) = AgeIn(n, c, p) + k
    BY RingSteps
  <2>3. AgeIn(n, c, p) \in 0 .. n - 1 /\ AgeIn(n, d, p) \in 0 .. n - 1
    BY <1>1, Ages
  <2> HIDE DEF Met
  <2>4. CASE Met
    <3>1. z - AgeIn(n, d, p) > s
      BY <1>5, <2>2, <2>3, <2>4
    <3>2. InSlot(A, z - AgeIn(n, d, p)) = {}
      <4>1. PICK x \in Int : x = z - AgeIn(n, d, p)
        BY <2>3
      <4>2. ASSUME NEW a \in A PROVE a[1] # x
        <5>1. a[1] \in Nat /\ a[1] <= s
          BY DEF RingCounts
        <5> QED
          BY <3>1, <4>1, <5>1
      <4>3. InSlot(A, x) = {}
        BY <4>2 DEF InSlot
      <4> QED
        BY <4>1, <4>3, Zenon
    <3>3. g[p] = 0
      BY <2>4 DEF Met
    <3> QED
      BY <3>2, <3>3, FS_EmptySet
  <2>5. CASE ~Met
    <3>1. z - AgeIn(n, d, p) = s - AgeIn(n, c, p)
      BY <1>5, <2>2, <2>3, <2>5
    <3>2. g[p] = f[p]
      BY <2>5 DEF Met
    <3>3. f[p] = Cardinality(InSlot(A, s - AgeIn(n, c, p)))
      BY DEF RingCounts
    <3> QED
      BY <3>1, <3>2, <3>3, Zenon
  <2> QED
    BY <2>4, <2>5
<1>3. \A a \in A : a[1] <= s + k
  BY DEF RingCounts
<1>4. A \subseteq Nat \X Nat /\ IsFiniteSet(A)
  BY DEF RingCounts
<1>6. RingCounts(n, A, z, d, g)
  <2>1. \A a \in A : a[1] <= z
    BY <1>3, <1>5, Zenon
  <2> QED
    BY <1>2, <1>4, <2>1, Zenon DEF RingCounts
<1> QED
  BY <1>1, <1>5, <1>6, Zenon

\* The actions of A in the n slots that end with slot z.
WindowIn(n, A, z) == {a \in A : a[1] <= z /\ a[1] + n > z}

\* One more action of slot s is a new one.
LEMMA NewAction ==
  ASSUME NEW A, A \subseteq Nat \X Nat, IsFiniteSet(A), NumberedIn(A), NEW s \in Nat,
         NEW e, e = <<s, Cardinality(InSlot(A, s))>>
  PROVE  e \in Nat \X Nat /\ e \notin A /\ e[1] = s /\ e[2] = Cardinality(InSlot(A, s))
<1>1. InSlot(A, s) \subseteq A
  BY DEF InSlot
<1>2. IsFiniteSet(InSlot(A, s))
  BY <1>1, FS_Subset
<1>3. PICK m \in Nat : m = Cardinality(InSlot(A, s))
  BY <1>2, FS_CardinalityType
<1>4. e = <<s, m>>
  BY <1>3, Zenon
<1>5. e \in Nat \X Nat /\ e[1] = s /\ e[2] = m
  BY <1>4
<1>6. ASSUME e \in A PROVE FALSE
  <2>1. e[2] < Cardinality(InSlot(A, e[1]))
    BY <1>6 DEF NumberedIn
  <2>2. m < m
    BY <1>3, <1>5, <2>1, Zenon
  <2> QED
    BY <2>2
<1> QED
  BY <1>3, <1>5, <1>6, Zenon

\* C is the history A and one more action of slot s.
OneMore(n, A, C, s) == C = SinceIn(n, A, s) \cup {<<s, Cardinality(InSlot(A, s))>>}

\* g counts C, and no window has grown above the one that ends with slot s.
Counted(n, A, C, s, c, g) ==
  /\ RingCounts(n, C, s, c, g) /\ NumberedIn(C)
  /\ Cardinality(SinceIn(n, A, s)) \in Nat
  /\ Cardinality(SinceIn(n, C, s)) = Cardinality(SinceIn(n, A, s)) + 1
  /\ \A z \in Nat : \/ Cardinality(WindowIn(n, C, z)) <= Cardinality(WindowIn(n, A, z))
                    \/ Cardinality(WindowIn(n, C, z)) <= Cardinality(SinceIn(n, C, s))

\* One more action, and one more in the current counter.
LEMMA CountsOne ==
  ASSUME NEW n \in Nat \ {0}, NEW c \in 0 .. n - 1, NEW s \in Nat, NEW A, NEW f,
         RingCounts(n, A, s, c, f), NumberedIn(A),
         NEW C, OneMore(n, A, C, s),
         NEW g, g[c] = f[c] + 1, \A p \in 0 .. n - 1 : p # c => g[p] = f[p]
  PROVE  Counted(n, A, C, s, c, g)
<1>1. A \subseteq Nat \X Nat /\ IsFiniteSet(A) /\ \A a \in A : a[1] \in Nat /\ a[1] <= s
  BY DEF RingCounts
<1>2. PICK e : e = <<s, Cardinality(InSlot(A, s))>>
  OBVIOUS
<1>3. e \in Nat \X Nat /\ e \notin A /\ e[1] = s /\ e[2] = Cardinality(InSlot(A, s))
  BY <1>1, <1>2, NewAction
<1>4. C = SinceIn(n, A, s) \cup {e}
  BY <1>2, Zenon DEF OneMore
<1>5. SinceIn(n, A, s) \subseteq A /\ e \notin SinceIn(n, A, s)
  BY <1>3 DEF SinceIn
<1>6. IsFiniteSet(SinceIn(n, A, s))
  BY <1>1, <1>5, FS_Subset
<1>7. /\ IsFiniteSet(C) /\ Cardinality(SinceIn(n, A, s)) \in Nat
      /\ Cardinality(C) = Cardinality(SinceIn(n, A, s)) + 1
  <2>1. PICK W : W = SinceIn(n, A, s)
    OBVIOUS
  <2>2. IsFiniteSet(W) /\ e \notin W /\ C = W \cup {e}
    BY <1>4, <1>5, <1>6, <2>1, Zenon
  <2>3. IsFiniteSet(W \cup {e}) /\ Cardinality(W) \in Nat /\ Cardinality(W \cup {e}) = Cardinality(W) + 1
    BY <2>2, FS_AddElement, FS_CardinalityType
  <2> QED
    BY <2>1, <2>2, <2>3, Zenon
<1>8. C \subseteq Nat \X Nat /\ \A a \in C : a[1] \in Nat /\ a[1] <= s /\ a[1] + n > s
  <2>1. s <= s /\ s + n > s
    OBVIOUS
  <2> QED
    BY <1>1, <1>3, <1>4, <2>1 DEF SinceIn
<1>9. SinceIn(n, C, s) = C
  BY <1>8 DEF SinceIn
<1>10. ASSUME NEW x \in Int, x > s - n, x # s PROVE InSlot(C, x) = InSlot(A, x)
  <2>1. \A a \in A : a[1] = x => a[1] + n > s
    BY <1>1, <1>10
  <2>2. InSlot(SinceIn(n, A, s), x) = InSlot(A, x)
    BY <2>1 DEF InSlot, SinceIn
  <2> QED
    BY <1>3, <1>4, <1>10, <2>2 DEF InSlot
<1>11. InSlot(C, s) = InSlot(A, s) \cup {e} /\ e \notin InSlot(A, s)
  <2>1. \A a \in A : a[1] = s => a[1] + n > s
    BY <1>1
  <2>2. InSlot(SinceIn(n, A, s), s) = InSlot(A, s)
    BY <2>1 DEF InSlot, SinceIn
  <2> QED
    BY <1>3, <1>4, <2>2 DEF InSlot
<1>12. Cardinality(InSlot(A, s)) \in Nat /\ Cardinality(InSlot(C, s)) = Cardinality(InSlot(A, s)) + 1
  <2>1. InSlot(A, s) \subseteq A
    BY DEF InSlot
  <2>2. IsFiniteSet(InSlot(A, s))
    BY <1>1, <2>1, FS_Subset
  <2> QED
    BY <1>11, <2>2, FS_AddElement, FS_CardinalityType
<1>13. RingCounts(n, C, s, c, g)
  <2>1. ASSUME NEW p \in 0 .. n - 1 PROVE g[p] = Cardinality(InSlot(C, s - AgeIn(n, c, p)))
    <3>1. f[p] = Cardinality(InSlot(A, s - AgeIn(n, c, p)))
      BY DEF RingCounts
    <3>2. CASE p = c
      <4>1. s - AgeIn(n, c, p) = s
        BY <3>2 DEF AgeIn
      <4>2. f[p] = Cardinality(InSlot(A, s)) /\ g[p] = f[p] + 1
        BY <3>1, <3>2, <4>1, Zenon
      <4> QED
        BY <1>12, <4>1, <4>2, Zenon
    <3>3. CASE p # c
      <4>1. PICK x \in Int : x = s - AgeIn(n, c, p) /\ x > s - n /\ x # s
        <5>1. PICK y \in Int : y = AgeIn(n, c, p) /\ y # 0 /\ y < n
          BY <3>3 DEF AgeIn
        <5>2. s - y \in Int /\ s - y > s - n /\ s - y # s
          BY <5>1
        <5> QED
          BY <5>1, <5>2, Zenon
      <4>2. InSlot(C, x) = InSlot(A, x)
        BY <1>10, <4>1
      <4>3. g[p] = f[p]
        BY <3>3
      <4> QED
        BY <3>1, <4>1, <4>2, <4>3, Zenon
    <3> QED
      BY <3>2, <3>3
  <2>2. \A a \in C : a[1] <= s
    BY <1>8
  <2>3. C \subseteq Nat \X Nat
    BY <1>8
  <2> QED
    BY <1>7, <2>1, <2>2, <2>3, Zenon DEF RingCounts
<1>14. NumberedIn(C)
  <2>1. ASSUME NEW a \in C PROVE a[2] < Cardinality(InSlot(C, a[1]))
    <3>1. CASE a = e
      <4>1. a[1] = s /\ a[2] = Cardinality(InSlot(A, s))
        BY <1>3, <3>1
      <4>2. PICK m \in Nat : m = Cardinality(InSlot(A, s))
        BY <1>12
      <4>3. Cardinality(InSlot(C, a[1])) = m + 1 /\ a[2] = m
        BY <1>12, <4>1, <4>2, Zenon
      <4> QED
        BY <4>3
    <3>2. CASE a \in SinceIn(n, A, s)
      <4>1. a \in A /\ a[1] \in Int /\ a[1] > s - n /\ a[2] \in Nat
        BY <1>1, <3>2 DEF SinceIn
      <4>2. a[2] < Cardinality(InSlot(A, a[1]))
        BY <4>1 DEF NumberedIn
      <4>3. CASE a[1] = s
        <5>1. PICK m \in Nat : m = Cardinality(InSlot(A, s))
          BY <1>12
        <5>2. a[2] < m /\ Cardinality(InSlot(C, a[1])) = m + 1
          BY <1>12, <4>2, <4>3, <5>1, Zenon
        <5> QED
          BY <4>1, <5>2
      <4>4. CASE a[1] # s
        <5>1. InSlot(C, a[1]) = InSlot(A, a[1])
          BY <1>10, <4>1, <4>4
        <5> QED
          BY <4>2, <5>1, Zenon
      <4> QED
        BY <4>3, <4>4
    <3> QED
      BY <1>4, <3>1, <3>2
  <2> QED
    BY <2>1, Zenon DEF NumberedIn
<1>15. ASSUME NEW z \in Nat
       PROVE  \/ Cardinality(WindowIn(n, C, z)) <= Cardinality(WindowIn(n, A, z))
              \/ Cardinality(WindowIn(n, C, z)) <= Cardinality(SinceIn(n, C, s))
  <2>1. CASE z >= s
    <3>1. WindowIn(n, C, z) \subseteq SinceIn(n, C, s)
      BY <1>9 DEF WindowIn
    <3>2. IsFiniteSet(SinceIn(n, C, s))
      BY <1>7, <1>9, Zenon
    <3> QED
      BY <3>1, <3>2, FS_Subset
  <2>2. CASE z < s
    <3>1. WindowIn(n, C, z) \subseteq WindowIn(n, A, z)
      <4>1. \A a \in C : a[1] <= z => a \in A
        BY <1>3, <1>4, <1>5, <2>2
      <4> QED
        BY <4>1 DEF WindowIn
    <3>2. IsFiniteSet(WindowIn(n, A, z))
      <4>1. WindowIn(n, A, z) \subseteq A
        BY DEF WindowIn
      <4> QED
        BY <1>1, <4>1, FS_Subset
    <3> QED
      BY <3>1, <3>2, FS_Subset
  <2> QED
    BY <2>1, <2>2
<1>16. Cardinality(SinceIn(n, C, s)) = Cardinality(SinceIn(n, A, s)) + 1
  BY <1>7, <1>9, Zenon
<1> QED
  BY <1>7, <1>13, <1>14, <1>15, <1>16, Zenon DEF Counted

\* Nothing counts any more in slot z, in a ring of zeros.
LEMMA RingEmpty ==
  ASSUME NEW n \in Nat \ {0}, NEW c \in 0 .. n - 1, NEW z \in Nat, NEW A,
         A \subseteq Nat \X Nat, IsFiniteSet(A), \A a \in A : a[1] + n <= z,
         NEW f, \A p \in 0 .. n - 1 : f[p] = 0
  PROVE  RingCounts(n, A, z, c, f) /\ Cardinality(SinceIn(n, A, z)) = 0
<1>1. \A a \in A : a[1] \in Nat /\ a[1] <= z /\ ~(a[1] + n > z)
  OBVIOUS
<1>2. ASSUME NEW p \in 0 .. n - 1 PROVE f[p] = Cardinality(InSlot(A, z - AgeIn(n, c, p)))
  <2>1. PICK y \in 0 .. n - 1 : y = AgeIn(n, c, p)
    BY Ages
  <2>2. \A a \in A : a[1] # z - y
    BY <1>1
  <2>3. InSlot(A, z - y) = {}
    BY <2>2 DEF InSlot
  <2>4. f[p] = 0 /\ Cardinality({}) = 0
    BY FS_EmptySet
  <2> QED
    BY <2>1, <2>3, <2>4, Zenon
<1>3. RingCounts(n, A, z, c, f)
  BY <1>1, <1>2, Zenon DEF RingCounts
<1>4. SinceIn(n, A, z) = {}
  BY <1>1 DEF SinceIn
<1> QED
  BY <1>3, <1>4, FS_EmptySet

\* A ring whose total is 0 is one of zeros, in which nothing counts.
LEMMA RingOfZeros ==
  ASSUME NEW n \in Nat \ {0}, NEW c \in 0 .. n - 1, NEW s \in Nat, NEW A, NEW f,
         RingCounts(n, A, s, c, f), Cardinality(SinceIn(n, A, s)) = 0
  PROVE  (\A a \in A : a[1] + n <= s) /\ \A p \in 0 .. n - 1 : f[p] = 0
<1>1. A \subseteq Nat \X Nat /\ IsFiniteSet(A)
  BY DEF RingCounts
<1>2. SinceIn(n, A, s) = {}
  <2>1. SinceIn(n, A, s) \subseteq A
    BY DEF SinceIn
  <2> QED
    BY <1>1, <2>1, FS_Subset, FS_EmptySet
<1>3. \A a \in A : a[1] + n <= s
  BY <1>1, <1>2 DEF SinceIn
<1>4. ASSUME NEW p \in 0 .. n - 1 PROVE f[p] = 0
  <2>1. PICK y \in 0 .. n - 1 : y = AgeIn(n, c, p)
    BY Ages
  <2>2. \A a \in A : a[1] # s - y
    BY <1>1, <1>3
  <2>3. InSlot(A, s - y) = {}
    BY <2>2 DEF InSlot
  <2>4. f[p] = Cardinality(InSlot(A, s - y))
    BY <2>1 DEF RingCounts
  <2> QED
    BY <2>3, <2>4, FS_EmptySet
<1> QED
  BY <1>3, <1>4

\* The constants of a limit.
LEMMA RateConstants ==
  ASSUME RateLimitAssumption
  PROVE  /\ Res \in Nat \ {0} /\ NCounts \in Nat \ {0} /\ Wrap \in Nat \ {0}
         /\ Limit \in Nat /\ Limit < Wrap /\ MaxGap \in Nat
  BY RateRingFits DEF RateLimitAssumption

\* An entry that is reset because its last slot is too old loses nothing that counts.
LEMMA ZeroedFits ==
  ASSUME RateLimitAssumption, RateTypeOK, NEW s \in Nat, NEW z \in Nat, s <= z, z - s < Wrap,
         RingFits(s), (z % Wrap) - last >= NCounts, Zeroed(z % Wrap), UNCHANGED allowed
  PROVE  /\ last' \in Nat /\ total' \in Nat /\ countpos' \in Pos /\ counts' \in [Pos -> Nat]
         /\ RingFits(z)'
<1>1. PICK n \in Nat \ {0} : n = NCounts
  BY RateConstants
<1>2. Wrap \in Nat \ {0}
  BY RateConstants
<1>3. n <= z - s
  <2>1. (z % Wrap) - (s % Wrap) >= n
    BY <1>1, Zenon DEF RingFits
  <2>2. (z % Wrap) - (s % Wrap) = z - s \/ (z % Wrap) - (s % Wrap) = z - s - Wrap
    <3>1. NearMod(Wrap, s, z)
      BY <1>2, ModDiff
    <3> QED
      BY <3>1, Zenon DEF NearMod
  <2>3. PICK d : d = (z % Wrap) - (s % Wrap)
    OBVIOUS
  <2>4. d >= n /\ (d = z - s \/ d = z - s - Wrap)
    BY <2>1, <2>2, <2>3, Zenon
  <2> QED
    BY <1>2, <2>4
<1>4. last' = z % Wrap /\ total' = 0 /\ countpos' = 0 /\ counts' = [p \in Pos |-> 0]
  BY DEF Zeroed
<1>5. Pos = 0 .. n - 1
  BY <1>1 DEF Pos
<1>6. z % Wrap \in Nat
  BY <1>2, ModNear
<1>7. RingCounts(n, allowed, s, countpos, counts)
  BY <1>1 DEF RingFits
<1>8. allowed \subseteq Nat \X Nat /\ IsFiniteSet(allowed) /\ \A a \in allowed : a[1] + n <= z
  BY <1>3, <1>7 DEF RingCounts
<1>9. 0 \in 0 .. n - 1 /\ \A p \in 0 .. n - 1 : counts'[p] = 0
  BY <1>4, <1>5
<1>10. /\ RingCounts(n, allowed, z, 0, counts')
       /\ Cardinality(SinceIn(n, allowed, z)) = 0
  BY <1>8, <1>9, RingEmpty
<1>11. RingFits(z)'
  BY <1>1, <1>4, <1>10, Zenon DEF RingFits
<1>12. counts' \in [Pos -> Nat] /\ 0 \in Pos
  BY <1>4, <1>5
<1> QED
  BY <1>4, <1>6, <1>11, <1>12

\* So does one that counts nothing and only gets the current slot.
LEMMA EmptyFits ==
  ASSUME RateLimitAssumption, RateTypeOK, NEW s \in Nat, NEW z \in Nat, s <= z,
         RingFits(s), total = 0, last' = z % Wrap, UNCHANGED <<total, countpos, counts, allowed>>
  PROVE  last' \in Nat /\ RingFits(z)'
<1>1. PICK n \in Nat \ {0} : n = NCounts
  BY RateConstants
<1>2. countpos \in 0 .. n - 1
  BY <1>1 DEF RateTypeOK, Pos
<1>3. RingCounts(n, allowed, s, countpos, counts) /\ Cardinality(SinceIn(n, allowed, s)) = 0
  BY <1>1 DEF RingFits
<1>4. (\A a \in allowed : a[1] + n <= s) /\ \A p \in 0 .. n - 1 : counts[p] = 0
  BY <1>2, <1>3, RingOfZeros
<1>5. allowed \subseteq Nat \X Nat /\ IsFiniteSet(allowed) /\ \A a \in allowed : a[1] + n <= z
  BY <1>3, <1>4 DEF RingCounts
<1>6. RingCounts(n, allowed, z, countpos, counts) /\ Cardinality(SinceIn(n, allowed, z)) = 0
  BY <1>2, <1>4, <1>5, RingEmpty
<1>7. RingFits(z)'
  BY <1>1, <1>6, Zenon DEF RingFits
<1>8. z % Wrap \in Nat
  BY RateConstants, ModNear
<1> QED
  BY <1>7, <1>8

\* The loop that steps the ring on drops exactly what counts no more.
LEMMA RotateFits ==
  ASSUME RateLimitAssumption, RateTypeOK, NEW s \in Nat, NEW z \in Nat, s <= z, z - s < Wrap,
         RingFits(s), total < Wrap, Rotate(z % Wrap), UNCHANGED allowed
  PROVE  /\ last' \in Nat /\ total' \in Nat /\ countpos' \in Pos /\ counts' \in [Pos -> Nat]
         /\ RingFits(z)'
<1>1. PICK n \in Nat \ {0} : n = NCounts
  BY RateConstants
<1>2. countpos \in 0 .. n - 1 /\ Wrap \in Nat \ {0} /\ total \in Nat /\ Pos = 0 .. n - 1
  BY <1>1, RateConstants DEF RateTypeOK, Pos
<1>3. PICK k \in Nat : k = z - s
  OBVIOUS
<1>4. ((z % Wrap) - last) % Wrap = k
  <2>1. NearMod(Wrap, s, z)
    BY <1>2, ModDiff
  <2> QED
    BY <1>3, <2>1, Zenon DEF NearMod, RingFits
<1>5. /\ last' = z % Wrap
      /\ countpos' = (countpos + k) % n
      /\ counts' = [p \in Pos |-> IF p \in Passed(n, countpos, k) THEN 0 ELSE counts[p]]
      /\ total' = (total - SumOf(counts, Passed(n, countpos, k))) % Wrap
  BY <1>1, <1>4, Zenon DEF Rotate, Passed, SumOf
<1>6. RingCounts(n, allowed, s, countpos, counts) /\ total = Cardinality(SinceIn(n, allowed, s))
  BY <1>1 DEF RingFits
<1>7. s + k = z
  BY <1>3
<1>8. countpos' \in 0 .. n - 1 /\ RingCounts(n, allowed, z, countpos', counts')
  <2>1. \A p \in 0 .. n - 1 : counts'[p] = IF p \in Passed(n, countpos, k) THEN 0 ELSE counts[p]
    BY <1>2, <1>5
  <2>2. countpos' \in 0 .. n - 1 /\ RingCounts(n, allowed, s + k, countpos', counts')
    BY <1>2, <1>5, <1>6, <2>1, PassedCounts
  <2> QED
    BY <1>7, <2>2, Zenon
<1>9. /\ SumOf(counts, Passed(n, countpos, k)) \in Nat
      /\ Cardinality(SinceIn(n, allowed, s + k)) \in Nat
      /\ Cardinality(SinceIn(n, allowed, s))
           = SumOf(counts, Passed(n, countpos, k)) + Cardinality(SinceIn(n, allowed, s + k))
  <2>1. LeavesBehind(n, allowed, s, countpos, counts, k)
    BY <1>2, <1>6, PassedSum
  <2> QED
    BY <2>1, Zenon DEF LeavesBehind
<1>10. total' = Cardinality(SinceIn(n, allowed, z)) /\ total' \in Nat
  <2>1. PICK x \in Nat : x = SumOf(counts, Passed(n, countpos, k))
    BY <1>9
  <2>2. PICK y \in Nat : y = Cardinality(SinceIn(n, allowed, z))
    BY <1>7, <1>9, Zenon
  <2>3. total = x + y /\ total' = (total - x) % Wrap
    BY <1>5, <1>6, <1>7, <1>9, <2>1, <2>2, Zenon
  <2>4. total - x = y /\ y < Wrap
    BY <1>2, <2>3
  <2>5. y % Wrap = y
    BY <1>2, <2>4, ModSmall
  <2> QED
    BY <2>2, <2>3, <2>4, <2>5, Zenon
<1>11. RingFits(z)'
  BY <1>1, <1>5, <1>8, <1>10, Zenon DEF RingFits
<1>12. last' \in Nat
  BY <1>2, <1>5, ModNear
<1>13. counts' \in [Pos -> Nat]
  BY <1>5 DEF RateTypeOK
<1> QED
  BY <1>2, <1>8, <1>10, <1>11, <1>12, <1>13, Zenon

\* The windows of the history.
LEMMA Windows ==
  /\ \A z : InWindow(z) = Cardinality(WindowIn(NCounts, allowed, z))
  /\ \A z : InWindow(z)' = Cardinality(WindowIn(NCounts, allowed', z))
  BY Zenon DEF InWindow, WindowIn

\* No window has more than Limit actions.
WindowsWithin == \A z \in Nat : InWindow(z) <= Limit

\* The total is the number of actions in the window of the slot the ring is aged for.
LEMMA TotalInWindow ==
  ASSUME NEW s \in Nat, RingFits(s)
  PROVE  total = InWindow(s)
<1>1. WindowIn(NCounts, allowed, s) = SinceIn(NCounts, allowed, s)
  <2>1. \A a \in allowed : a[1] <= s
    BY DEF RingFits, RingCounts
  <2> QED
    BY <2>1 DEF WindowIn, SinceIn
<1>2. InWindow(s) = Cardinality(SinceIn(NCounts, allowed, s))
  BY <1>1, Windows, Zenon
<1> QED
  BY <1>2, Zenon DEF RingFits

\* The total is the sum of the counters.
LEMMA TotalSums ==
  ASSUME RateLimitAssumption, RateTypeOK, NEW s \in Nat, RingFits(s)
  PROVE  TotalIsSum
<1>1. PICK n \in Nat \ {0} : n = NCounts
  BY RateConstants
<1>2. countpos \in 0 .. n - 1 /\ Pos = 0 .. n - 1
  BY <1>1 DEF RateTypeOK, Pos
<1>3. RingCounts(n, allowed, s, countpos, counts) /\ total = Cardinality(SinceIn(n, allowed, s))
  BY <1>1 DEF RingFits
<1>4. SumOf(counts, 0 .. n - 1) = Cardinality(SinceIn(n, allowed, s))
  BY <1>2, <1>3, RingTotal
<1>5. total = SumOf(counts, Pos)
  BY <1>2, <1>3, <1>4, Zenon
<1> QED
  BY <1>5, Zenon DEF TotalIsSum, SumOf

\* An action is counted: no counter wraps, and no window gets more than Limit.
LEMMA CountFits ==
  ASSUME RateLimitAssumption, RateTypeOK, NEW s \in Nat, RingFits(s), NumberedIn(allowed),
         WindowsWithin, total < Limit,
         counts' = [counts EXCEPT ![countpos] = (counts[countpos] + 1) % Wrap],
         total' = (total + 1) % Wrap, allowed' = Allow(s), UNCHANGED <<last, countpos>>
  PROVE  /\ total' \in Nat /\ counts' \in [Pos -> Nat]
         /\ allowed' \subseteq Nat \X Nat /\ IsFiniteSet(allowed')
         /\ RingFits(s)' /\ NumberedIn(allowed)' /\ WindowsWithin'
<1>1. PICK n \in Nat \ {0} : n = NCounts
  BY RateConstants
<1>2. /\ countpos \in 0 .. n - 1 /\ Pos = 0 .. n - 1 /\ total \in Nat /\ counts \in [0 .. n - 1 -> Nat]
      /\ Wrap \in Nat \ {0} /\ Limit \in Nat /\ Limit < Wrap
  BY <1>1, RateConstants DEF RateTypeOK, Pos
<1>3. RingCounts(n, allowed, s, countpos, counts) /\ total = Cardinality(SinceIn(n, allowed, s))
  BY <1>1 DEF RingFits
<1>4. counts[countpos] \in Nat /\ counts[countpos] <= total
  <2>1. counts[countpos] = Cardinality(InSlot(allowed, s - AgeIn(n, countpos, countpos)))
    BY <1>2, <1>3 DEF RingCounts
  <2>2. s - AgeIn(n, countpos, countpos) = s
    BY <1>2 DEF AgeIn
  <2>3. InSlot(allowed, s) \subseteq SinceIn(n, allowed, s)
    <3>1. s + n > s
      OBVIOUS
    <3> QED
      BY <3>1 DEF InSlot, SinceIn
  <2>4. IsFiniteSet(SinceIn(n, allowed, s))
    <3>1. SinceIn(n, allowed, s) \subseteq allowed /\ IsFiniteSet(allowed)
      BY <1>3 DEF SinceIn, RingCounts
    <3> QED
      BY <3>1, FS_Subset
  <2>5. Cardinality(InSlot(allowed, s)) <= Cardinality(SinceIn(n, allowed, s))
    BY <2>3, <2>4, FS_Subset
  <2>6. counts[countpos] <= total
    BY <1>3, <2>1, <2>2, <2>5, Zenon
  <2> QED
    BY <1>2, <2>6
<1>5. total' = total + 1 /\ counts' = [counts EXCEPT ![countpos] = counts[countpos] + 1]
  <2>1. PICK x \in Nat : x = counts[countpos]
    BY <1>4
  <2>2. x + 1 \in Nat /\ x + 1 < Wrap /\ total + 1 \in Nat /\ total + 1 < Wrap
    BY <1>2, <1>4, <2>1
  <2>3. (x + 1) % Wrap = x + 1 /\ (total + 1) % Wrap = total + 1
    BY <1>2, <2>2, ModSmall
  <2> QED
    BY <2>1, <2>3, Zenon
<1>6. counts' \in [Pos -> Nat] /\ total' \in Nat /\ total' <= Limit
  BY <1>2, <1>4, <1>5
<1>7. OneMore(n, allowed, allowed', s)
  BY <1>1, Zenon DEF Allow, OneMore, SinceIn, InSlot
<1>8. counts'[countpos] = counts[countpos] + 1 /\ \A p \in 0 .. n - 1 : p # countpos => counts'[p] = counts[p]
  BY <1>2, <1>5
<1>9. /\ RingCounts(n, allowed', s, countpos, counts') /\ NumberedIn(allowed')
      /\ Cardinality(SinceIn(n, allowed', s)) = Cardinality(SinceIn(n, allowed, s)) + 1
      /\ \A z \in Nat : \/ Cardinality(WindowIn(n, allowed', z)) <= Cardinality(WindowIn(n, allowed, z))
                        \/ Cardinality(WindowIn(n, allowed', z)) <= Cardinality(SinceIn(n, allowed', s))
  <2>1. Counted(n, allowed, allowed', s, countpos, counts')
    BY <1>2, <1>3, <1>7, <1>8, CountsOne
  <2> QED
    BY <2>1, Zenon DEF Counted
<1>10. total' = Cardinality(SinceIn(n, allowed', s))
  BY <1>3, <1>5, <1>9, Zenon
<1>11. RingFits(s)'
  <2>1. last = s % Wrap
    BY DEF RingFits
  <2> QED
    BY <1>1, <1>9, <1>10, <2>1, Zenon DEF RingFits
<1>12. NumberedIn(allowed)'
  BY <1>9, Zenon DEF NumberedIn, InSlot
<1>13. allowed' \subseteq Nat \X Nat /\ IsFiniteSet(allowed')
  BY <1>9 DEF RingCounts
<1>14. WindowsWithin'
  <2>1. ASSUME NEW z \in Nat PROVE Cardinality(WindowIn(n, allowed', z)) <= Limit
    <3>1. WindowIn(n, allowed', z) \subseteq allowed' /\ WindowIn(n, allowed, z) \subseteq allowed
      BY DEF WindowIn
    <3>2. IsFiniteSet(allowed)
      BY DEF RateTypeOK
    <3>3. IsFiniteSet(WindowIn(n, allowed', z)) /\ IsFiniteSet(WindowIn(n, allowed, z))
      BY <1>13, <3>1, <3>2, FS_Subset
    <3>4. PICK x \in Nat : x = Cardinality(WindowIn(n, allowed', z))
      BY <3>3, FS_CardinalityType
    <3>5. PICK y \in Nat : y = Cardinality(WindowIn(n, allowed, z))
      BY <3>3, FS_CardinalityType
    <3>6. y <= Limit
      BY <1>1, <3>5, Windows, Zenon DEF WindowsWithin
    <3>7. x <= y \/ x <= total'
      BY <1>9, <1>10, <3>4, <3>5, Zenon
    <3>8. x <= Limit
      BY <1>2, <1>6, <3>6, <3>7
    <3> QED
      BY <3>4, <3>8, Zenon
  <2> QED
    BY <1>1, <2>1, Windows, Zenon DEF WindowsWithin
<1> QED
  BY <1>6, <1>11, <1>12, <1>13, <1>14, Zenon

\* Later windows have no more actions than the one that ends with the slot the ring is aged
\* for, so that all of them are within the limit.
LEMMA AllWithin ==
  ASSUME RateLimitAssumption, RateTypeOK, WithinLimit, NEW s \in 0 .. Slot(clock), RingFits(s)
  PROVE  WindowsWithin
<1>1. PICK n \in Nat \ {0} : n = NCounts
  BY RateConstants
<1>2. Slot(clock) \in Nat
  BY RateConstants, Quotient DEF RateTypeOK, Slot
<1>3. s \in Nat /\ IsFiniteSet(allowed) /\ \A a \in allowed : a[1] \in Nat
  BY <1>2 DEF RateTypeOK
<1>4. InWindow(s) <= Limit
  BY DEF WithinLimit
<1>5. ASSUME NEW z \in Nat PROVE InWindow(z) <= Limit
  <2>1. CASE z <= Slot(clock)
    BY <1>2, <2>1 DEF WithinLimit
  <2>2. CASE ~(z <= Slot(clock))
    <3>1. z > s
      BY <1>2, <2>2
    <3>2. WindowIn(n, allowed, z) \subseteq WindowIn(n, allowed, s)
      <4>1. \A a \in allowed : a[1] <= s /\ (a[1] + n > z => a[1] + n > s)
        BY <1>3, <3>1 DEF RingFits, RingCounts
      <4> QED
        BY <4>1 DEF WindowIn
    <3>3. IsFiniteSet(WindowIn(n, allowed, s))
      <4>1. WindowIn(n, allowed, s) \subseteq allowed
        BY DEF WindowIn
      <4> QED
        BY <1>3, <4>1, FS_Subset
    <3>4. /\ Cardinality(WindowIn(n, allowed, z)) <= Cardinality(WindowIn(n, allowed, s))
          /\ IsFiniteSet(WindowIn(n, allowed, z))
      BY <3>2, <3>3, FS_Subset
    <3>5. PICK x \in Nat : x = Cardinality(WindowIn(n, allowed, z))
      BY <3>4, FS_CardinalityType
    <3>6. PICK y \in Nat : y = Cardinality(WindowIn(n, allowed, s))
      BY <3>3, FS_CardinalityType
    <3>7. x <= y /\ y <= Limit /\ InWindow(z) = x
      BY <1>1, <1>4, <3>4, <3>5, <3>6, Windows, Zenon
    <3>8. x <= Limit
      BY <3>7, RateConstants
    <3> QED
      BY <3>7, <3>8, Zenon
  <2> QED
    BY <2>1, <2>2
<1> QED
  BY <1>5 DEF WindowsWithin

\* What the invariant says while the only thread checks.
LEMMA Inside ==
  ASSUME RateLimitAssumption, RateInv, NEW t, Checkers = {t}
  PROVE  /\ Checking(t) /\ ts[t] = seen /\ ts[t] \in Nat /\ Slot(ts[t]) \in Nat
         /\ Slot(clock) \in Nat /\ Slot(ts[t]) <= Slot(clock)
         /\ \E s \in Nat : /\ s \in 0 .. Slot(ts[t]) /\ s \in 0 .. Slot(clock) /\ RingFits(s)
                           /\ Slot(ts[t]) - s < Wrap
                           /\ checkpc[t] \notin {"lock", "age"} => s = Slot(ts[t])
                           /\ WindowsWithin /\ total <= Limit
<1>1. Checking(t)
  BY DEF RateInv
<1>2. ts[t] = seen /\ ts[t] \in Nat /\ clock \in Nat /\ ts[t] <= clock
  BY <1>1 DEF RateInv, RateTypeOK, Checking
<1>3. Slot(ts[t]) \in Nat /\ Slot(clock) \in Nat
  BY <1>2, RateConstants, Quotient DEF Slot
<1>4. Slot(ts[t]) <= Slot(clock)
  BY <1>2, RateConstants, QuotientsNear DEF Slot
<1>5. PICK s \in 0 .. Slot(ts[t]) : /\ RingFits(s) /\ Slot(ts[t]) - s < Wrap
                                    /\ checkpc[t] \notin {"lock", "age"} => s = Slot(ts[t])
  BY <1>1, Zenon DEF Checking, Aged
<1>6. s \in Nat /\ s \in 0 .. Slot(clock)
  BY <1>3, <1>4
<1>7. WindowsWithin
  BY <1>5, <1>6, AllWithin DEF RateInv
<1>8. total <= Limit
  BY <1>5, <1>6, <1>7, TotalInWindow, Zenon DEF WindowsWithin
<1> QED
  BY <1>1, <1>2, <1>3, <1>4, <1>5, <1>6, <1>7, <1>8, Zenon

\* The invariant gives the property.
LEMMA InvExact ==
  ASSUME RateLimitAssumption, RateInv, NEW t, Checkers = {t}
  PROVE  LimitExact
<1>1. PICK s \in Nat : RingFits(s) /\ (checkpc[t] \notin {"lock", "age"} => s = Slot(ts[t]))
  BY Inside, Zenon
<1>2. TotalIsSum
  BY <1>1, TotalSums DEF RateInv
<1>3. RejectsOnlyAtLimit
  <2>1. ASSUME checkpc[t] = "reject" PROVE InWindow(Slot(ts[t])) >= Limit
    <3>1. checkpc[t] \notin {"lock", "age"}
      BY <2>1
    <3>2. total = InWindow(Slot(ts[t]))
      BY <1>1, <3>1, TotalInWindow, Zenon
    <3>3. total >= Limit
      BY <2>1, Inside, Zenon DEF Checking
    <3> QED
      BY <3>2, <3>3, Zenon
  <2> QED
    BY <2>1, Zenon DEF RejectsOnlyAtLimit
<1> QED
  BY <1>2, <1>3 DEF LimitExact, RateInv

\* What does not touch the entry and the history.
LEMMA RingUnchanged ==
  ASSUME UNCHANGED <<last, total, countpos, counts, allowed>>
  PROVE  /\ \A s : RingFits(s) <=> RingFits(s)'
         /\ NumberedIn(allowed) <=> NumberedIn(allowed)'
         /\ WindowsWithin <=> WindowsWithin'
<1>1. /\ last' = last /\ total' = total /\ countpos' = countpos /\ counts' = counts
      /\ allowed' = allowed
  OBVIOUS
<1>2. \A s : RingFits(s) <=> RingFits(s)'
  BY <1>1, Zenon DEF RingFits
<1>3. NumberedIn(allowed) <=> NumberedIn(allowed)'
  BY <1>1, Zenon DEF NumberedIn, InSlot
<1>4. WindowsWithin <=> WindowsWithin'
  BY <1>1, Zenon DEF WindowsWithin, InWindow
<1> QED
  BY <1>2, <1>3, <1>4, Zenon

\* The invariant holds at first.
LEMMA RateInvInit ==
  ASSUME RateLimitAssumption, RateInit
  PROVE  RateInv
<1>1. PICK n \in Nat \ {0} : n = NCounts
  BY RateConstants
<1>2. allowed = {} /\ IsFiniteSet({}) /\ Cardinality({}) = 0
  BY FS_EmptySet DEF RateInit
<1>3. Pos = 0 .. n - 1 /\ 0 \in 0 .. n - 1 /\ 0 \in Pos
  BY <1>1 DEF Pos
<1>4. RateTypeOK
  BY <1>2, <1>3 DEF RateInit, RateTypeOK
<1>5. NumberedIn(allowed)
  BY <1>2 DEF NumberedIn
<1>6. \A z : InWindow(z) = 0
  <2>1. \A z : {a \in allowed : a[1] <= z /\ a[1] + NCounts > z} = {}
    BY <1>2
  <2> QED
    BY <1>2, <2>1, Zenon DEF InWindow
<1>7. WithinLimit
  BY <1>6, RateConstants DEF WithinLimit
<1>8. seen <= clock /\ clock - seen <= MaxGap
  BY RateConstants DEF RateInit
<1>9. RingFits(0)
  <2>1. \A p \in 0 .. n - 1 : counts[p] = 0
    BY <1>3 DEF RateInit
  <2>2. \A a \in allowed : a[1] + n <= 0
    BY <1>2
  <2>3. RingCounts(n, allowed, 0, 0, counts) /\ Cardinality(SinceIn(n, allowed, 0)) = 0
    BY <1>2, <1>3, <2>1, <2>2, RingEmpty
  <2>4. last = 0 /\ countpos = 0 /\ total = 0
    BY DEF RateInit
  <2>5. 0 % Wrap = 0
    BY RateConstants, ModSmall
  <2> QED
    BY <1>1, <2>3, <2>4, <2>5, Zenon DEF RingFits
<1>10. ASSUME NEW t \in Checkers PROVE Checking(t)
  <2>1. ts[t] = 0 /\ seen = 0 /\ checkpc[t] = "idle"
    BY DEF RateInit
  <2>2. Slot(0) = 0
    BY RateConstants DEF Slot
  <2>3. 0 \in 0 .. 0 /\ 0 - 0 < Wrap
    BY RateConstants
  <2>4. Aged(t)
    BY <1>9, <2>1, <2>2, <2>3, Zenon DEF Aged
  <2> QED
    BY <2>1, <2>4 DEF Checking
<1> QED
  BY <1>4, <1>5, <1>7, <1>8, <1>10 DEF RateInv

\* Time passes.
LEMMA TickKeeps ==
  ASSUME RateLimitAssumption, RateInv, NEW t, Checkers = {t}, Tick
  PROVE  RateInv'
<1>1. /\ clock' = clock + 1 /\ clock - seen < MaxGap
      /\ lock' = lock /\ last' = last /\ total' = total /\ countpos' = countpos /\ counts' = counts
      /\ checkpc' = checkpc /\ ts' = ts /\ seen' = seen /\ allowed' = allowed
  BY DEF Tick, entry
<1>2. RateTypeOK'
  BY <1>1 DEF RateInv, RateTypeOK
<1>3. PICK s \in Nat : WindowsWithin
  BY Inside, Zenon
<1>4. UNCHANGED <<last, total, countpos, counts, allowed>>
  BY <1>1
<1>5. NumberedIn(allowed)' /\ WindowsWithin'
  BY <1>3, <1>4, RingUnchanged DEF RateInv
<1>6. WithinLimit'
  <2>1. Slot(clock') \in Nat
    BY <1>2, RateConstants, Quotient DEF Slot, RateTypeOK
  <2>2. \A z \in 0 .. Slot(clock') : z \in Nat
    BY <2>1
  <2> QED
    BY <1>5, <2>2, Zenon DEF WithinLimit, WindowsWithin
<1>7. Checking(t)'
  <2>1. Checking(t)
    BY DEF RateInv
  <2> QED
    BY <1>1, <2>1, Zenon DEF Checking, Aged, RingFits
<1>8. seen' <= clock' /\ clock' - seen' <= MaxGap
  BY <1>1, RateConstants DEF RateInv, RateTypeOK
<1> QED
  BY <1>2, <1>5, <1>6, <1>7, <1>8, Zenon DEF RateInv

\* The steps of a check that change nothing but where the thread is and the lock.
LEMMA PassKeeps ==
  ASSUME RateLimitAssumption, RateInv, NEW t, Checkers = {t},
         checkLimit_lock(t) \/ checkLimit_test(t) \/ checkLimit_unlock(t)
  PROVE  RateInv'
<1>1. /\ clock' = clock /\ last' = last /\ total' = total /\ countpos' = countpos
      /\ counts' = counts /\ ts' = ts /\ seen' = seen /\ allowed' = allowed
  BY DEF checkLimit_lock, checkLimit_test, checkLimit_unlock, entry
<1>2. /\ checkpc' \in [Checkers -> {"idle", "lock", "age", "test", "count", "unlock", "reject"}]
      /\ lock' \in BOOLEAN
      /\ (checkpc[t] \in {"lock", "age"}) <=> (checkpc'[t] \in {"lock", "age"})
      /\ checkpc'[t] = "count" => total < Limit
      /\ checkpc'[t] = "reject" => ~(total < Limit)
  BY DEF checkLimit_lock, checkLimit_test, checkLimit_unlock, RateInv, RateTypeOK
<1>3. RateTypeOK'
  BY <1>1, <1>2 DEF RateInv, RateTypeOK
<1>4. NumberedIn(allowed)'
  BY <1>1, Zenon DEF RateInv, NumberedIn, InSlot
<1>5. WithinLimit'
  BY <1>1, Zenon DEF RateInv, WithinLimit, InWindow
<1>6. Checking(t)'
  <2>1. Checking(t)
    BY DEF RateInv
  <2>2. Aged(t)'
    BY <1>1, <1>2, <2>1, Zenon DEF Checking, Aged, RingFits
  <2>3. checkpc'[t] = "reject" => total >= Limit
    BY <1>2, RateConstants DEF RateInv, RateTypeOK
  <2> QED
    BY <1>1, <1>2, <2>1, <2>2, <2>3, Zenon DEF Checking
<1>7. seen' <= clock' /\ clock' - seen' <= MaxGap
  BY <1>1 DEF RateInv
<1> QED
  BY <1>3, <1>4, <1>5, <1>6, <1>7, Zenon DEF RateInv

\* A check begins, with the entry as it is or with a new one.
LEMMA CheckKeeps ==
  ASSUME RateLimitAssumption, RateInv, NEW t, Checkers = {t}, MaxGap <= (Wrap - 1) * Res,
         PSC_RateLimit_check(t)
  PROVE  RateInv'
<1>1. /\ checkpc[t] = "idle" /\ ts' = [ts EXCEPT ![t] = clock] /\ seen' = clock
      /\ checkpc' = [checkpc EXCEPT ![t] = "lock"]
      /\ clock' = clock /\ lock' = lock /\ allowed' = allowed
  BY DEF PSC_RateLimit_check
<1>2. /\ clock \in Nat /\ ts[t] \in Nat /\ ts[t] = seen /\ ts[t] <= clock
      /\ clock - ts[t] <= MaxGap
      /\ Slot(ts[t]) \in Nat /\ Slot(clock) \in Nat /\ Slot(ts[t]) <= Slot(clock)
  <2>1. ts[t] = seen /\ ts[t] \in Nat /\ Slot(ts[t]) \in Nat
         /\ Slot(clock) \in Nat /\ Slot(ts[t]) <= Slot(clock)
    BY Inside, Zenon
  <2> QED
    BY <2>1 DEF RateInv, RateTypeOK
<1>3. PICK s \in Nat : s = Slot(ts[t]) /\ RingFits(s) /\ WindowsWithin
  <2>1. checkpc[t] \notin {"lock", "age"}
    BY <1>1
  <2> QED
    BY <2>1, Inside, Zenon
<1>4. PICK z \in Nat : z = Slot(clock)
  BY <1>2
<1>5. s <= z /\ z - s < Wrap
  <2>1. PICK m \in Nat : m = Wrap - 1 /\ m < Wrap
    BY RateConstants
  <2>2. m * Res \in Nat /\ Res \in Nat \ {0}
    BY RateConstants
  <2>3. MaxGap <= m * Res
    BY <2>1, Zenon
  <2>4. clock - ts[t] <= m * Res
    BY <1>2, <2>2, <2>3, RateConstants
  <2>5. (clock \div Res) - (ts[t] \div Res) <= m
    BY <1>2, <2>2, <2>4, QuotientsNear
  <2>6. z - s <= m
    BY <1>3, <1>4, <2>5, Zenon DEF Slot
  <2>7. s <= z
    BY <1>2, <1>3, <1>4, Zenon
  <2> QED
    BY <2>1, <2>6, <2>7, RateConstants
<1>6. /\ ts' \in [Checkers -> Nat] /\ ts'[t] = clock
      /\ checkpc' \in [Checkers -> {"idle", "lock", "age", "test", "count", "unlock", "reject"}]
      /\ checkpc'[t] = "lock"
  BY <1>1, <1>2 DEF RateInv, RateTypeOK
<1>7. /\ last' \in Nat /\ total' \in Nat /\ countpos' \in Pos /\ counts' \in [Pos -> Nat]
      /\ \E x \in 0 .. z : RingFits(x)' /\ z - x < Wrap
  <2>1. CASE UNCHANGED entry
    <3>1. UNCHANGED <<last, total, countpos, counts, allowed>>
      BY <1>1, <2>1 DEF entry
    <3>2. RingFits(s)'
      BY <1>3, <3>1, RingUnchanged
    <3>3. s \in 0 .. z
      BY <1>5
    <3> QED
      BY <1>5, <3>1, <3>2, <3>3 DEF RateInv, RateTypeOK
  <2>2. CASE Now(clock) - last >= NCounts /\ Zeroed(Now(clock))
    <3>1. (z % Wrap) - last >= NCounts /\ Zeroed(z % Wrap)
      BY <1>4, <2>2, Zenon DEF Now
    <3>2. /\ last' \in Nat /\ total' \in Nat /\ countpos' \in Pos /\ counts' \in [Pos -> Nat]
          /\ RingFits(z)'
      BY <1>1, <1>3, <1>5, <3>1, ZeroedFits DEF RateInv
    <3>3. z \in 0 .. z /\ z - z < Wrap
      BY RateConstants
    <3> QED
      BY <3>2, <3>3
  <2> QED
    BY <2>1, <2>2 DEF PSC_RateLimit_check
<1>8. RateTypeOK'
  BY <1>1, <1>6, <1>7 DEF RateInv, RateTypeOK
<1>9. NumberedIn(allowed)'
  BY <1>1, Zenon DEF RateInv, NumberedIn, InSlot
<1>10. WithinLimit'
  BY <1>1, Zenon DEF RateInv, WithinLimit, InWindow
<1>11. Aged(t)'
  BY <1>4, <1>6, <1>7 DEF Aged
<1>12. Checking(t)'
  BY <1>1, <1>6, <1>11 DEF Checking
<1>13. seen' <= clock' /\ clock' - seen' <= MaxGap
  BY <1>1, <1>2, RateConstants
<1> QED
  BY <1>8, <1>9, <1>10, <1>12, <1>13, Zenon DEF RateInv

\* The ring is aged.
LEMMA AgeKeeps ==
  ASSUME RateLimitAssumption, RateInv, NEW t, Checkers = {t}, checkLimit_age(t)
  PROVE  RateInv'
<1>1. /\ checkpc[t] = "age" /\ checkpc' = [checkpc EXCEPT ![t] = "test"]
      /\ clock' = clock /\ ts' = ts /\ seen' = seen /\ allowed' = allowed
  BY DEF checkLimit_age
<1>2. PICK z \in Nat : z = Slot(ts[t])
  BY Inside, Zenon
<1>3. PICK s \in Nat : s \in 0 .. z /\ RingFits(s) /\ z - s < Wrap /\ total <= Limit
  BY <1>2, Inside, Zenon
<1>4. s <= z /\ total \in Nat /\ total < Wrap /\ lock \in BOOLEAN
  BY <1>3, RateConstants DEF RateInv, RateTypeOK
<1>5. /\ last' \in Nat /\ total' \in Nat /\ countpos' \in Pos /\ counts' \in [Pos -> Nat]
      /\ RingFits(z)' /\ lock' \in BOOLEAN
  <2>1. CASE (z % Wrap) - last >= NCounts /\ Zeroed(z % Wrap) /\ lock' = (lock /\ ~Spin)
    <3>1. /\ last' \in Nat /\ total' \in Nat /\ countpos' \in Pos /\ counts' \in [Pos -> Nat]
          /\ RingFits(z)'
      BY <1>1, <1>3, <1>4, <2>1, ZeroedFits DEF RateInv
    <3> QED
      BY <2>1, <3>1
  <2>2. CASE Rotate(z % Wrap) /\ UNCHANGED lock
    <3>1. /\ last' \in Nat /\ total' \in Nat /\ countpos' \in Pos /\ counts' \in [Pos -> Nat]
          /\ RingFits(z)'
      BY <1>1, <1>3, <1>4, <2>2, RotateFits DEF RateInv
    <3> QED
      BY <1>4, <2>2, <3>1
  <2>3. CASE total = 0 /\ last' = z % Wrap /\ UNCHANGED <<total, countpos, counts, lock>>
    <3>1. last' \in Nat /\ RingFits(z)'
      BY <1>1, <1>3, <1>4, <2>3, EmptyFits DEF RateInv
    <3> QED
      BY <1>4, <2>3, <3>1 DEF RateInv, RateTypeOK
  <2>4. \/ (z % Wrap) - last >= NCounts /\ Zeroed(z % Wrap) /\ lock' = (lock /\ ~Spin)
        \/ Rotate(z % Wrap) /\ UNCHANGED lock
        \/ total = 0 /\ last' = z % Wrap /\ UNCHANGED <<total, countpos, counts, lock>>
    BY <1>2, Zenon DEF checkLimit_age, Now
  <2> QED
    BY <2>1, <2>2, <2>3, <2>4, Zenon
<1>6. /\ checkpc' \in [Checkers -> {"idle", "lock", "age", "test", "count", "unlock", "reject"}]
      /\ checkpc'[t] = "test"
  BY <1>1 DEF RateInv, RateTypeOK
<1>7. RateTypeOK'
  BY <1>1, <1>5, <1>6 DEF RateInv, RateTypeOK
<1>8. NumberedIn(allowed)'
  BY <1>1, Zenon DEF RateInv, NumberedIn, InSlot
<1>9. WithinLimit'
  BY <1>1, Zenon DEF RateInv, WithinLimit, InWindow
<1>10. Aged(t)'
  <2>1. z \in 0 .. z /\ z - z < Wrap
    BY RateConstants
  <2>2. z = Slot(ts'[t])
    BY <1>1, <1>2, Zenon
  <2> QED
    BY <1>5, <2>1, <2>2, Zenon DEF Aged
<1>11. Checking(t)'
  <2>1. ts'[t] = seen'
    BY <1>1, Inside, Zenon
  <2>2. checkpc'[t] # "count" /\ checkpc'[t] # "reject"
    BY <1>6
  <2> QED
    BY <1>10, <2>1, <2>2, Zenon DEF Checking
<1>12. seen' <= clock' /\ clock' - seen' <= MaxGap
  BY <1>1 DEF RateInv
<1> QED
  BY <1>7, <1>8, <1>9, <1>11, <1>12, Zenon DEF RateInv

\* An action is allowed and counted.
LEMMA CountKeeps ==
  ASSUME RateLimitAssumption, RateInv, NEW t, Checkers = {t}, checkLimit_count(t)
  PROVE  RateInv'
<1>1. /\ checkpc[t] = "count" /\ checkpc' = [checkpc EXCEPT ![t] = "unlock"]
      /\ clock' = clock /\ lock' = lock /\ last' = last /\ countpos' = countpos
      /\ ts' = ts /\ seen' = seen
      /\ counts' = [counts EXCEPT ![countpos] = (counts[countpos] + 1) % Wrap]
      /\ total' = (total + 1) % Wrap /\ allowed' = Allow(Slot(ts[t]))
  BY DEF checkLimit_count
<1>2. PICK s \in Nat : s = Slot(ts[t]) /\ RingFits(s) /\ WindowsWithin
  <2>1. checkpc[t] \notin {"lock", "age"}
    BY <1>1
  <2> QED
    BY <2>1, Inside, Zenon
<1>3. total < Limit
  BY <1>1, Inside, Zenon DEF Checking
<1>4. /\ total' \in Nat /\ counts' \in [Pos -> Nat]
      /\ allowed' \subseteq Nat \X Nat /\ IsFiniteSet(allowed')
      /\ RingFits(s)' /\ NumberedIn(allowed)' /\ WindowsWithin'
  <2>1. allowed' = Allow(s) /\ UNCHANGED <<last, countpos>>
    BY <1>1, <1>2
  <2>2. RateTypeOK /\ NumberedIn(allowed)
    BY DEF RateInv
  <2> QED
    BY <1>1, <1>2, <1>3, <2>1, <2>2, CountFits
<1>5. /\ checkpc' \in [Checkers -> {"idle", "lock", "age", "test", "count", "unlock", "reject"}]
      /\ checkpc'[t] = "unlock"
  BY <1>1 DEF RateInv, RateTypeOK
<1>6. RateTypeOK'
  BY <1>1, <1>4, <1>5 DEF RateInv, RateTypeOK
<1>7. WithinLimit'
  <2>1. Slot(clock') \in Nat
    BY <1>6, RateConstants, Quotient DEF Slot, RateTypeOK
  <2>2. \A z \in 0 .. Slot(clock') : z \in Nat
    BY <2>1
  <2> QED
    BY <1>4, <2>2, Zenon DEF WithinLimit, WindowsWithin
<1>8. Aged(t)'
  <2>1. s \in 0 .. s /\ s - s < Wrap
    BY RateConstants
  <2>2. s = Slot(ts'[t])
    BY <1>1, <1>2, Zenon
  <2> QED
    BY <1>4, <2>1, <2>2, Zenon DEF Aged
<1>9. Checking(t)'
  <2>1. ts'[t] = seen'
    BY <1>1, Inside, Zenon
  <2>2. checkpc'[t] # "count" /\ checkpc'[t] # "reject"
    BY <1>5
  <2> QED
    BY <1>8, <2>1, <2>2, Zenon DEF Checking
<1>10. seen' <= clock' /\ clock' - seen' <= MaxGap
  BY <1>1 DEF RateInv
<1> QED
  BY <1>4, <1>6, <1>7, <1>9, <1>10, Zenon DEF RateInv

\* With one thread that checks, and a time between two checks after which a slot number is
\* still not reused, a window of the limit's length never holds more allowed actions than
\* the limit, an action is rejected only when its window is full, and the total is the sum
\* of the counters: checkLimit ages the ring exactly, for every limit, length and size of
\* the ring, and no counter wraps.
THEOREM RateLimits ==
  ASSUME RateLimitAssumption, NEW t, Checkers = {t}, MaxGap <= (Wrap - 1) * Res
  PROVE  RateSpec => []LimitExact
<1>1. RateInit => RateInv
  BY RateInvInit
<1>2. RateInv /\ [RateNext]_ratevars => RateInv'
  <2> SUFFICES ASSUME RateInv, [RateNext]_ratevars PROVE RateInv'
    OBVIOUS
  <2>1. CASE Tick
    BY <2>1, TickKeeps
  <2>2. CASE Check(t)
    BY <2>2, CheckKeeps, PassKeeps, AgeKeeps, CountKeeps DEF Check
  <2>3. CASE UNCHANGED ratevars
    BY <2>3, Zenon DEF ratevars, RateInv, RateTypeOK, NumberedIn, InSlot, WithinLimit, InWindow,
                       Checking, Aged, RingFits
  <2> QED
    BY <2>1, <2>2, <2>3 DEF RateNext
<1>3. RateInv => LimitExact
  BY InvExact
<1> QED
  BY <1>1, <1>2, <1>3, PTL DEF RateSpec
=============================================================================
