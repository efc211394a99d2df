----------------------------- MODULE MCNetwork -----------------------------
(***************************************************************************)
(* The parts that make up network servers and clients, each on an instance *)
(* of its own: "part" says which of them the behaviour is about, the       *)
(* others stay as they are.  Fairness is a hypothesis of the liveness      *)
(* properties, part by part.                                               *)
(***************************************************************************)
EXTENDS Connection, Server, Client, Resolver, RateLimit, Dictionary

VARIABLE part

-----------------------------------------------------------------------------
(* Values for constants; the small ones are in the configuration. *)

(* Write requests shorter and longer than the buffer, more of them than there  *)
(* are records; data that fits the read buffer, fills it, and is split by it.  *)
Sc(mode, tls, client, out, in, ops, live) ==
    [mode |-> mode, tls |-> tls, client |-> client, out |-> out, in |-> in, ops |-> ops,
     live |-> live]
Sending == Sc("normal", TRUE, FALSE, <<1, 3>>, <<>>, {"close"}, TRUE)
Scs == {Sending,
        Sc("normal", FALSE, FALSE, <<1, 3>>, <<>>, {"close"}, TRUE),
        Sc("normal", FALSE, FALSE, <<2, 1, 3>>, <<>>, {"close", "pause"}, FALSE),
        Sc("normal", TRUE, FALSE, <<3, 1>>, <<"a">>, {"close", "destroy"}, FALSE),
        Sc("connecting", FALSE, TRUE, <<1, 2>>, <<>>, {"close", "destroy"}, FALSE),
        Sc("pipewr", FALSE, FALSE, <<3, 3>>, <<>>, {"close"}, FALSE),
        Sc("piperd", FALSE, FALSE, <<>>, <<"a", "b", "c", "a", "b">>,
           {"close", "mark", "binary"}, FALSE),
        Sc("normal", TRUE, FALSE, <<>>, <<"a", "lf", "b", "lf">>, {"mark", "line"}, FALSE),
        Sc("normal", FALSE, FALSE, <<>>, <<"a", "cr", "lf", "b", "nul", "c">>,
           {"line", "binary"}, FALSE),
        Sc("normal", FALSE, FALSE, <<1>>, <<"a", "lf", "b">>,
           {"mark", "line", "pause"}, FALSE)}

\* A name with two addresses, and requests with and without TLS.
BothOrders == {<<"a", "b">>, <<"b", "a">>}
Protos == [a \in Addrs |-> IF a = "a" THEN "IPv4" ELSE "IPv6"]
SomeOptions == {[tls |-> TRUE, cert |-> TRUE, proto |-> "any", hits |-> 2],
                [tls |-> FALSE, cert |-> FALSE, proto |-> "IPv4", hits |-> 0]}

\* Two keys with the same hash, one that differs in the last digit, one in the
\* first; with a deleter for all, for each object, and without any.
Hashes == [k \in Keys |-> CASE k = "c" -> <<0, 0, 1>> [] k = "d" -> <<1, 0, 0>>
                             [] OTHER -> <<0, 0, 0>>]
DictKinds == {<<"global", TRUE>>, <<"each", FALSE>>, <<"none", FALSE>>}
Matched == {{"a", "b"}}

ASSUME /\ ConnAssumption /\ ServerAssumption /\ ClientAssumption /\ RateLimitAssumption
       /\ DictAssumption

-----------------------------------------------------------------------------
Parts == {"connection", "server", "client", "resolver", "ratelimit", "dictionary"}

\* A part that is not looked at starts in one way only.
MCInit ==
    /\ part \in Parts
    /\ ConnInit /\ Init /\ ClientInit /\ ResInit /\ RateInit /\ DictInit
    /\ part # "connection" => sc = Sending
    /\ part # "client" => opts.o.tls
    /\ part # "dictionary" => dict.shared

MCNext ==
    \/ part = "connection" /\ ConnNext
       /\ UNCHANGED <<part, vars, clvars, rvars, ratevars, dictVars>>
    \/ part = "server" /\ Next
       /\ UNCHANGED <<part, cvars, clvars, rvars, ratevars, dictVars>>
    \/ part = "client" /\ ClientNext
       /\ UNCHANGED <<part, cvars, vars, rvars, ratevars, dictVars>>
    \/ part = "resolver" /\ ResNext
       /\ UNCHANGED <<part, cvars, vars, clvars, ratevars, dictVars>>
    \/ part = "ratelimit" /\ RateNext
       /\ UNCHANGED <<part, cvars, vars, clvars, rvars, dictVars>>
    \/ part = "dictionary" /\ DictNext
       /\ UNCHANGED <<part, cvars, vars, clvars, rvars, ratevars>>

MCSpec == MCInit /\ [][MCNext]_<<part, cvars, vars, clvars, rvars, ratevars, dictVars>>

-----------------------------------------------------------------------------
(* Liveness of the parts; their invariants are in their modules *)

\* connection.c: what is queued on a connection is written in the end, and once it was
\* closed it is freed.  With TLS this needs no event but the connection's own; without
\* TLS it takes events of others that end the wait (OthersWake).
WritesEnd == part = "connection" /\ ConnFairness /\ OthersWake => QueuedIsWritten /\ ClosedIsFreed

\* server.c: PSC_Server_destroy comes back, and a shutdown with a timeout destroys
\* the server.
ServerEnds == part = "server" /\ Fairness => DestroyCompletes /\ ShutdownCompletes

\* resolver.c and client.c: every resolve is answered by one done event, a destroyed
\* resolver is freed in the end, and a client request the pool accepted is called back.
RequestsAnswered ==
    /\ part = "resolver" /\ ResFairness => DestroyedIsFreed /\ DoneOncePerResolve
    /\ part = "client" /\ ClientFairness => CalledBack
=============================================================================
