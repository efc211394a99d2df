--------------------------- MODULE MCConnection ---------------------------
(***************************************************************************)
(* Single connections that show what the code does not keep.               *)
(***************************************************************************)
EXTENDS Connection

\* A TLS client that has something to send once it is connected.
TlsClient == {[mode |-> "connecting", tls |-> TRUE, client |-> TRUE, out |-> <<1>>,
               in |-> <<>>, ops |-> {}, live |-> FALSE]}

\* A plain connection with two write requests, of one byte each.
TwoWrites == {[mode |-> "normal", tls |-> FALSE, client |-> FALSE, out |-> <<1, 1>>,
               in |-> <<>>, ops |-> {}, live |-> FALSE]}
=============================================================================
