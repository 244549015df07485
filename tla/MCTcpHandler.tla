---------------------------- MODULE MCTcpHandler ----------------------------
(***************************************************************************)
(* Instances of TcpHandler for TLC: a client of each kind that matters     *)
(* behind the handshake, a plain and an encrypting one that fit and one    *)
(* whose version is refused.                                               *)
(***************************************************************************)
EXTENDS TcpHandler

Client(variant, ver) ==
    [magic |-> "magic 1", variant |-> variant, identifier |-> "app",
     version |-> ver, rsa |-> "key"]

Server(variant) ==
    [variant |-> variant, identifier |-> "app", version |-> "1", accepts |-> {"1"}]

\* Clients that fit are of from_stream, and so are their servers: the writers are
\* BufWriters, which the crate of the plain server does not flush.  (An unbuffered
\* writer is one that is drained at once.)
FromStream ==
    client.variant = server.variant /\ client.version \in server.accepts =>
        /\ buffered = [s \in Side |-> TRUE]
        /\ auto_flush = [client |-> TRUE, server |-> Encrypts(server.variant)]

InstanceInit == HandlerInit /\ FromStream

InstanceSpec == InstanceInit /\ [][HandlerNext]_allVars /\ HandlerFairness

Callers == {Client("Raw", "1"), Client("Encryption", "1"), Client("Raw", "0")}
Listeners == {Server("Raw"), Server("Encryption")}
=============================================================================
