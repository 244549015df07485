---------------------------- MODULE MCHandshake ----------------------------
(***************************************************************************)
(* Instances of Handshake for TLC.  The names are interchangeable, so one  *)
(* server identifier is enough and one recommended version, "1": a client  *)
(* has the right or a wrong identifier, and an older version that the      *)
(* server still accepts or a newer one that it refuses.  Of the clients    *)
(* with other magic bytes one is enough, nothing else of it is read.       *)
(***************************************************************************)
EXTENDS Handshake

Client(magic, p) == [magic |-> magic, variant |-> p.variant,
                     identifier |-> p.identifier, version |-> p.version, rsa |-> "key"]

Params == [variant : ProtocolVariant, identifier : {"app", "other"}, version : {"0", "2"}]

TwoVersions ==
    {Client("magic 1", p) : p \in Params}
        \cup {Client("magic 0", [variant |-> "Raw", identifier |-> "app", version |-> "0"])}

Accepting == [variant : ProtocolVariant, identifier : {"app"}, version : {"1"},
              accepts : {{"0", "1"}}]
=============================================================================
