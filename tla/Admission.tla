----------------------------- MODULE Admission -----------------------------
(***************************************************************************)
(* What `new` promises the two applications, whatever the protocol and     *)
(* whatever happens to the streams: the server comes to one verdict, the   *)
(* true one for the parameters of the two sides, and each side ends with   *)
(* that verdict or with an error of its own, never with another verdict.   *)
(* A client of another program is sent away without being told.            *)
(***************************************************************************)
CONSTANT OurMagic

VARIABLES
    client, server,  \* the parameters of the two sides
    verdict,         \* what the server has decided, if anything
    outcome          \* per side: how its `new` ended

admissionVars == <<client, server, verdict, outcome>>

Sides == {"client", "server"}
Told == {"Ok", "InvalidProtocol", "InvalidIdentifier", "InvalidVersion"}

\* The first thing in which the client does not suit the server.
TrueVerdict ==
    CASE client.magic # OurMagic                -> "InvalidStream"
      [] client.magic = OurMagic
         /\ client.variant # server.variant     -> "InvalidProtocol"
      [] client.magic = OurMagic
         /\ client.variant = server.variant
         /\ client.identifier # server.identifier -> "InvalidIdentifier"
      [] client.magic = OurMagic
         /\ client.variant = server.variant
         /\ client.identifier = server.identifier
         /\ client.version \notin server.accepts  -> "InvalidVersion"
      [] OTHER                                  -> "Ok"

Init ==
    /\ verdict = "none"
    /\ outcome = [s \in Sides |-> "pending"]

Decide ==
    /\ verdict = "none"
    /\ verdict' = TrueVerdict
    /\ UNCHANGED <<client, server, outcome>>

Learn(s) ==
    /\ outcome[s] = "pending"
    /\ verdict # "none"
    /\ s = "client" => verdict \in Told
    /\ outcome' = [outcome EXCEPT ![s] = verdict]
    /\ UNCHANGED <<client, server, verdict>>

Fail(s) ==
    /\ outcome[s] = "pending"
    /\ outcome' = [outcome EXCEPT ![s] = "error"]
    /\ UNCHANGED <<client, server, verdict>>

Next == Decide \/ \E s \in Sides : Learn(s) \/ Fail(s)

Spec == Init /\ [][Next]_admissionVars
=============================================================================
