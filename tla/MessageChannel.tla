--------------------------- MODULE MessageChannel ---------------------------
(***************************************************************************)
(* What send and recv promise their callers, whatever the protocol: in     *)
(* each direction the receiver gets the payloads the other side sent, each *)
(* once, in the order of the sends, with nothing left out in between.  A   *)
(* channel may stop delivering at any moment; it may never deliver wrong.  *)
(***************************************************************************)
EXTENDS Naturals, Sequences

CONSTANT Payload

VARIABLES
    sent,  \* per side: the payloads it has sent
    got    \* per side: the payloads it has received

chanVars == <<sent, got>>

End == {"client", "server"}
Other(s) == IF s = "client" THEN "server" ELSE "client"

Init ==
    /\ sent = [s \in End |-> <<>>]
    /\ got  = [s \in End |-> <<>>]

Send(s, p) ==
    /\ sent' = [sent EXCEPT ![s] = Append(@, p)]
    /\ UNCHANGED got

Deliver(s) ==
    /\ Len(got[s]) < Len(sent[Other(s)])
    /\ got' = [got EXCEPT ![s] = Append(@, sent[Other(s)][Len(@) + 1])]
    /\ UNCHANGED sent

Next ==
    \E s \in End :
        \/ \E p \in Payload : Send(s, p)
        \/ Deliver(s)

Spec == Init /\ [][Next]_chanVars
=============================================================================
