--------------------------- MODULE MCPlainChannel ---------------------------
(***************************************************************************)
(* Instances of PlainChannel for TLC: of the limits 39, 40 and 41 the      *)
(* small message passes the last two, the large one, a byte longer, only   *)
(* the last.                                                               *)
(***************************************************************************)
EXTENDS PlainChannel

CONSTANTS small, large

OneMessage == {small}
TwoMessages == {small, large}

Sizes == [m \in Message |-> IF m = small THEN 40 ELSE 41]

\* Level 0 stores with a byte more, other levels save a byte or none; nothing
\* becomes two.
DeflateLengths(level, n) ==
    IF n = 0 THEN {2} ELSE IF level = 0 THEN {n + 1} ELSE {n - 1, n}

Limit40  == {[max_packet_size |-> 40, compression |-> 6]}
Limits39 == Limit40 \cup {[max_packet_size |-> 39, compression |-> 6]}
Limits40 == Limit40 \cup {[max_packet_size |-> 41, compression |-> 6]}
Levels42 == {[max_packet_size |-> 42, compression |-> l] : l \in {0, 6}}
=============================================================================
