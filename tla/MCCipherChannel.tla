-------------------------- MODULE MCCipherChannel --------------------------
(***************************************************************************)
(* Instances of CipherChannel for TLC.  The sizes are chosen around        *)
(* the limit: encrypt adds 12 + 16 bytes, so 40 bytes hold a message of 12 *)
(* and not one of 13.                                                      *)
(***************************************************************************)
EXTENDS CipherChannel

CONSTANTS small, large

OneMessage == {small}
TwoMessages == {small, large}

Sizes == [m \in Message |-> IF m = small THEN 12 ELSE 13]

\* Level 0 stores with a byte more, other levels save a byte or none.
DeflateLengths(level, n) == IF level = 0 THEN {n + 1} ELSE {n - 1, n}

Limit40  == {[max_packet_size |-> 40, compression |-> 6]}
Limits40 == Limit40 \cup {[max_packet_size |-> 41, compression |-> 6]}
Limits42 == {[max_packet_size |-> 42, compression |-> 0],
             [max_packet_size |-> 43, compression |-> 6]}
=============================================================================
